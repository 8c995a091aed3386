------------------------------ MODULE Interfaces ------------------------------
(***************************************************************************)
(* The interfaces that share the scheduler and the CPU interrupt line,     *)
(* composed: PI and AI with their DMA engines, MI, and the interrupt side  *)
(* of SI, VI, SP and DP.  The CPU reaches a register only between two      *)
(* ticks; callbacks run only inside one.                                   *)
(***************************************************************************)
EXTENDS Pi, Ai, FiniteSets

CONSTANT MaskWrite   \* the <<clear, set>> pairs the CPU writes to MI_MASK

ASSUME MaskAssumption == MaskWrite \subseteq (SUBSET Line) \X (SUBSET Line)

vars == <<schedVars, miVars, piVars, aiVars>>

deviceVars == <<schedVars, piVars, aiVars>>

TypeOK ==
  /\ SchedTypeOK
  /\ MiTypeOK
  /\ PiTypeOK
  /\ AiTypeOK

Init ==
  /\ SchedInit
  /\ MiInit
  /\ PiInit
  /\ AiInit

-----------------------------------------------------------------------------
(***************************************************************************)
(* MI registers, and the devices seen only as interrupt sources.           *)
(***************************************************************************)

WriteMiMask(clear, set) ==
  /\ ~ticking
  /\ WriteMask(clear, set)
  /\ UNCHANGED deviceVars

\* MI_MODE with CLR_DP_INTR.
WriteMiMode ==
  /\ ~ticking
  /\ Ack("dp")
  /\ UNCHANGED deviceVars

\* SI DMAs finish inside the register write that starts them.
SiDma ==
  /\ ~ticking
  /\ Raise("si")
  /\ UNCHANGED deviceVars

WriteSiStatus ==
  /\ ~ticking
  /\ Ack("si")
  /\ UNCHANGED deviceVars

\* step(): V_CURRENT has reached VI_INTR.
ViCompare ==
  /\ ~ticking
  /\ Raise("vi")
  /\ UNCHANGED deviceVars

WriteViCurrent ==
  /\ ~ticking
  /\ Ack("vi")
  /\ UNCHANGED deviceVars

\* The RDP reached Sync Full; the command list may have been submitted by
\* the CPU or by an RSP task running inside a tick.
DpFullSync ==
  /\ Raise("dp")
  /\ UNCHANGED deviceVars

\* SP_STATUS with SET_INTR or CLEAR_INTR, by the CPU or by the RSP, and
\* break with interrupt-on-break.
SpInterrupt ==
  /\ Raise("sp") \/ Ack("sp")
  /\ UNCHANGED deviceVars

-----------------------------------------------------------------------------

InterfacesTick ==
  /\ \/ \E n \in 0 .. MaxTick : TickBegin(n)
     \/ TickEnd
  /\ UNCHANGED miVars /\ UNCHANGED piVars /\ UNCHANGED aiVars

SessionNext ==
  \/ PiCpuNext /\ UNCHANGED aiVars
  \/ AiCpuNext /\ UNCHANGED piVars
  \/ \E w \in MaskWrite : WriteMiMask(w[1], w[2])
  \/ WriteMiMode
  \/ SiDma
  \/ WriteSiStatus
  \/ ViCompare
  \/ WriteViCurrent
  \/ DpFullSync
  \/ SpInterrupt
  \/ InterfacesTick
  \/ \E e \in event_queue : PiCompleted(e) /\ UNCHANGED aiVars
  \/ \E e \in event_queue : AiCompleted(e) /\ UNCHANGED piVars

\* The player starts another game in the same process: reset_all.
PowerCycle ==
  /\ Restart
  /\ PiResetVars
  /\ AiResetVars
  /\ MiReset

\* One game from start to end, and any number of games in one process.
SessionSpec == Init /\ [][SessionNext]_vars

Spec == Init /\ [][SessionNext \/ PowerCycle]_vars

-----------------------------------------------------------------------------
(***************************************************************************)
(* Properties.                                                             *)
(***************************************************************************)

\* Across any number of games the CPU is never interrupted without a cause:
\* IP2 is up only while some enabled device line is pending.
Ip2NeverSpurious == ip2 => intr \cap mask # {}

\* What is in the scheduler's queue is what the devices of this game wait for.
\* PI: one completion for each transfer begun since the game was started and
\* not completed yet, none of a game before; and as long as its transfers have
\* neither overlapped nor been reset DMA_BUSY is set while one is pending.  (A
\* transfer that RESET_DMA was to stop still counts: the code completes it.)
\* AI: one completion while a buffer plays, none otherwise.
EveryEventHasAnOwner ==
  /\ \A e \in event_queue : e.cb \in PiCallback \cup {"on_dma_complete"}
  /\ Cardinality(PiPending) = pi_past.owed
  /\ pi_past.owed > 0 => "DMA_BUSY" \in pi_status \/ pi_past.lapped
  /\ Cardinality(AiPending) = IF fifo_count > 0 THEN 1 ELSE 0

\* A device interrupt is never lost inside the devices: a pending line goes
\* down only when the CPU or the RSP acknowledges that very line, never as
\* a side effect of a DMA completion of another device or of time passing.
LinesFallOnlyByAck ==
  [][current_time' # current_time \/ event_queue' # event_queue
       => intr \subseteq intr']_vars

=============================================================================

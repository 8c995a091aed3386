--------------------------------- MODULE Pi ---------------------------------
(***************************************************************************)
(* The Peripheral Interface's DMA engine (src/mmio/pi.cpp).                *)
(*                                                                         *)
(* A write to PI_WR_LEN or PI_RD_LEN copies the data at once, sets         *)
(* DMA_BUSY and arms a scheduler event length / 8 cycles ahead; the event  *)
(* clears DMA_BUSY and raises the PI interrupt.  Nothing checks DMA_BUSY   *)
(* first, so several completions can be pending.  The bytes copied are not *)
(* modelled here; addresses and lengths are, for they set the delay.  A    *)
(* cartridge address that selects neither SRAM nor ROM ends the process    *)
(* (Utils::unimplemented) and is no step of this module.                   *)
(***************************************************************************)
EXTENDS Scheduler, Mi

CONSTANTS DramSize,     \* size of the 23-bit DRAM address space: a power of 2
          PiAddress,    \* values the CPU writes to PI_DRAM_ADDR
          PiLength      \* values the CPU writes to PI_RD_LEN and PI_WR_LEN

ASSUME PiAssumption ==
  /\ DramSize \in Nat \ {0}
  /\ DramSize % 8 = 0
  /\ PiAddress \subseteq Nat
  /\ PiLength \subseteq Nat

VARIABLES pi_dram_addr,
          pi_rd_len,
          pi_wr_len,
          pi_status,     \* the set of PiStatusFlags that are set
          pi_past        \* history, which no action reads

piVars == <<pi_dram_addr, pi_rd_len, pi_wr_len, pi_status, pi_past>>

\* owed: the transfers of this game that have begun and not completed;
\* lapped: one of them has met another or RESET_DMA; split: RESET_DMA or the
\* start of another game has cleared PI_STATUS, which leaves MI_INTERRUPT, and
\* neither CLR_INTR nor a completion came since;
\* reset: RESET_DMA was written and no transfer has begun since.
PiPast == [owed : Nat, lapped : BOOLEAN, split : BOOLEAN, reset : BOOLEAN]
NoPast == [owed |-> 0, lapped |-> FALSE, split |-> FALSE, reset |-> FALSE]

PiCallback == {"on_dma_write_completed", "on_dma_read_completed"}

PiTypeOK ==
  /\ pi_dram_addr \in Nat
  /\ pi_rd_len \in Nat
  /\ pi_wr_len \in Nat
  /\ pi_status \subseteq {"DMA_BUSY", "INTERRUPT"}
  /\ pi_past \in PiPast

\* Also PI::reset.
PiInitValue == [dram |-> 0, len |-> 127, status |-> {}]

PiInit ==
  /\ pi_dram_addr = PiInitValue.dram
  /\ pi_rd_len = PiInitValue.len
  /\ pi_wr_len = PiInitValue.len
  /\ pi_status = PiInitValue.status
  /\ pi_past = NoPast

-----------------------------------------------------------------------------
(***************************************************************************)
(* dma_write and dma_read.                                                 *)
(***************************************************************************)

\* reg_dram_addr & 0x007FFFFE
DmaDram == (pi_dram_addr % DramSize) - (pi_dram_addr % 2)

\* A misaligned transfer of at least 7 bytes is shortened.
DmaLength(dram, len) ==
  IF dram % 8 # 0 /\ len + 1 >= 7 THEN len + 1 - (dram % 8) ELSE len + 1

Begun == [pi_past EXCEPT !.owed = @ + 1, !.reset = FALSE,
                         !.lapped = @ \/ pi_past.owed > 0]

MutStartNoTimer(length, cb) ==
  /\ pi_dram_addr' = DmaDram + length
  /\ pi_status' = pi_status \cup {"DMA_BUSY"}
  /\ pi_past' = Begun
  /\ UNCHANGED event_queue

\* The end of both handlers.
StartDma(length, cb) ==
  /\ pi_dram_addr' = DmaDram + length
  /\ pi_status' = pi_status \cup {"DMA_BUSY"}
  /\ pi_past' = Begun
  /\ event_queue' \in PushTo(event_queue, length \div 8, cb)

WriteWrLen(len) ==
  /\ ~ticking
  /\ LET length == DmaLength(DmaDram, len) IN
       /\ StartDma(length, "on_dma_write_completed")
       /\ pi_wr_len' = length
  /\ UNCHANGED <<pi_rd_len, current_time, named, ticking>>
  /\ UNCHANGED miVars

WriteRdLen(len) ==
  /\ ~ticking
  /\ LET length == DmaLength(DmaDram, len) IN
       /\ StartDma(length, "on_dma_read_completed")
       /\ pi_rd_len' = length
  /\ UNCHANGED <<pi_wr_len, current_time, named, ticking>>
  /\ UNCHANGED miVars

WritePiDramAddr(a) ==
  /\ ~ticking
  /\ pi_dram_addr' = a
  /\ UNCHANGED <<pi_rd_len, pi_wr_len, pi_status, pi_past>>
  /\ UNCHANGED miVars /\ UNCHANGED schedVars

Written(resetDma, clrIntr) ==
  [pi_past EXCEPT !.reset = @ \/ resetDma, !.split = (@ \/ resetDma) /\ ~clrIntr,
                  !.lapped = @ \/ (resetDma /\ pi_past.owed > 0)]

MutClearOnlyMi(resetDma, clrIntr) ==
  /\ ~ticking
  /\ pi_status' = IF resetDma THEN {} ELSE pi_status
  /\ pi_past' = Written(resetDma, clrIntr)
  /\ IF clrIntr THEN Ack("pi") ELSE UNCHANGED miVars
  /\ UNCHANGED <<pi_dram_addr, pi_rd_len, pi_wr_len>>
  /\ UNCHANGED schedVars

\* Write to PI_STATUS: RESET_DMA first, then CLR_INTR.  RESET_DMA clears the
\* status register and leaves the pending completion in the scheduler.
WritePiStatus(resetDma, clrIntr) ==
  /\ ~ticking
  /\ LET base == IF resetDma THEN {} ELSE pi_status IN
       pi_status' = IF clrIntr THEN base \ {"INTERRUPT"} ELSE base
  /\ pi_past' = Written(resetDma, clrIntr)
  /\ IF clrIntr THEN Ack("pi") ELSE UNCHANGED miVars
  /\ UNCHANGED <<pi_dram_addr, pi_rd_len, pi_wr_len>>
  /\ UNCHANGED schedVars

CompletedStatus == pi_status' = (pi_status \ {"DMA_BUSY"}) \cup {"INTERRUPT"}

Ended == [pi_past EXCEPT !.owed = @ - 1, !.split = FALSE,
                         !.lapped = @ /\ pi_past.owed > 1]

\* on_dma_write_completed and on_dma_read_completed.
PiCompleted(e) ==
  /\ e.cb \in PiCallback
  /\ DispatchQueued(e)
  /\ CompletedStatus
  /\ Raise("pi")
  /\ pi_past' = Ended
  /\ UNCHANGED <<pi_dram_addr, pi_rd_len, pi_wr_len>>

PiResetVars ==
  /\ pi_dram_addr' = PiInitValue.dram
  /\ pi_rd_len' = PiInitValue.len
  /\ pi_wr_len' = PiInitValue.len
  /\ pi_status' = PiInitValue.status
  /\ pi_past' = [NoPast EXCEPT !.split = TRUE]

PiCpuNext ==
  \/ \E len \in PiLength : WriteWrLen(len) \/ WriteRdLen(len)
  \/ \E a \in PiAddress : WritePiDramAddr(a)
  \/ \E r, c \in BOOLEAN : WritePiStatus(r, c)

\* reset_all, as far as this component sees it.
PiReset ==
  /\ Restart
  /\ PiResetVars
  /\ MiReset

\* The component by itself: its registers, its events and the passing of time.
PiTick ==
  /\ \/ \E n \in 0 .. MaxTick : TickBegin(n)
     \/ TickEnd
  /\ UNCHANGED piVars /\ UNCHANGED miVars

PiNext ==
  \/ PiCpuNext
  \/ PiTick
  \/ \E e \in event_queue : PiCompleted(e)
  \/ PiReset

PiStart ==
  /\ PiInit
  /\ SchedInit
  /\ MiInit

PiSpec == PiStart /\ [][PiNext]_<<piVars, schedVars, miVars>>

-----------------------------------------------------------------------------
(***************************************************************************)
(* Properties.                                                             *)
(***************************************************************************)

PiPending == {e \in event_queue : e.cb \in PiCallback}

\* A driver that polls PI_STATUS for DMA_BUSY always gets out: while the
\* bit is set some completion is pending, however transfers overlap.
BusyHasCompletion == "DMA_BUSY" \in pi_status => PiPending # {}

\* The PI interrupt is held twice.  PI_STATUS never claims an interrupt that
\* MI does not hold, so acknowledging through PI_STATUS is enough; and MI
\* holds none that PI_STATUS does not show, unless since the last completion or
\* CLR_INTR the game wrote RESET_DMA or was started anew, which clear the one
\* copy and not the other.
PiStatusIsMi ==
  /\ "INTERRUPT" \in pi_status => "pi" \in intr
  /\ "pi" \in intr => "INTERRUPT" \in pi_status \/ pi_past.split

\* "Reset DMA controller and stop any transfer being done" (pi.cpp:86): a
\* transfer that was stopped raises no interrupt any more.
StoppedTransferIsSilent ==
  [][pi_past.reset => ~("pi" \in intr' /\ "pi" \notin intr)]_<<intr, pi_past>>

=============================================================================

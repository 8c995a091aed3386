--------------------------------- MODULE Ai ---------------------------------
(***************************************************************************)
(* The Audio Interface's double-buffered DMA (src/mmio/ai.cpp).            *)
(*                                                                         *)
(* A write to AI_LENGTH puts a buffer in a FIFO of two.  Starting a buffer *)
(* raises the AI interrupt and arms one scheduler event for its duration;  *)
(* the event pops the buffer and starts the next.  AI_LENGTH reads compute *)
(* the bytes left from the scheduler's clock.  The samples handed to the   *)
(* host, AI_CONTROL and AI_BITRATE have no effect on this state.           *)
(***************************************************************************)
EXTENDS Scheduler, Mi

CONSTANTS AiAddress,       \* values of AI_DRAM_ADDR, 8-byte aligned
          AiLength,        \* values of AI_LENGTH after masking with 0x3FFF8
          AiRate,          \* values of AI_DACRATE
          DefaultDacrate,
          CpuClock,        \* CPU_CLOCK and DAC_CLOCK: only their ratio counts
          DacClock,
          PageSize         \* 0x2000

ASSUME AiAssumption ==
  /\ AiAddress \subseteq Nat
  /\ \A l \in AiLength : l \in Nat /\ l % 8 = 0
  /\ AiRate \subseteq Nat
  /\ DefaultDacrate \in Nat \ {0}
  /\ DacClock \in Nat \ {0}
  /\ CpuClock \in Nat
  /\ CpuClock >= DacClock
  /\ PageSize \in Nat \ {0}
  /\ "on_dma_complete" \in Callback

VARIABLES dma_addr, dma_length, fifo_count, next_dram_addr,
          dacrate, delayed_carry, dma_start_time, dma_duration_cycles

aiVars == <<dma_addr, dma_length, fifo_count, next_dram_addr,
            dacrate, delayed_carry, dma_start_time, dma_duration_cycles>>

AiTypeOK ==
  /\ dma_addr \in [0 .. 1 -> Nat]
  /\ dma_length \in [0 .. 1 -> Nat]
  /\ fifo_count \in 0 .. 2
  /\ next_dram_addr \in Nat
  /\ dacrate \in Nat
  /\ delayed_carry \in BOOLEAN
  /\ dma_start_time \in Nat
  /\ dma_duration_cycles \in Nat

ZeroSlots == [s \in 0 .. 1 |-> 0]

AiInit ==
  /\ dma_addr = ZeroSlots
  /\ dma_length = ZeroSlots
  /\ fifo_count = 0
  /\ next_dram_addr = 0
  /\ dacrate = DefaultDacrate
  /\ delayed_carry = FALSE
  /\ dma_start_time = 0
  /\ dma_duration_cycles = 0

-----------------------------------------------------------------------------

EffectiveRate == IF dacrate = 0 THEN DefaultDacrate ELSE dacrate

CyclesForLength(length) ==
  IF length \div 4 = 0 THEN 1
  ELSE ((length \div 4) * CpuClock * (EffectiveRate + 1)) \div DacClock

MutRemainingAtCurrentRate ==
  LET elapsed  == current_time - dma_start_time
      duration == CyclesForLength(dma_length[0])
      done     == (elapsed * dma_length[0]) \div duration
  IN  IF fifo_count = 0 \/ dma_duration_cycles = 0 THEN 0
      ELSE IF current_time <= dma_start_time THEN dma_length[0]
      ELSE IF elapsed >= duration THEN 0
      ELSE dma_length[0] - (done - (done % 4))

\* bytes_remaining(): what a read of AI_LENGTH returns.
BytesRemaining ==
  LET elapsed == current_time - dma_start_time
      done    == (elapsed * dma_length[0]) \div dma_duration_cycles
  IN  IF fifo_count = 0 \/ dma_duration_cycles = 0 THEN 0
      ELSE IF current_time <= dma_start_time THEN dma_length[0]
      ELSE IF elapsed >= dma_duration_cycles THEN 0
      ELSE dma_length[0] - (done - (done % 4))

-----------------------------------------------------------------------------

MutStartStaleTime(queue, addr, len, carry) ==
  /\ dma_addr' = [addr EXCEPT ![0] = IF carry THEN @ + PageSize ELSE @]
  /\ delayed_carry' = FALSE
  /\ dma_duration_cycles' = CyclesForLength(len[0])
  /\ UNCHANGED dma_start_time
  /\ event_queue' \in PushTo(queue, CyclesForLength(len[0]), "on_dma_complete")
  /\ Raise("ai")

\* start_next_dma() with a buffer in the FIFO, on the values that its caller
\* has given to the queue, the slots and the carry.
StartNextDma(queue, addr, len, carry) ==
  /\ dma_addr' = [addr EXCEPT ![0] = IF carry THEN @ + PageSize ELSE @]
  /\ delayed_carry' = FALSE
  /\ dma_duration_cycles' = CyclesForLength(len[0])
  /\ dma_start_time' = current_time
  /\ event_queue' \in PushTo(queue, CyclesForLength(len[0]), "on_dma_complete")
  /\ Raise("ai")

FifoHasRoom == fifo_count < 2

\* Write to AI_LENGTH: enqueue_dma.  A zero length or a full FIFO is ignored.
WriteAiLength(length) ==
  /\ ~ticking
  /\ length # 0
  /\ FifoHasRoom
  /\ LET addr == [dma_addr EXCEPT ![fifo_count] = next_dram_addr]
         len  == [dma_length EXCEPT ![fifo_count] = length]
     IN  /\ dma_length' = len
         /\ IF fifo_count = 0
            THEN StartNextDma(event_queue, addr, len, delayed_carry)
            ELSE /\ dma_addr' = addr
                 /\ UNCHANGED <<delayed_carry, dma_duration_cycles,
                                dma_start_time, event_queue>>
                 /\ UNCHANGED miVars
  /\ fifo_count' = fifo_count + 1
  /\ UNCHANGED <<next_dram_addr, dacrate, current_time, named, ticking>>

WriteAiDramAddr(a) ==
  /\ ~ticking
  /\ next_dram_addr' = a
  /\ UNCHANGED <<dma_addr, dma_length, fifo_count, dacrate, delayed_carry,
                 dma_start_time, dma_duration_cycles>>
  /\ UNCHANGED miVars /\ UNCHANGED schedVars

\* A new rate applies from the next buffer on: the pending event stays.
WriteAiDacrate(r) ==
  /\ ~ticking
  /\ dacrate' = r
  /\ UNCHANGED <<dma_addr, dma_length, fifo_count, next_dram_addr,
                 delayed_carry, dma_start_time, dma_duration_cycles>>
  /\ UNCHANGED miVars /\ UNCHANGED schedVars

WriteAiStatus ==
  /\ ~ticking
  /\ Ack("ai")
  /\ UNCHANGED aiVars /\ UNCHANGED schedVars

\* The second buffer moves to the front when there is one; slot 1 is cleared.
Shift(slots) ==
  [s \in 0 .. 1 |-> IF s = 0 THEN slots[IF fifo_count = 2 THEN 1 ELSE 0] ELSE 0]

MutEndsOnPage == (dma_addr[0] + dma_length[0]) % PageSize # 0

EndsOnPage == (dma_addr[0] + dma_length[0]) % PageSize = 0

\* on_dma_complete.
AiCompleted(e) ==
  /\ e.cb = "on_dma_complete"
  /\ QueueDue(e)
  /\ IF fifo_count = 0
     THEN /\ event_queue' = event_queue \ {e}
          /\ UNCHANGED aiVars /\ UNCHANGED miVars
     ELSE /\ fifo_count' = fifo_count - 1
          /\ dma_length' = Shift(dma_length)
          /\ IF fifo_count = 2
             THEN StartNextDma(event_queue \ {e}, Shift(dma_addr),
                               Shift(dma_length), EndsOnPage)
             ELSE /\ event_queue' = event_queue \ {e}
                  /\ dma_addr' = Shift(dma_addr)
                  /\ delayed_carry' = EndsOnPage
                  /\ dma_duration_cycles' = 0
                  /\ UNCHANGED dma_start_time
                  /\ UNCHANGED miVars
          /\ UNCHANGED <<next_dram_addr, dacrate>>
  /\ UNCHANGED <<current_time, named, ticking>>

AiResetVars ==
  /\ dma_addr' = ZeroSlots
  /\ dma_length' = ZeroSlots
  /\ fifo_count' = 0
  /\ next_dram_addr' = 0
  /\ dacrate' = DefaultDacrate
  /\ delayed_carry' = FALSE
  /\ dma_start_time' = 0
  /\ dma_duration_cycles' = 0

AiCpuNext ==
  \/ \E l \in AiLength : WriteAiLength(l)
  \/ \E a \in AiAddress : WriteAiDramAddr(a)
  \/ \E r \in AiRate : WriteAiDacrate(r)
  \/ WriteAiStatus

\* reset_all, as far as this component sees it.
AiReset ==
  /\ Restart
  /\ AiResetVars
  /\ MiReset

\* The component by itself: its registers, its event and the passing of time.
AiTick ==
  /\ \/ \E n \in 0 .. MaxTick : TickBegin(n)
     \/ TickEnd
  /\ UNCHANGED aiVars /\ UNCHANGED miVars

AiNext ==
  \/ AiCpuNext
  \/ AiTick
  \/ \E e \in event_queue : AiCompleted(e)
  \/ AiReset

AiStart ==
  /\ AiInit
  /\ SchedInit
  /\ MiInit

AiSpec == AiStart /\ [][AiNext]_<<aiVars, schedVars, miVars>>

-----------------------------------------------------------------------------
(***************************************************************************)
(* Properties.                                                             *)
(***************************************************************************)

AiPending == {e \in event_queue : e.cb = "on_dma_complete"}

\* The FIFO and the scheduler agree: a buffer is playing exactly when one
\* completion is pending, and that completion is due when the buffer's
\* duration, as fixed at its start, has elapsed.  A second event would pop a
\* buffer that is still playing; none would stop the audio for good.
AiTimerMatchesFifo ==
  IF fifo_count = 0
  THEN AiPending = {}
  ELSE \E e \in event_queue :
         /\ AiPending = {e}
         /\ e.at = dma_start_time + dma_duration_cycles
         /\ dma_duration_cycles > 0

\* A game that polls AI_LENGTH sees 0 exactly when the FIFO is empty, never
\* while a buffer is still playing, and never more than the buffer's length.
AiLengthTellsIdle ==
  ~ticking => IF fifo_count = 0 THEN BytesRemaining = 0
              ELSE BytesRemaining \in 1 .. dma_length[0]

\* While one buffer plays, AI_LENGTH only counts down, whatever else the
\* game writes meanwhile (a new rate, a second buffer).
AiLengthCountsDown ==
  [][fifo_count > 0 /\ fifo_count' >= fifo_count /\ current_time' >= current_time
       => BytesRemaining' <= BytesRemaining]_<<aiVars, schedVars>>

NoBuffer == [addr |-> -1, len |-> -1]

Slot(s) == [addr |-> dma_addr[s], len |-> dma_length[s]]

Fifo == INSTANCE AudioFifo
          WITH Address <- AiAddress \cup {0}, Length <- AiLength,
               None <- NoBuffer,
               playing <- IF fifo_count > 0 THEN Slot(0) ELSE NoBuffer,
               waiting <- IF fifo_count = 2 THEN Slot(1) ELSE NoBuffer,
               carry <- delayed_carry

\* The two register slots, the count and the carry flag implement AudioFifo.
ImplementsAudioFifo == Fifo!Spec

=============================================================================

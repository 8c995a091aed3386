--------------------------- MODULE InterfacesProofs ---------------------------
(***************************************************************************)
(* Theorems about Interfaces, AudioRing and Ai: the interrupt line that    *)
(* the devices share, what the host device plays and what the game is told *)
(* of it.                                                                  *)
(*                                                                         *)
(* The CPU's interrupt line follows MI, for any number of queue cells and  *)
(* any addresses, lengths and rates.  Coherence is inductive by itself     *)
(* because every handler that writes a bit of MI recomputes IP2 in the     *)
(* same step; the lemmas say so handler by handler.                        *)
(*                                                                         *)
(* RingImplementsQueue, for any rates, ring and counts of frames: the ring *)
(* that the callback and push share is the bounded queue that AudioQueue   *)
(* describes. AudioInv says that the play position lies within the         *)
(* rounding of the additions that led to it (PositionInBounds, which       *)
(* counts them since the frequency was set) and where the ring's two       *)
(* ends are.                                                               *)
(*                                                                         *)
(* For any addresses, lengths, rates, clocks, ticks and number of queue    *)
(* cells the FIFO of the AI and the scheduler agree, AI_LENGTH tells a     *)
(* polling game the truth, and the registers implement AudioFifo.          *)
(* AiTimerMatchesFifo is inductive once the lengths of the buffers in the  *)
(* FIFO are known to be positive. What AI_LENGTH returns also needs the    *)
(* clock: between ticks the pending completion lies strictly in the        *)
(* future, which is what LoopEndsClean of TimingProofs gives.              *)
(***************************************************************************)
EXTENDS Interfaces, AudioRing, TimingProofs, SequenceTheorems, FiniteSetTheorems, TLAPS

\* A step either leaves MI and IP2 alone or leaves them coherent, whatever
\* they were before.
Settles == Ip2Coherent' \/ UNCHANGED miVars

\* Raising a line recomputes IP2.
LEMMA RaiseSettles ==
  ASSUME NEW l, Raise(l) PROVE Settles
  BY DEF Raise, CheckInterrupt, Ip2Coherent, Settles

\* Lowering a line recomputes IP2 too.
LEMMA AckSettles ==
  ASSUME NEW l, Ack(l) PROVE Settles
  BY DEF Ack, CheckInterrupt, Ip2Coherent, Settles

\* So does a write to MI_MASK.
LEMMA WriteMaskSettles ==
  ASSUME NEW clear, NEW set, WriteMask(clear, set) PROVE Settles
  BY DEF WriteMask, CheckInterrupt, Ip2Coherent, Settles

\* PI: registers and completion.
LEMMA PiSettles ==
  ASSUME PiCpuNext \/ \E e \in event_queue : PiCompleted(e)
  PROVE  Settles
<1>1. ASSUME NEW len \in PiLength, WriteWrLen(len) \/ WriteRdLen(len)
      PROVE  Settles
  BY <1>1 DEF Settles, WriteWrLen, WriteRdLen
<1>2. ASSUME NEW a \in PiAddress, WritePiDramAddr(a) PROVE Settles
  BY <1>2 DEF Settles, WritePiDramAddr
<1>3. ASSUME NEW r \in BOOLEAN, NEW c \in BOOLEAN, WritePiStatus(r, c)
      PROVE  Settles
  <2>1. CASE c
    BY <1>3, <2>1, AckSettles DEF WritePiStatus
  <2>2. CASE ~c
    BY <1>3, <2>2 DEF Settles, WritePiStatus
  <2> QED BY <2>1, <2>2
<1>4. ASSUME NEW e \in event_queue, PiCompleted(e) PROVE Settles
  BY <1>4, RaiseSettles DEF PiCompleted
<1> QED BY <1>1, <1>2, <1>3, <1>4 DEF PiCpuNext

\* AI: registers and completion.
LEMMA AiSettles ==
  ASSUME AiCpuNext \/ \E e \in event_queue : AiCompleted(e)
  PROVE  Settles
<1>1. ASSUME NEW l \in AiLength, WriteAiLength(l) PROVE Settles
  <2>1. CASE fifo_count = 0
    BY <1>1, <2>1, RaiseSettles DEF WriteAiLength, StartNextDma
  <2>2. CASE fifo_count # 0
    BY <1>1, <2>2 DEF Settles, WriteAiLength
  <2> QED BY <2>1, <2>2
<1>2. ASSUME NEW a \in AiAddress, WriteAiDramAddr(a) PROVE Settles
  BY <1>2 DEF Settles, WriteAiDramAddr
<1>3. ASSUME NEW r \in AiRate, WriteAiDacrate(r) PROVE Settles
  BY <1>3 DEF Settles, WriteAiDacrate
<1>4. ASSUME WriteAiStatus PROVE Settles
  BY <1>4, AckSettles DEF WriteAiStatus
<1>5. ASSUME NEW e \in event_queue, AiCompleted(e) PROVE Settles
  <2>1. CASE fifo_count = 0
    BY <1>5, <2>1 DEF Settles, AiCompleted
  <2>2. CASE fifo_count = 2
    BY <1>5, <2>2, RaiseSettles DEF AiCompleted, StartNextDma
  <2>3. CASE fifo_count # 0 /\ fifo_count # 2
    BY <1>5, <2>3 DEF Settles, AiCompleted
  <2> QED BY <2>1, <2>2, <2>3
<1> QED BY <1>1, <1>2, <1>3, <1>4, <1>5 DEF AiCpuNext

\* Every step of one game.
LEMMA SessionStepSettles ==
  ASSUME [SessionNext]_vars PROVE Settles
<1>1. CASE PiCpuNext \/ \E e \in event_queue : PiCompleted(e)
  BY <1>1, PiSettles
<1>2. CASE AiCpuNext \/ \E e \in event_queue : AiCompleted(e)
  BY <1>2, AiSettles
<1>3. CASE \E w \in MaskWrite : WriteMiMask(w[1], w[2])
  BY <1>3, WriteMaskSettles DEF WriteMiMask
<1>4. CASE WriteMiMode \/ WriteSiStatus \/ WriteViCurrent
  BY <1>4, AckSettles DEF WriteMiMode, WriteSiStatus, WriteViCurrent
<1>5. CASE SiDma \/ ViCompare \/ DpFullSync
  BY <1>5, RaiseSettles DEF SiDma, ViCompare, DpFullSync
<1>6. CASE SpInterrupt
  BY <1>6, RaiseSettles, AckSettles DEF SpInterrupt
<1>7. CASE InterfacesTick
  BY <1>7 DEF Settles, InterfacesTick
<1>8. CASE UNCHANGED vars
  BY <1>8 DEF Settles, vars
<1> QED BY <1>1, <1>2, <1>3, <1>4, <1>5, <1>6, <1>7, <1>8 DEF SessionNext

-----------------------------------------------------------------------------

\* Within one game Cause.IP2 is up exactly when MI holds an enabled pending
\* line: no handler forgets check_interrupt, for every instance of the
\* constants.
THEOREM SessionIp2Coherent == SessionSpec => []Ip2Coherent
<1>1. Init => Ip2Coherent
  BY DEF Init, MiInit, Ip2Coherent
<1>2. Ip2Coherent /\ [SessionNext]_vars => Ip2Coherent'
  <2>1. Ip2Coherent /\ UNCHANGED miVars => Ip2Coherent'
    BY DEF Ip2Coherent, miVars
  <2> QED BY <2>1, SessionStepSettles DEF Settles
<1> QED BY <1>1, <1>2, PTL DEF SessionSpec

\* Over any number of games the weaker half remains: IP2 is never up without
\* an enabled pending line.  A restart breaks coherence only by lowering IP2.
THEOREM PowerCycleIp2NeverSpurious == Spec => []Ip2NeverSpurious
<1>1. Init => Ip2NeverSpurious
  BY DEF Init, MiInit, Ip2NeverSpurious
<1>2. Ip2NeverSpurious /\ [SessionNext \/ PowerCycle]_vars => Ip2NeverSpurious'
  <2> SUFFICES ASSUME Ip2NeverSpurious, [SessionNext \/ PowerCycle]_vars
               PROVE  Ip2NeverSpurious'
    OBVIOUS
  <2>1. CASE PowerCycle
    BY <2>1 DEF PowerCycle, MiReset, Ip2NeverSpurious
  <2>2. CASE [SessionNext]_vars
    <3>1. Settles
      BY <2>2, SessionStepSettles
    <3>2. CASE Ip2Coherent'
      BY <3>2 DEF Ip2Coherent, Ip2NeverSpurious
    <3>3. CASE UNCHANGED miVars
      BY <3>3 DEF Ip2NeverSpurious, miVars
    <3> QED BY <3>1, <3>2, <3>3 DEF Settles
  <2> QED BY <2>1, <2>2
<1> QED BY <1>1, <1>2, PTL DEF Spec

-----------------------------------------------------------------------------
(***************************************************************************)
(* The events in the queue and the devices that wait for them.             *)
(***************************************************************************)

AiOwners ==
  /\ fifo_count \in 0 .. 2
  /\ \A e, f \in AiPending : e = f
  /\ fifo_count = 0 <=> AiPending = {}

\* The count of transfers owed is that of the completions, and two transfers
\* at once have lapped.
PiOwners ==
  /\ pi_past \in PiPast
  /\ Cardinality(PiPending) = pi_past.owed
  /\ pi_past.owed > 1 => pi_past.lapped
  /\ pi_past.owed > 0 => "DMA_BUSY" \in pi_status \/ pi_past.lapped

OwnersInv ==
  /\ IsFiniteSet(event_queue)
  /\ \A e \in event_queue : e.cb \in PiCallback \cup {"on_dma_complete"}
  /\ AiOwners
  /\ PiOwners

\* At most one completion of AI and none when nothing plays: their number.
LEMMA OwnersInvImplies == OwnersInv => EveryEventHasAnOwner
<1> SUFFICES ASSUME OwnersInv PROVE EveryEventHasAnOwner
  OBVIOUS
<1>1. CASE fifo_count = 0
  BY <1>1, FS_EmptySet DEF OwnersInv, AiOwners, PiOwners, EveryEventHasAnOwner
<1>2. CASE fifo_count # 0
  <2>1. PICK e : AiPending = {e}
    BY <1>2 DEF OwnersInv, AiOwners
  <2>2. Cardinality(AiPending) = 1
    BY <2>1, FS_Singleton
  <2> QED BY <1>2, <2>2 DEF OwnersInv, AiOwners, PiOwners, EveryEventHasAnOwner
<1> QED BY <1>1, <1>2

\* A step that neither adds nor removes an event of PI, nor its registers.
LEMMA PiUndisturbed ==
  ASSUME PiOwners, UNCHANGED piVars, PiPending' = PiPending
  PROVE  PiOwners'
  BY DEF PiOwners, piVars

\* Arming a timer adds one event that was not in the queue.
LEMMA PushAddsOne ==
  ASSUME NEW q, NEW cycles, NEW cb, NEW r \in PushTo(q, cycles, cb)
  PROVE  \E new : r = q \cup {new} /\ new \notin q /\ new.cb = cb
<1>1. PICK i \in FreeCell(q) :
        r = q \cup {[id |-> i, at |-> current_time + cycles, cb |-> cb]}
  BY DEF PushTo
<1> DEFINE new == [id |-> i, at |-> current_time + cycles, cb |-> cb]
<1>2. new.id = i /\ new.cb = cb
  OBVIOUS
<1> HIDE DEF new
<1>3. new \notin q
  BY <1>1, <1>2 DEF FreeCell
<1> QED BY <1>1, <1>2, <1>3 DEF new

\* A step of AI from its own registers.
LEMMA AiWriteOwners ==
  ASSUME OwnersInv, AiCpuNext, UNCHANGED piVars PROVE OwnersInv'
<1>1. ASSUME NEW l \in AiLength, WriteAiLength(l) PROVE OwnersInv'
  <2>1. fifo_count' = fifo_count + 1 /\ fifo_count < 2
    BY <1>1 DEF WriteAiLength, FifoHasRoom
  <2>2. CASE fifo_count = 0
    <3>1. PICK new : /\ event_queue' = event_queue \cup {new}
                     /\ new.cb = "on_dma_complete"
      BY <1>1, <2>2, PushAddsOne DEF WriteAiLength, StartNextDma
    <3>2. AiPending' = {new}
      BY <2>2, <3>1 DEF OwnersInv, AiOwners, AiPending
    <3>3. IsFiniteSet(event_queue')
      BY <3>1, FS_AddElement DEF OwnersInv
    <3>4. PiPending' = PiPending
      BY <3>1 DEF PiPending, PiCallback
    <3> QED
      BY <2>1, <2>2, <3>1, <3>2, <3>3, <3>4, PiUndisturbed DEF OwnersInv, AiOwners
  <2>3. CASE fifo_count # 0
    <3>1. event_queue' = event_queue
      BY <1>1, <2>3 DEF WriteAiLength
    <3>2. AiPending' = AiPending /\ PiPending' = PiPending
      BY <3>1 DEF AiPending, PiPending
    <3> QED
      BY <2>1, <2>3, <3>1, <3>2, PiUndisturbed DEF OwnersInv, AiOwners
  <2> QED BY <2>2, <2>3
<1>2. CASE UNCHANGED <<fifo_count, event_queue>>
  BY <1>2, PiUndisturbed DEF OwnersInv, AiOwners, AiPending, PiPending
<1> QED
  BY <1>1, <1>2 DEF AiCpuNext, WriteAiDramAddr, WriteAiDacrate, WriteAiStatus,
                    aiVars, schedVars

\* The completion of AI takes its event away before it arms another.
LEMMA AiCompletedOwners ==
  ASSUME OwnersInv, NEW e \in event_queue, AiCompleted(e), UNCHANGED piVars
  PROVE  OwnersInv'
<1>1. e \in AiPending /\ fifo_count # 0
  BY DEF AiCompleted, OwnersInv, AiOwners, AiPending
<1>2. \A f \in event_queue \ {e} : f.cb # "on_dma_complete"
  BY <1>1 DEF OwnersInv, AiOwners, AiPending
<1>3. fifo_count' = fifo_count - 1 /\ fifo_count' \in 0 .. 2
  BY <1>1 DEF AiCompleted, OwnersInv, AiOwners
<1>4. IsFiniteSet(event_queue \ {e})
  BY FS_RemoveElement DEF OwnersInv
<1>5. e.cb \notin PiCallback
  BY DEF AiCompleted, PiCallback
<1>6. CASE fifo_count = 2
  <2>1. PICK new : /\ event_queue' = (event_queue \ {e}) \cup {new}
                   /\ new.cb = "on_dma_complete"
    BY <1>6, PushAddsOne DEF AiCompleted, StartNextDma
  <2>2. AiPending' = {new}
    BY <1>2, <2>1 DEF AiPending
  <2>3. PiPending' = PiPending
    BY <1>5, <2>1 DEF PiPending, PiCallback
  <2>4. IsFiniteSet(event_queue')
    BY <1>4, <2>1, FS_AddElement
  <2> QED
    BY <1>3, <1>6, <2>1, <2>2, <2>3, <2>4, PiUndisturbed DEF OwnersInv, AiOwners
<1>7. CASE fifo_count # 2
  <2>1. event_queue' = event_queue \ {e}
    BY <1>1, <1>7 DEF AiCompleted
  <2>2. AiPending' = {}
    BY <1>2, <2>1 DEF AiPending
  <2>3. PiPending' = PiPending
    BY <1>5, <2>1 DEF PiPending
  <2>4. fifo_count' = 0
    BY <1>1, <1>3, <1>7 DEF OwnersInv, AiOwners
  <2> QED
    BY <1>4, <2>1, <2>2, <2>3, <2>4, PiUndisturbed DEF OwnersInv, AiOwners
<1> QED BY <1>6, <1>7

\* A transfer of PI adds an event that was not there and owes it.
LEMMA TransferOwners ==
  ASSUME OwnersInv, UNCHANGED aiVars, NEW len \in PiLength,
         WriteWrLen(len) \/ WriteRdLen(len)
  PROVE  OwnersInv'
<1>1. PICK new :
        /\ event_queue' = event_queue \cup {new}
        /\ new \notin event_queue
        /\ new.cb \in PiCallback
  BY PushAddsOne DEF WriteWrLen, WriteRdLen, StartDma, PiCallback
<1>2. /\ pi_past' = Begun
      /\ "DMA_BUSY" \in pi_status'
  BY DEF WriteWrLen, WriteRdLen, StartDma
<1>3. PiPending' = PiPending \cup {new} /\ new \notin PiPending
  BY <1>1 DEF PiPending
<1>4. IsFiniteSet(PiPending)
  BY FS_Subset DEF OwnersInv, PiPending
<1>5. Cardinality(PiPending') = pi_past.owed + 1
  BY <1>3, <1>4, FS_AddElement DEF OwnersInv, PiOwners
<1>6. PiOwners'
  <2>1. /\ pi_past' \in PiPast
        /\ pi_past'.owed = pi_past.owed + 1
        /\ pi_past.owed > 0 => pi_past'.lapped
    <3>1. pi_past \in PiPast /\ pi_past.owed + 1 \in Nat
      BY DEF OwnersInv, PiOwners, PiPast
    <3>2. CASE pi_past.owed > 0
      <4>1. (pi_past.lapped \/ pi_past.owed > 0) = TRUE
        BY <3>2
      <4>2. pi_past' = [pi_past EXCEPT !.owed = @ + 1, !.reset = FALSE, !.lapped = TRUE]
        BY <1>2, <4>1 DEF Begun
      <4> QED BY <3>1, <4>2 DEF PiPast
    <3>3. CASE ~(pi_past.owed > 0)
      <4>1. (pi_past.lapped \/ pi_past.owed > 0) = pi_past.lapped
        BY <3>1, <3>3 DEF PiPast
      <4>2. pi_past' = [pi_past EXCEPT !.owed = @ + 1, !.reset = FALSE, !.lapped = @]
        BY <1>2, <4>1 DEF Begun
      <4> QED BY <3>1, <3>3, <4>2 DEF PiPast
    <3> QED BY <3>2, <3>3
  <2>2. pi_past.owed \in Nat
    BY DEF OwnersInv, PiOwners, PiPast
  <2> QED BY <1>2, <1>5, <2>1, <2>2 DEF PiOwners
<1>7. AiOwners'
  BY <1>1 DEF OwnersInv, AiOwners, AiPending, PiCallback, aiVars
<1>8. IsFiniteSet(event_queue')
  BY <1>1, FS_AddElement DEF OwnersInv
<1> QED BY <1>1, <1>6, <1>7, <1>8 DEF OwnersInv

\* Its completion takes one away and owes one less.
LEMMA PiCompletedOwners ==
  ASSUME OwnersInv, UNCHANGED aiVars, NEW e \in event_queue, PiCompleted(e)
  PROVE  OwnersInv'
<1>1. event_queue' = event_queue \ {e} /\ pi_past' = Ended
  BY DEF PiCompleted, DispatchQueued
<1>2. e \in PiPending /\ PiPending' = PiPending \ {e}
  BY <1>1 DEF PiPending, PiCompleted
<1>3. IsFiniteSet(PiPending)
  BY FS_Subset DEF OwnersInv, PiPending
<1>4. Cardinality(PiPending') = pi_past.owed - 1 /\ pi_past.owed # 0
  BY <1>2, <1>3, FS_RemoveElement, FS_EmptySet DEF OwnersInv, PiOwners
<1>5. PiOwners'
  <2>1. pi_past.owed \in Nat /\ pi_past.owed - 1 \in Nat
    BY <1>4 DEF OwnersInv, PiOwners, PiPast
  <2>2. /\ pi_past' \in PiPast
        /\ pi_past'.owed = pi_past.owed - 1
        /\ pi_past.lapped /\ pi_past.owed > 1 => pi_past'.lapped
    BY <1>1, <2>1 DEF OwnersInv, PiOwners, Ended, PiPast
  <2> QED BY <1>4, <2>1, <2>2 DEF OwnersInv, PiOwners
<1>6. AiOwners'
  BY <1>1 DEF OwnersInv, AiOwners, AiPending, PiCompleted, PiCallback, aiVars
<1>7. IsFiniteSet(event_queue')
  BY <1>1, FS_RemoveElement DEF OwnersInv
<1> QED BY <1>1, <1>5, <1>6, <1>7 DEF OwnersInv

\* A write to PI_STATUS leaves the events alone; RESET_DMA laps what is owed.
LEMMA PiStatusOwners ==
  ASSUME OwnersInv, UNCHANGED aiVars, NEW r \in BOOLEAN, NEW c \in BOOLEAN,
         WritePiStatus(r, c)
  PROVE  OwnersInv'
<1>1. event_queue' = event_queue /\ pi_past' = Written(r, c)
  BY DEF WritePiStatus, schedVars
<1>2. PiPending' = PiPending /\ AiPending' = AiPending
  BY <1>1 DEF PiPending, AiPending
<1>3. "DMA_BUSY" \in pi_status /\ ~r => "DMA_BUSY" \in pi_status'
  BY DEF WritePiStatus
<1>4. PiOwners'
  BY <1>1, <1>2, <1>3 DEF OwnersInv, PiOwners, Written, PiPast
<1> QED BY <1>1, <1>2, <1>4 DEF OwnersInv, AiOwners, aiVars

\* Every step of PI.
LEMMA PiStepOwners ==
  ASSUME OwnersInv, UNCHANGED aiVars,
         PiCpuNext \/ \E e \in event_queue : PiCompleted(e)
  PROVE  OwnersInv'
<1>1. ASSUME NEW a \in PiAddress, WritePiDramAddr(a) PROVE OwnersInv'
  BY <1>1 DEF WritePiDramAddr, OwnersInv, AiOwners, PiOwners, AiPending, PiPending,
              aiVars, schedVars
<1> QED
  BY <1>1, TransferOwners, PiCompletedOwners, PiStatusOwners DEF PiCpuNext

\* The owners are kept by every step, restarts included.
LEMMA OwnersInvariant == Spec => []OwnersInv
<1>1. Init => OwnersInv
  BY FS_EmptySet DEF Init, SchedInit, AiInit, PiInit, PiPast, NoPast, OwnersInv,
                     AiOwners, PiOwners, AiPending, PiPending
<1>2. OwnersInv /\ [SessionNext \/ PowerCycle]_vars => OwnersInv'
  <2> SUFFICES ASSUME OwnersInv, [SessionNext \/ PowerCycle]_vars
               PROVE  OwnersInv'
    OBVIOUS
  <2>1. CASE PowerCycle
    <3>1. /\ event_queue' = {} /\ fifo_count' = 0
          /\ pi_past' \in PiPast /\ pi_past'.owed = 0
      BY <2>1 DEF PowerCycle, Restart, AiResetVars, PiResetVars, PiPast, NoPast
    <3>2. PiPending' = {} /\ AiPending' = {}
      BY <3>1 DEF PiPending, AiPending
    <3> QED BY <3>1, <3>2, FS_EmptySet DEF OwnersInv, AiOwners, PiOwners
  <2>2. CASE AiCpuNext /\ UNCHANGED piVars
    BY <2>2, AiWriteOwners
  <2>3. CASE UNCHANGED piVars /\ \E e \in event_queue : AiCompleted(e)
    BY <2>3, AiCompletedOwners
  <2>4. CASE UNCHANGED aiVars /\ (PiCpuNext \/ \E e \in event_queue : PiCompleted(e))
    BY <2>4, PiStepOwners
  <2>5. CASE UNCHANGED <<event_queue, aiVars, piVars>>
    BY <2>5 DEF OwnersInv, AiOwners, PiOwners, AiPending, PiPending, aiVars, piVars
  <2>6. ASSUME InterfacesTick PROVE UNCHANGED <<event_queue, aiVars, piVars>>
    BY <2>6 DEF InterfacesTick, TickBegin, TickEnd
  <2>7. ASSUME \/ \E w \in MaskWrite : WriteMiMask(w[1], w[2])
               \/ WriteMiMode \/ SiDma \/ WriteSiStatus \/ ViCompare
               \/ WriteViCurrent \/ DpFullSync \/ SpInterrupt
               \/ UNCHANGED vars
        PROVE  UNCHANGED <<event_queue, aiVars, piVars>>
    BY <2>7 DEF WriteMiMask, WriteMiMode, SiDma, WriteSiStatus, ViCompare,
                WriteViCurrent, DpFullSync, SpInterrupt, deviceVars, vars, schedVars
  <2> QED
    BY <2>1, <2>2, <2>3, <2>4, <2>5, <2>6, <2>7 DEF SessionNext
<1> QED BY <1>1, <1>2, PTL DEF Spec

\* Over any number of games the queue holds exactly what the devices of the
\* running game wait for: as many completions of PI as transfers begun and not
\* completed, with DMA_BUSY set unless they overlapped or were reset, and one
\* of AI while a buffer plays.  A restart leaves none of the game before.
THEOREM PowerCycleOwners == Spec => []EveryEventHasAnOwner
  BY OwnersInvariant, OwnersInvImplies, PTL

-----------------------------------------------------------------------------
(***************************************************************************)
(* PI among the other devices, and the lines of MI.                        *)
(***************************************************************************)

PiInv == BusyHasCompletion /\ PiStatusIsMi

\* The registers of PI and its completion.
LEMMA PiStepInv ==
  ASSUME pi_past \in PiPast, PiInv,
         PiCpuNext \/ \E e \in event_queue : PiCompleted(e)
  PROVE  PiInv'
<1>1. ASSUME NEW len \in PiLength, WriteWrLen(len) \/ WriteRdLen(len)
      PROVE  PiInv'
  <2>1. PICK new : new \in event_queue' /\ new.cb \in PiCallback
    BY <1>1, PushAddsOne DEF WriteWrLen, WriteRdLen, StartDma, PiCallback
  <2>2. BusyHasCompletion'
    BY <2>1 DEF PiPending, BusyHasCompletion
  <2>3. /\ "INTERRUPT" \in pi_status' <=> "INTERRUPT" \in pi_status
        /\ intr' = intr /\ pi_past' = Begun
    BY <1>1 DEF WriteWrLen, WriteRdLen, StartDma, miVars
  <2> QED BY <2>2, <2>3 DEF PiInv, PiStatusIsMi, Begun, PiPast
<1>2. ASSUME NEW a \in PiAddress, WritePiDramAddr(a) PROVE PiInv'
  BY <1>2 DEF WritePiDramAddr, PiInv, BusyHasCompletion, PiPending,
              PiStatusIsMi, miVars, schedVars
<1>3. ASSUME NEW r \in BOOLEAN, NEW c \in BOOLEAN, WritePiStatus(r, c)
      PROVE  PiInv'
  <2>1. /\ pi_status' \subseteq pi_status /\ event_queue' = event_queue
        /\ pi_past'.split = ((pi_past.split \/ r) /\ ~c)
    BY <1>3 DEF WritePiStatus, schedVars, Written, PiPast
  <2>2. BusyHasCompletion'
    BY <2>1 DEF PiInv, BusyHasCompletion, PiPending
  <2>3. CASE c
    <3>1. "INTERRUPT" \notin pi_status' /\ "pi" \notin intr'
      BY <1>3, <2>3 DEF WritePiStatus, Ack
    <3> QED BY <2>2, <3>1 DEF PiInv, PiStatusIsMi
  <2>4. CASE ~c
    <3>1. /\ intr' = intr
          /\ ~r => pi_status' = pi_status
      BY <1>3, <2>4 DEF WritePiStatus, miVars
    <3> QED BY <2>1, <2>2, <2>4, <3>1 DEF PiInv, PiStatusIsMi
  <2> QED BY <2>3, <2>4
<1>4. ASSUME NEW e \in event_queue, PiCompleted(e) PROVE PiInv'
  BY <1>4 DEF PiCompleted, CompletedStatus, Raise, PiInv, BusyHasCompletion,
              PiStatusIsMi
<1> QED BY <1>1, <1>2, <1>3, <1>4 DEF PiCpuNext

\* What the other devices may do: keep every event of PI and its line.
LEMMA OthersKeepPi ==
  ASSUME PiInv, UNCHANGED <<pi_status, pi_past>>, PiPending \subseteq PiPending',
         "pi" \in intr <=> "pi" \in intr'
  PROVE  PiInv'
  BY DEF PiInv, BusyHasCompletion, PiStatusIsMi

\* The registers and the completion of AI do not disturb PI.
LEMMA AiKeepsPi ==
  ASSUME AiCpuNext \/ \E e \in event_queue : AiCompleted(e)
  PROVE  /\ PiPending \subseteq PiPending'
         /\ "pi" \in intr <=> "pi" \in intr'
<1> DEFINE KeepsLine == "pi" \in intr <=> "pi" \in intr'
<1>1. ASSUME NEW l \in AiLength, WriteAiLength(l)
      PROVE  event_queue \subseteq event_queue' /\ KeepsLine
  BY <1>1 DEF WriteAiLength, StartNextDma, PushTo, Raise, miVars
<1>2. ASSUME NEW e \in event_queue, AiCompleted(e)
      PROVE  PiPending \subseteq PiPending' /\ KeepsLine
  <2>1. e.cb \notin PiCallback
    BY <1>2 DEF AiCompleted, PiCallback
  <2>2. event_queue \ {e} \subseteq event_queue'
    BY <1>2 DEF AiCompleted, StartNextDma, PushTo
  <2>3. KeepsLine
    BY <1>2 DEF AiCompleted, StartNextDma, Raise, miVars
  <2> QED BY <2>1, <2>2, <2>3 DEF PiPending
<1>3. CASE event_queue' = event_queue /\ KeepsLine
  BY <1>3 DEF PiPending
<1>4. ASSUME WriteAiStatus PROVE event_queue' = event_queue /\ KeepsLine
  BY <1>4 DEF WriteAiStatus, Ack, schedVars
<1>5. ASSUME \/ \E a \in AiAddress : WriteAiDramAddr(a)
             \/ \E r \in AiRate : WriteAiDacrate(r)
      PROVE  event_queue' = event_queue /\ KeepsLine
  BY <1>5 DEF WriteAiDramAddr, WriteAiDacrate, schedVars, miVars
<1> QED
  BY <1>1, <1>2, <1>3, <1>4, <1>5 DEF AiCpuNext, PiPending

\* Among all devices and over any number of games, a poller of DMA_BUSY gets
\* out and the two copies of the PI interrupt differ only when split.
LEMMA PiInvariant == Spec => []PiInv
<1>1. Init => PiInv
  BY DEF Init, MiInit, PiInit, PiInitValue, NoPast, PiInv, BusyHasCompletion,
         PiStatusIsMi
<1>2. OwnersInv /\ PiInv /\ [SessionNext \/ PowerCycle]_vars => PiInv'
  <2> SUFFICES ASSUME OwnersInv, PiInv, [SessionNext \/ PowerCycle]_vars
               PROVE  PiInv'
    OBVIOUS
  <2>1. CASE PowerCycle
    BY <2>1 DEF PowerCycle, PiResetVars, PiInitValue, NoPast, PiInv, BusyHasCompletion,
                PiStatusIsMi
  <2>2. CASE PiCpuNext \/ \E e \in event_queue : PiCompleted(e)
    BY <2>2, PiStepInv DEF OwnersInv, PiOwners
  <2>3. CASE /\ AiCpuNext \/ \E e \in event_queue : AiCompleted(e)
             /\ UNCHANGED piVars
    BY <2>3, AiKeepsPi, OthersKeepPi DEF piVars
  <2>4. CASE /\ UNCHANGED <<event_queue, pi_status, pi_past>>
             /\ "pi" \in intr <=> "pi" \in intr'
    BY <2>4, OthersKeepPi DEF PiPending
  <2>5. ASSUME InterfacesTick \/ UNCHANGED vars
        PROVE  UNCHANGED <<event_queue, pi_status, pi_past, intr>>
    BY <2>5 DEF InterfacesTick, TickBegin, TickEnd, vars, schedVars, piVars, miVars
  <2>6. ASSUME \E w \in MaskWrite : WriteMiMask(w[1], w[2])
        PROVE  UNCHANGED <<event_queue, pi_status, pi_past, intr>>
    BY <2>6 DEF WriteMiMask, WriteMask, deviceVars, schedVars, piVars
  <2>7. ASSUME \/ WriteMiMode \/ SiDma \/ WriteSiStatus \/ ViCompare
               \/ WriteViCurrent \/ DpFullSync \/ SpInterrupt
        PROVE  /\ UNCHANGED <<event_queue, pi_status, pi_past>>
               /\ "pi" \in intr <=> "pi" \in intr'
    BY <2>7 DEF WriteMiMode, SiDma, WriteSiStatus, ViCompare, WriteViCurrent,
                DpFullSync, SpInterrupt, Raise, Ack, deviceVars, schedVars, piVars
  <2> QED
    BY <2>1, <2>2, <2>3, <2>4, <2>5, <2>6, <2>7 DEF SessionNext
<1> QED BY <1>1, <1>2, OwnersInvariant, PTL DEF Spec

\* A driver that polls PI_STATUS for DMA_BUSY always has a completion to wait
\* for, whatever the other devices do and however often games are started.
THEOREM PiBusyHasCompletion == Spec => []BusyHasCompletion
  BY PiInvariant, PTL DEF PiInv

\* PI_STATUS.INTERRUPT and MI's pending bit of PI agree, however the other
\* devices raise and acknowledge theirs, except that after RESET_DMA or a
\* restart MI may hold one that PI_STATUS has lost, up to the next completion
\* or CLR_INTR.
THEOREM PiStatusAgreesWithMi == Spec => []PiStatusIsMi
  BY PiInvariant, PTL DEF PiInv

\* No pending line goes down in a step in which time passes, an event is
\* armed or one fires: a DMA's start or completion, or a restart, loses no
\* interrupt of any device.
THEOREM PowerCycleKeepsLines == Spec => LinesFallOnlyByAck
<1> DEFINE Keeps == \/ intr \subseteq intr'
                    \/ UNCHANGED <<current_time, event_queue>>
<1>1. [SessionNext \/ PowerCycle]_vars => Keeps
  <2> SUFFICES ASSUME [SessionNext \/ PowerCycle]_vars
               PROVE  Keeps
    OBVIOUS
  <2>1. CASE PowerCycle
    BY <2>1 DEF PowerCycle, MiReset
  <2>2. CASE PiCpuNext
    <3>1. ASSUME NEW r, NEW c, WritePiStatus(r, c) PROVE Keeps
      BY <3>1 DEF WritePiStatus, schedVars
    <3>2. ASSUME NEW n, WriteWrLen(n) \/ WriteRdLen(n) \/ WritePiDramAddr(n)
          PROVE  Keeps
      BY <3>2 DEF WriteWrLen, WriteRdLen, WritePiDramAddr, miVars
    <3> QED BY <2>2, <3>1, <3>2 DEF PiCpuNext
  <2>3. CASE \E e \in event_queue : PiCompleted(e)
    BY <2>3 DEF PiCompleted, Raise
  <2>4. CASE AiCpuNext
    <3>1. ASSUME NEW l, WriteAiLength(l) PROVE Keeps
      BY <3>1 DEF WriteAiLength, StartNextDma, Raise, miVars
    <3>2. CASE UNCHANGED schedVars
      BY <3>2 DEF schedVars
    <3> QED
      BY <2>4, <3>1, <3>2 DEF AiCpuNext, WriteAiDramAddr, WriteAiDacrate,
                              WriteAiStatus
  <2>5. CASE \E e \in event_queue : AiCompleted(e)
    BY <2>5 DEF AiCompleted, StartNextDma, Raise, miVars
  <2>6. CASE InterfacesTick
    BY <2>6 DEF InterfacesTick, miVars
  <2>7. CASE \/ \E w \in MaskWrite : WriteMiMask(w[1], w[2])
             \/ WriteMiMode \/ SiDma \/ WriteSiStatus \/ ViCompare
             \/ WriteViCurrent \/ DpFullSync \/ SpInterrupt
             \/ UNCHANGED vars
    BY <2>7 DEF WriteMiMask, WriteMiMode, SiDma, WriteSiStatus, ViCompare,
                WriteViCurrent, DpFullSync, SpInterrupt, deviceVars, vars, schedVars
  <2> QED
    BY <2>1, <2>2, <2>3, <2>4, <2>5, <2>6, <2>7 DEF SessionNext
<1>2. Keeps => [current_time' # current_time \/ event_queue' # event_queue
                  => intr \subseteq intr']_vars
  OBVIOUS
<1> QED BY <1>1, <1>2, PTL DEF Spec, LinesFallOnlyByAck

-----------------------------------------------------------------------------
(***************************************************************************)
(* The audio ring and the AI.                                              *)
(***************************************************************************)

\* The ring has room.
LEMMA RingIsPositive == RingFrames \in Nat \ {0}
BY AudioAssumption

\* Division with a symbolic divisor.
LEMMA Quotient ==
  ASSUME NEW x \in Int, NEW g \in Nat \ {0}, NEW q \in Int, q * g <= x, x < (q + 1) * g
  PROVE  x \div g = q
OBVIOUS

\* The quotient of integers, rounded down.
LEMMA FloorBounds ==
  ASSUME NEW x \in Int, NEW g \in Nat \ {0}
  PROVE  x \div g \in Int /\ (x \div g) * g <= x /\ x < (x \div g + 1) * g
OBVIOUS

\* Dividing more gives no less.
LEMMA QuotientMonotone ==
  ASSUME NEW x \in Int, NEW y \in Int, NEW g \in Nat \ {0}, x <= y
  PROVE  x \div g <= y \div g
OBVIOUS

\* The remainder is what is left over.
LEMMA Remainder ==
  ASSUME NEW x \in Int, NEW g \in Nat \ {0}, NEW q \in Int, NEW r \in 0 .. g - 1, x = q * g + r
  PROVE  x % g = r
<1>1. q * g <= x /\ x < (q + 1) * g
  OBVIOUS
<1>2. x \div g = q
  BY <1>1, Quotient
<1>3. x % g = x - g * (x \div g)
  OBVIOUS
<1>4. QED
  BY <1>2, <1>3

\* Where a position of at most twice the ring comes to lie.
LEMMA Wrapped ==
  ASSUME NEW x \in Int, -RingFrames <= x, x < 2 * RingFrames
  PROVE  x % RingFrames = IF x < 0 THEN x + RingFrames ELSE IF x < RingFrames THEN x ELSE x - RingFrames
<1> DEFINE R == RingFrames
<1>1. R \in Nat \ {0}
  BY RingIsPositive
<1> HIDE DEF R
<1>2. CASE x < 0
  BY <1>1, <1>2, Remainder, x + R < R, x = (-1) * R + (x + R) DEF R
<1>3. CASE 0 <= x /\ x < R
  BY <1>1, <1>3, Remainder, x = 0 * R + x DEF R
<1>4. CASE R <= x
  BY <1>1, <1>4, Remainder, x = 1 * R + (x - R) DEF R
<1>5. QED
  BY <1>1, <1>2, <1>3, <1>4 DEF R

-----------------------------------------------------------------------------
Device == [enabled : BOOLEAN, host : HostRates \cup {0}, guest : GuestRates \cup {DefaultGuest},
           pos : Nat, paused : BOOLEAN]
Ring == [data : [0 .. RingFrames - 1 -> Int], read : 0 .. RingFrames - 1, write : 0 .. RingFrames - 1,
         avail : 0 .. RingFrames]
AudioTypes ==
    /\ audio \in Device /\ ring \in Ring
    /\ resampled \in [taken : Nat, count : Nat]
    /\ made \in Nat /\ fed \in Nat /\ since \in Nat

\* The positions of the ring tell how much it holds, and that is within the limit.
RingInv ==
    /\ ring.write = (ring.read + ring.avail) % RingFrames
    /\ audio.host = 0 => ring.avail = 0
    /\ audio.host # 0 => ring.avail <= MaxQueued(audio.host)

\* What count device frames may take of a sound of so many parts, when the next begins pos
\* parts after its end: each step is one guest frame long up to the rounding, and the last
\* frame begins before the end.
InBounds(count, parts, pos, guest) ==
    /\ count * (guest * Scale - Rounding) <= pos + parts
    /\ pos + parts <= count * (guest * Scale + Rounding)
    /\ count > 0 => (count - 1) * (guest * Scale - Rounding) < parts

\* The position is where the frames made since the rate was set have brought it.
PositionInBounds ==
    InBounds(since + resampled.count, (fed + resampled.taken) * audio.host * Scale, audio.pos, audio.guest)

AudioInv ==
    /\ AudioTypes /\ RingInv /\ PositionInBounds
    /\ ~audio.enabled => audio.host = 0
    /\ audio.host = 0 => fed = 0 /\ since = 0 /\ Idle
    /\ ~Idle => resampled.taken > 0

\* What the types say of the rates, the position and the ring.
LEMMA RatesArePositive ==
  ASSUME AudioTypes
  PROVE  /\ audio.host \in Nat /\ audio.guest \in Nat \ {0} /\ audio.pos \in Nat
         /\ audio.host \in HostRates \cup {0} /\ audio.guest \in GuestRates \cup {DefaultGuest}
         /\ audio.enabled \in BOOLEAN /\ audio.paused \in BOOLEAN
         /\ ring.read \in 0 .. RingFrames - 1 /\ ring.write \in 0 .. RingFrames - 1 /\ ring.avail \in 0 .. RingFrames
         /\ resampled.taken \in Nat /\ resampled.count \in Nat
BY AudioAssumption DEF AudioTypes, Device, Ring

\* Before the first frame nothing is off.
LEMMA BoundsStart ==
  ASSUME NEW guest \in Nat \ {0}
  PROVE  InBounds(0, 0, 0, guest)
BY AudioAssumption DEF InBounds

\* A push that is over before a frame would begin makes none.
LEMMA NothingMade ==
  ASSUME NEW guest \in Nat \ {0}, NEW k \in Nat, NEW sound \in Nat, NEW length \in Nat, NEW pos \in Nat,
         InBounds(k, sound, pos, guest), pos >= length
  PROVE  InBounds(k, sound + length, pos - length, guest)
<1> DEFINE a == guest * Scale - Rounding
           b == guest * Scale + Rounding
<1>1. a \in Int /\ b \in Int
  BY AudioAssumption
<1>2. k * a <= pos + sound /\ pos + sound <= k * b /\ (k > 0 => (k - 1) * a < sound)
  BY DEF InBounds
<1> HIDE DEF a, b
<1>3. PICK x \in Int, y \in Int, z \in Int : x = k * a /\ y = k * b /\ z = (k - 1) * a
  BY <1>1
<1>4. (pos - length) + (sound + length) = pos + sound
  OBVIOUS
<1>5. z < sound => z < sound + length
  BY <1>3
<1>6. QED
  BY <1>2, <1>3, <1>4, <1>5 DEF InBounds, a, b

\* A push that makes count frames: the last begins at p, before the end of what was pushed.
LEMMA FramesMade ==
  ASSUME NEW guest \in Nat \ {0}, NEW k \in Nat, NEW sound \in Nat, NEW length \in Nat, NEW pos \in Nat,
         NEW count \in Nat \ {0}, NEW p \in Int, NEW end \in Int, InBounds(k, sound, pos, guest),
         p - pos >= (count - 1) * (guest * Scale - Rounding),
         p - pos <= (count - 1) * (guest * Scale + Rounding),
         p < length,
         end - p >= guest * Scale - Rounding, end - p <= guest * Scale + Rounding
  PROVE  InBounds(k + count, sound + length, end - length, guest)
<1> DEFINE a == guest * Scale - Rounding
           b == guest * Scale + Rounding
<1>1. a \in Int /\ b \in Int
  BY AudioAssumption
<1>2. k * a <= pos + sound /\ pos + sound <= k * b
  BY DEF InBounds
<1>3. /\ p - pos >= (count - 1) * a /\ p - pos <= (count - 1) * b
      /\ end - p >= a /\ end - p <= b
  OBVIOUS
<1> HIDE DEF a, b
<1>4. /\ (k + count) * a = k * a + (count - 1) * a + a
      /\ (k + count) * b = k * b + (count - 1) * b + b
      /\ (k + count - 1) * a = k * a + (count - 1) * a
  BY <1>1
<1>5. PICK x \in Int, y \in Int, u \in Int, v \in Int :
         x = k * a /\ y = k * b /\ u = (count - 1) * a /\ v = (count - 1) * b
  BY <1>1
<1>6. (end - length) + (sound + length) = end + sound
  OBVIOUS
<1>7. x + u + a <= end + sound /\ end + sound <= y + v + b /\ x + u < sound + length
  BY <1>1, <1>2, <1>3, <1>5
<1>8. QED
  BY <1>4, <1>5, <1>6, <1>7 DEF InBounds, a, b

-----------------------------------------------------------------------------
\* A function on 1 .. n is a sequence.
LEMMA FunctionIsSeq ==
  ASSUME NEW n \in Nat, NEW f \in [1 .. n -> Int]
  PROVE  f \in Seq(Int) /\ Len(f) = n /\ DOMAIN f = 1 .. n
<1>1. f \in Seq(Int)
  BY SeqDef
<1>2. QED
  BY <1>1, LenProperties

\* The oldest frames of the ring, from the read end on.
LEMMA OldestIsSeq ==
  ASSUME NEW r \in Ring, NEW n \in Nat
  PROVE  /\ Oldest(r, n) \in Seq(Int) /\ Len(Oldest(r, n)) = n
         /\ \A k \in 1 .. n : Oldest(r, n)[k] = r.data[(r.read + k - 1) % RingFrames]
<1>1. ASSUME NEW k \in 1 .. n
      PROVE  r.data[(r.read + k - 1) % RingFrames] \in Int
  <2>1. (r.read + k - 1) % RingFrames \in 0 .. RingFrames - 1
    BY RingIsPositive DEF Ring
  <2>2. QED
    BY <2>1 DEF Ring
<1>2. Oldest(r, n) \in [1 .. n -> Int]
  BY <1>1 DEF Oldest
<1>3. QED
  BY <1>2, FunctionIsSeq DEF Oldest

\* The place the next frame is written to, before and after n frames.
LEMMA WritePlace ==
  ASSUME NEW read \in 0 .. RingFrames - 1, NEW avail \in 0 .. RingFrames, NEW n \in 0 .. RingFrames - avail
  PROVE  (((read + avail) % RingFrames) + n) % RingFrames = (read + (avail + n)) % RingFrames
<1>1. (read + avail) % RingFrames = IF read + avail < RingFrames THEN read + avail ELSE read + avail - RingFrames
  BY RingIsPositive, Wrapped
<1>2. (read + (avail + n)) % RingFrames
        = IF read + avail + n < RingFrames THEN read + avail + n ELSE read + avail + n - RingFrames
  BY RingIsPositive, Wrapped
<1>3. PICK w \in 0 .. RingFrames - 1 : w = (read + avail) % RingFrames
  BY <1>1, RingIsPositive
<1>4. (w + n) % RingFrames = IF w + n < RingFrames THEN w + n ELSE w + n - RingFrames
  BY RingIsPositive, Wrapped
<1>5. QED
  BY <1>1, <1>2, <1>3, <1>4, RingIsPositive

\* How far behind the place of writing the k-th oldest frame lies, and where a new one does.
LEMMA FramePlace ==
  ASSUME NEW read \in 0 .. RingFrames - 1, NEW avail \in 0 .. RingFrames, NEW n \in 0 .. RingFrames - avail,
         NEW k \in 1 .. avail + n, NEW write, write = (read + avail) % RingFrames
  PROVE  LET cell == (read + k - 1) % RingFrames
         IN /\ cell \in 0 .. RingFrames - 1
            /\ IF k <= avail THEN (cell - write) % RingFrames \in n .. RingFrames - 1
                             ELSE (cell - write) % RingFrames = k - avail - 1
<1>1. write = IF read + avail < RingFrames THEN read + avail ELSE read + avail - RingFrames
  BY RingIsPositive, Wrapped
<1>2. (read + k - 1) % RingFrames = IF read + k - 1 < RingFrames THEN read + k - 1 ELSE read + k - 1 - RingFrames
  BY RingIsPositive, Wrapped
<1>3. PICK cell \in 0 .. RingFrames - 1 : cell = (read + k - 1) % RingFrames
  BY <1>2, RingIsPositive
<1>4. write \in 0 .. RingFrames - 1
  BY <1>1, RingIsPositive
<1>5. (cell - write) % RingFrames = IF cell < write THEN cell - write + RingFrames ELSE cell - write
  BY <1>4, RingIsPositive, Wrapped
<1>6. QED
  BY <1>1, <1>2, <1>3, <1>4, <1>5, RingIsPositive

\* Writing appends to what the ring holds.
LEMMA WriteAppends ==
  ASSUME NEW r \in Ring, NEW first \in Nat, NEW n \in 0 .. RingFrames - r.avail,
         r.write = (r.read + r.avail) % RingFrames
  PROVE  /\ RingWrite(r, first, n) \in Ring
         /\ RingWrite(r, first, n).avail = r.avail + n
         /\ RingWrite(r, first, n).write
              = (RingWrite(r, first, n).read + RingWrite(r, first, n).avail) % RingFrames
         /\ Oldest(RingWrite(r, first, n), r.avail + n) = Oldest(r, r.avail) \o Promised!Numbers(first, n)
<1> DEFINE w == RingWrite(r, first, n)
           At(k) == (r.read + k - 1) % RingFrames
<1>1. /\ r.read \in 0 .. RingFrames - 1 /\ r.write \in 0 .. RingFrames - 1 /\ r.avail \in 0 .. RingFrames
      /\ r.data \in [0 .. RingFrames - 1 -> Int]
  BY DEF Ring
<1> DEFINE d == [i \in 0 .. RingFrames - 1 |->
                  IF (i - r.write) % RingFrames < n THEN first + ((i - r.write) % RingFrames) ELSE r.data[i]]
<1>2. n \in Nat /\ r.avail \in Nat /\ r.avail + n \in 0 .. RingFrames
  BY <1>1, RingIsPositive
<1>3. ASSUME NEW i \in 0 .. RingFrames - 1
      PROVE  d[i] = IF (i - r.write) % RingFrames < n THEN first + ((i - r.write) % RingFrames) ELSE r.data[i]
  OBVIOUS
<1>4. w = [r EXCEPT !.data = d, !.write = (r.write + n) % RingFrames, !.avail = r.avail + n]
  BY DEF RingWrite
<1>5. d \in [0 .. RingFrames - 1 -> Int]
  <2>1. ASSUME NEW i \in 0 .. RingFrames - 1
        PROVE  (i - r.write) % RingFrames \in Int /\ r.data[i] \in Int
    BY <1>1, RingIsPositive
  <2>2. QED
    BY <2>1
<1> HIDE DEF d, w
<1>6. w = [data |-> d, read |-> r.read, write |-> (r.write + n) % RingFrames, avail |-> r.avail + n]
  BY <1>4, <1>5 DEF Ring
<1>7. w.data = d /\ w.read = r.read /\ w.write = (r.write + n) % RingFrames /\ w.avail = r.avail + n
  BY <1>6
<1>8. w \in Ring
  <2>1. (r.write + n) % RingFrames \in 0 .. RingFrames - 1
    <3>1. r.write + n \in Int
      BY <1>1, <1>2, RingIsPositive
    <3>2. ASSUME NEW x \in Int, NEW g \in Nat \ {0}
          PROVE  x % g \in 0 .. g - 1
      OBVIOUS
    <3>3. QED
      BY <3>1, <3>2, RingIsPositive
  <2>2. QED
    BY <1>1, <1>2, <1>5, <1>6, <2>1 DEF Ring
<1>9. w.write = (w.read + w.avail) % RingFrames
  BY <1>1, <1>7, WritePlace
<1>10. ASSUME NEW k \in 1 .. r.avail + n
      PROVE  w.data[At(k)] = IF k <= r.avail THEN r.data[At(k)] ELSE first + (k - r.avail) - 1
  <2>1. /\ At(k) \in 0 .. RingFrames - 1
        /\ IF k <= r.avail THEN (At(k) - r.write) % RingFrames \in n .. RingFrames - 1
                           ELSE (At(k) - r.write) % RingFrames = k - r.avail - 1
    BY <1>1, FramePlace
  <2> HIDE DEF At
  <2>2. w.data[At(k)] = IF (At(k) - r.write) % RingFrames < n THEN first + ((At(k) - r.write) % RingFrames) ELSE r.data[At(k)]
    BY <1>7, <1>3, <2>1
  <2>3. CASE k <= r.avail
    <3>1. (At(k) - r.write) % RingFrames \in n .. RingFrames - 1
      BY <2>1, <2>3
    <3>2. ~((At(k) - r.write) % RingFrames < n)
      BY <1>2, <3>1, RingIsPositive
    <3>3. QED
      BY <2>2, <2>3, <3>2
  <2>4. CASE ~(k <= r.avail)
    <3>1. (At(k) - r.write) % RingFrames = k - r.avail - 1
      BY <2>1, <2>4
    <3>2. k - r.avail - 1 < n /\ first + (k - r.avail - 1) = first + (k - r.avail) - 1
      BY <1>2, <2>4
    <3>3. w.data[At(k)] = first + (k - r.avail - 1)
      BY <2>2, <3>1, <3>2
    <3>4. QED
      BY <2>4, <3>2, <3>3
  <2>5. QED
    BY <2>3, <2>4
<1>11. Oldest(w, r.avail + n) = Oldest(r, r.avail) \o Promised!Numbers(first, n)
  <2> DEFINE old == Oldest(r, r.avail)
             more == Promised!Numbers(first, n)
             all == Oldest(w, r.avail + n)
  <2>1. old \in Seq(Int) /\ Len(old) = r.avail /\ \A k \in 1 .. r.avail : old[k] = r.data[At(k)]
    BY <1>2, OldestIsSeq
  <2>2. all \in Seq(Int) /\ Len(all) = r.avail + n /\ \A k \in 1 .. r.avail + n : all[k] = w.data[At(k)]
    <3>1. PICK m \in Nat : m = r.avail + n
      BY <1>2
    <3>2. \A k \in 1 .. m : Oldest(w, m)[k] = w.data[(w.read + k - 1) % RingFrames]
      BY <1>8, OldestIsSeq
    <3>3. \A k \in 1 .. r.avail + n : all[k] = w.data[(w.read + k - 1) % RingFrames]
      BY <3>1, <3>2
    <3>4. all \in Seq(Int) /\ Len(all) = r.avail + n
      BY <1>8, <1>2, OldestIsSeq
    <3>5. QED
      BY <1>7, <3>3, <3>4
  <2>3. more \in [1 .. n -> Int] /\ \A k \in 1 .. n : more[k] = first + k - 1
    BY DEF Promised!Numbers
  <2>4. more \in Seq(Int) /\ Len(more) = n
    BY <2>3, FunctionIsSeq
  <2> HIDE DEF old, more, all, At
  <2>5. /\ old \o more \in Seq(Int) /\ Len(old \o more) = r.avail + n
        /\ \A k \in 1 .. r.avail + n : (old \o more)[k] = IF k <= r.avail THEN old[k] ELSE more[k - r.avail]
    BY <1>2, <2>1, <2>4, ConcatProperties
  <2>6. ASSUME NEW k \in 1 .. r.avail + n
        PROVE  all[k] = (old \o more)[k]
    <3>1. CASE k <= r.avail
      <4>1. k \in 1 .. r.avail
        BY <1>2, <3>1
      <4>2. all[k] = w.data[At(k)] /\ old[k] = r.data[At(k)] /\ (old \o more)[k] = old[k]
        BY <2>1, <2>2, <2>5, <3>1, <4>1
      <4>3. QED
        BY <1>10, <3>1, <4>2
    <3>2. CASE ~(k <= r.avail)
      <4>1. k - r.avail \in 1 .. n
        BY <1>2, <3>2
      <4>2. all[k] = w.data[At(k)] /\ more[k - r.avail] = first + (k - r.avail) - 1 /\ (old \o more)[k] = more[k - r.avail]
        BY <2>2, <2>3, <2>5, <3>2, <4>1
      <4>3. QED
        BY <1>10, <3>2, <4>2
    <3>3. QED
      BY <3>1, <3>2
  <2>7. all = old \o more
    BY <2>2, <2>5, <2>6, SeqEqual
  <2>8. QED
    BY <2>7 DEF old, more, all
<1>12. QED
  BY <1>6, <1>8, <1>9, <1>11 DEF w

\* Reading takes the oldest frames away.
LEMMA ReadDrops ==
  ASSUME NEW r \in Ring, NEW n \in 0 .. r.avail, r.write = (r.read + r.avail) % RingFrames
  PROVE  /\ RingRead(r, n) \in Ring
         /\ RingRead(r, n).avail = r.avail - n
         /\ RingRead(r, n).write
              = (RingRead(r, n).read + RingRead(r, n).avail) % RingFrames
         /\ Oldest(RingRead(r, n), r.avail - n) = SubSeq(Oldest(r, r.avail), n + 1, r.avail)
         /\ Oldest(r, n) = SubSeq(Oldest(r, r.avail), 1, n)
<1> DEFINE w == RingRead(r, n)
           all == Oldest(r, r.avail)
<1>1. /\ r.read \in 0 .. RingFrames - 1 /\ r.write \in 0 .. RingFrames - 1 /\ r.avail \in 0 .. RingFrames
      /\ r.data \in [0 .. RingFrames - 1 -> Int]
  BY DEF Ring
<1>2. n \in Nat /\ r.avail \in Nat /\ r.avail - n \in 0 .. RingFrames /\ n \in 0 .. RingFrames
  BY <1>1, RingIsPositive
<1>3. (r.read + n) % RingFrames \in 0 .. RingFrames - 1
  BY <1>1, <1>2, RingIsPositive
<1>4. w = [r EXCEPT !.read = (r.read + n) % RingFrames, !.avail = r.avail - n]
  BY DEF RingRead
<1> HIDE DEF w
<1>5. w = [data |-> r.data, read |-> (r.read + n) % RingFrames, write |-> r.write, avail |-> r.avail - n]
  <2>1. PICK x, y : x = (r.read + n) % RingFrames /\ y = r.avail - n
    OBVIOUS
  <2>2. PICK a, b, c, d : r = [data |-> a, read |-> b, write |-> c, avail |-> d]
    BY DEF Ring
  <2>3. PICK s : s = [r EXCEPT !.read = x]
    OBVIOUS
  <2>4. s = [data |-> a, read |-> x, write |-> c, avail |-> d]
    BY <2>2, <2>3
  <2>5. [s EXCEPT !.avail = y] = [data |-> a, read |-> x, write |-> c, avail |-> y]
    BY <2>4
  <2>6. QED
    BY <1>4, <2>1, <2>2, <2>3, <2>5
<1>6. w \in Ring
  BY <1>1, <1>2, <1>3, <1>5 DEF Ring
<1>7. w.data = r.data /\ w.read = (r.read + n) % RingFrames /\ w.write = r.write /\ w.avail = r.avail - n
  BY <1>5
<1>8. ASSUME NEW j \in 0 .. r.avail - n
      PROVE  (((r.read + n) % RingFrames) + j) % RingFrames = (r.read + (n + j)) % RingFrames
  <2>1. j \in 0 .. RingFrames - n
    BY <1>1, <1>2, RingIsPositive
  <2>2. QED
    BY <1>1, <1>2, <2>1, WritePlace
<1>9. w.write = (w.read + w.avail) % RingFrames
  <2>1. r.avail - n \in 0 .. r.avail - n /\ n + (r.avail - n) = r.avail
    BY <1>2
  <2>2. (((r.read + n) % RingFrames) + (r.avail - n)) % RingFrames = (r.read + r.avail) % RingFrames
    BY <1>8, <2>1
  <2>3. QED
    BY <1>7, <2>2
<1>10. all \in Seq(Int) /\ Len(all) = r.avail /\ \A k \in 1 .. r.avail : all[k] = r.data[(r.read + k - 1) % RingFrames]
  BY <1>2, OldestIsSeq
<1> HIDE DEF all
<1>11. ASSUME NEW i \in 1 .. r.avail
      PROVE  all[i] \in Int
  BY <1>10, ElementOfSeq
<1>12. Oldest(w, r.avail - n) = SubSeq(all, n + 1, r.avail)
  <2> DEFINE rest == Oldest(w, r.avail - n)
             part == SubSeq(all, n + 1, r.avail)
  <2>1. PICK m \in Nat : m = r.avail - n
    BY <1>2
  <2>2. rest \in Seq(Int) /\ Len(rest) = m /\ \A k \in 1 .. m : rest[k] = w.data[(w.read + k - 1) % RingFrames]
    BY <1>6, <2>1, OldestIsSeq
  <2>3. \A i \in n + 1 .. r.avail : all[i] \in Int
    BY <1>2, <1>11
  <2>4. /\ part \in Seq(Int) /\ Len(part) = IF n + 1 <= r.avail THEN r.avail - (n + 1) + 1 ELSE 0
        /\ \A k \in 1 .. r.avail - (n + 1) + 1 : part[k] = all[(n + 1) + k - 1]
    BY <1>2, <2>3, SubSeqProperties
  <2>5. Len(part) = m /\ \A k \in 1 .. m : part[k] = all[n + k]
    <3>1. r.avail - (n + 1) + 1 = m /\ (IF n + 1 <= r.avail THEN m ELSE 0) = m
      BY <1>2, <2>1
    <3>2. \A k \in 1 .. m : (n + 1) + k - 1 = n + k
      BY <1>2
    <3>3. QED
      BY <2>4, <3>1, <3>2
  <2> HIDE DEF rest, part
  <2>6. ASSUME NEW k \in 1 .. m
        PROVE  rest[k] = part[k]
    <3>1. k - 1 \in 0 .. r.avail - n /\ n + k \in 1 .. r.avail
      BY <1>2, <2>1
    <3>2. (((r.read + n) % RingFrames) + (k - 1)) % RingFrames = (r.read + (n + (k - 1))) % RingFrames
      BY <1>8, <3>1
    <3>3. (w.read + k - 1) % RingFrames = (r.read + (n + k) - 1) % RingFrames
      <4>1. ((r.read + n) % RingFrames) + k - 1 = ((r.read + n) % RingFrames) + (k - 1)
        BY <1>3, RingIsPositive
      <4>2. r.read + (n + (k - 1)) = r.read + (n + k) - 1
        BY <1>1, <1>2, RingIsPositive
      <4>3. QED
        BY <1>7, <3>2, <4>1, <4>2
    <3>4. QED
      BY <1>7, <1>10, <2>2, <2>5, <3>1, <3>3
  <2>7. rest = part
    BY <2>2, <2>4, <2>5, <2>6, SeqEqual
  <2>8. QED
    BY <2>7 DEF rest, part
<1>13. Oldest(r, n) = SubSeq(all, 1, n)
  <2> DEFINE head == Oldest(r, n)
             part == SubSeq(all, 1, n)
  <2>1. head \in Seq(Int) /\ Len(head) = n /\ \A k \in 1 .. n : head[k] = r.data[(r.read + k - 1) % RingFrames]
    BY <1>2, OldestIsSeq
  <2>2. \A i \in 1 .. n : i \in 1 .. r.avail /\ all[i] \in Int
    BY <1>2, <1>11
  <2>3. /\ part \in Seq(Int) /\ Len(part) = IF 1 <= n THEN n - 1 + 1 ELSE 0
        /\ \A k \in 1 .. n - 1 + 1 : part[k] = all[1 + k - 1]
    BY <1>2, <2>2, SubSeqProperties
  <2> HIDE DEF head, part
  <2>4. Len(part) = n /\ \A k \in 1 .. n : part[k] = all[k]
    <3>1. n - 1 + 1 = n /\ (IF 1 <= n THEN n ELSE 0) = n
      BY <1>2
    <3>2. \A k \in 1 .. n : 1 + k - 1 = k
      BY <1>2
    <3>3. QED
      BY <2>3, <3>1, <3>2
  <2>5. \A k \in 1 .. n : head[k] = part[k]
    BY <1>10, <2>1, <2>2, <2>4
  <2>6. head = part
    BY <2>1, <2>3, <2>4, <2>5, SeqEqual
  <2>7. QED
    BY <2>6 DEF head, part
<1>14. QED
  BY <1>6, <1>7, <1>9, <1>12, <1>13 DEF w, all

-----------------------------------------------------------------------------
Queue == Oldest(ring, ring.avail)
QueueStep == [Promised!QueueNext]_(Promised!QueueVars)

\* An empty ring is an empty queue.
LEMMA EmptyQueue ==
  ASSUME NEW r
  PROVE  Oldest(r, 0) = <<>>
BY DEF Oldest

\* The ring after init and after a change of device.
LEMMA EmptyRingIsRing ==
  /\ EmptyRing \in Ring
  /\ EmptyRing.avail = 0 /\ EmptyRing.read = 0 /\ EmptyRing.write = 0
  /\ 0 = (0 + 0) % RingFrames
<1>1. 0 \in 0 .. RingFrames - 1 /\ 0 \in 0 .. RingFrames
  BY RingIsPositive
<1>2. (0 + 0) % RingFrames = 0
  BY <1>1, RingIsPositive, Remainder
<1>3. QED
  BY <1>1, <1>2 DEF EmptyRing, Ring

\* What AudioAssumption says of the rates.
LEMMA RatesAssumed ==
  /\ DefaultGuest \in Nat \ {0} /\ LeastGuest \in Nat \ {0} /\ 0 \notin HostRates
  /\ \A hz \in HostRates \cup GuestRates \cup PushSizes \cup PullSizes : hz \in Nat \ {0}
BY AudioAssumption

\* The limit of queued frames is a number.
LEMMA LimitIsInt ==
  ASSUME NEW host \in Nat
  PROVE  MaxQueued(host) \in Nat
<1>1. /\ FieldRate \in Nat \ {0} /\ LatencyFields \in Nat /\ LeastQueued \in Nat
  BY AudioAssumption
<1>2. Ceiling(host, FieldRate) \in Int
  BY <1>1 DEF Ceiling
<1>3. Ceiling(host, FieldRate) * LatencyFields \in Int
  BY <1>1, <1>2
<1>4. QED
  BY <1>1, <1>3 DEF MaxQueued, Larger

\* A device from its parts.
LEMMA DeviceIsDevice ==
  ASSUME NEW e \in BOOLEAN, NEW h \in HostRates \cup {0}, NEW g \in GuestRates \cup {DefaultGuest},
         NEW p \in Nat, NEW u \in BOOLEAN
  PROVE  [enabled |-> e, host |-> h, guest |-> g, pos |-> p, paused |-> u] \in Device
BY DEF Device

\* No push is under way.
LEMMA NoPushIsPush == NoPush \in [taken : Nat, count : Nat]
BY DEF NoPush

\* The ring starts as an empty queue.
LEMMA AudioStarts ==
  ASSUME AudioInit
  PROVE  AudioInv /\ Promised!QueueInit
<1>1. /\ audio = [enabled |-> FALSE, host |-> 0, guest |-> DefaultGuest, pos |-> 0, paused |-> FALSE]
      /\ ring = EmptyRing /\ resampled = NoPush /\ made = 0 /\ fed = 0 /\ since = 0 /\ out = <<>>
  BY DEF AudioInit
<1>2. /\ audio.host = 0 /\ audio.guest = DefaultGuest /\ audio.pos = 0 /\ resampled.taken = 0 /\ resampled.count = 0
  BY <1>1 DEF NoPush
<1>3. AudioTypes
  <2>1. audio \in Device
    BY <1>1, FALSE \in BOOLEAN, 0 \in Nat, 0 \in HostRates \cup {0}, DefaultGuest \in GuestRates \cup {DefaultGuest},
       DeviceIsDevice, Zenon
  <2>2. QED
    BY <1>1, <2>1, EmptyRingIsRing, NoPushIsPush DEF AudioTypes
<1>4. RingInv
  BY <1>1, <1>2, EmptyRingIsRing DEF RingInv
<1>5. PositionInBounds
  <2>1. (fed + resampled.taken) * audio.host * Scale = 0 /\ since + resampled.count = 0
    BY <1>1, <1>2, AudioAssumption
  <2>2. QED
    BY <1>2, <2>1, RatesAssumed, BoundsStart DEF PositionInBounds
<1>6. AudioInv
  BY <1>1, <1>2, <1>3, <1>4, <1>5 DEF AudioInv, Idle
<1>7. Promised!QueueInit
  BY <1>1, <1>2, EmptyRingIsRing, EmptyQueue DEF Promised!QueueInit
<1>8. QED
  BY <1>6, <1>7

\* The rate is set anew: the sound before it is forgotten.
LEMMA BoundsAnew ==
  ASSUME AudioTypes', audio.pos' = 0, fed' = 0, since' = 0, resampled' = NoPush
  PROVE  PositionInBounds'
<1>1. audio'.host \in Nat /\ audio'.guest \in Nat \ {0}
  BY RatesAssumed DEF AudioTypes, Device
<1>2. resampled'.taken = 0 /\ resampled'.count = 0
  BY DEF NoPush
<1>3. (fed' + resampled'.taken) * audio'.host * Scale = 0 /\ since' + resampled'.count = 0
  <2>1. (0 + 0) * audio'.host * Scale = 0
    BY <1>1, AudioAssumption
  <2>2. QED
    BY <1>2, <2>1
<1>4. InBounds(since' + resampled'.count, (fed' + resampled'.taken) * audio'.host * Scale, audio'.pos, audio'.guest)
  BY <1>1, <1>3, BoundsStart
<1>5. QED
  BY <1>4 DEF PositionInBounds, InBounds

\* init_audio empties the queue.
LEMMA DeviceOpens ==
  ASSUME AudioInv, NEW hz \in HostRates \cup {0}, InitAudio(hz)
  PROVE  AudioInv' /\ QueueStep
<1>1. /\ ~audio.enabled /\ resampled' = NoPush /\ ring' = EmptyRing /\ fed' = 0 /\ since' = 0 /\ UNCHANGED <<made, out>>
      /\ audio' = [audio EXCEPT !.enabled = TRUE, !.guest = DefaultGuest, !.host = hz, !.pos = 0, !.paused = hz > 0]
  BY DEF InitAudio, Idle
<1>2. audio' = [enabled |-> TRUE, host |-> hz, guest |-> DefaultGuest, pos |-> 0, paused |-> hz > 0]
  BY <1>1 DEF AudioInv, AudioTypes, Device
<1>3. AudioTypes'
  <2>1. (hz > 0) \in BOOLEAN
    OBVIOUS
  <2>2. audio' \in Device
    BY <1>2, <2>1, TRUE \in BOOLEAN, 0 \in Nat, DefaultGuest \in GuestRates \cup {DefaultGuest}, DeviceIsDevice, Zenon
  <2>3. QED
    BY <1>1, <2>2, EmptyRingIsRing, NoPushIsPush DEF AudioInv, AudioTypes
<1>4. audio'.host = hz /\ audio'.guest = DefaultGuest /\ audio'.pos = 0
  BY <1>2
<1>5. RingInv'
  <2>1. hz \in Nat
    BY RatesAssumed
  <2>2. MaxQueued(hz) \in Nat
    BY <2>1, LimitIsInt
  <2>3. QED
    BY <1>1, <1>4, <2>2, EmptyRingIsRing DEF RingInv
<1>6. PositionInBounds'
  BY <1>1, <1>3, <1>4, BoundsAnew
<1>7. AudioInv'
  BY <1>1, <1>2, <1>3, <1>4, <1>5, <1>6 DEF AudioInv, Idle
<1>8. audio.host = 0 /\ fed = 0 /\ since = 0 /\ ring.avail = 0
  BY <1>1 DEF AudioInv, RingInv
<1>9. Queue = <<>> /\ Queue' = <<>>
  BY <1>1, <1>8, EmptyRingIsRing, EmptyQueue DEF Queue
<1>10. CASE hz = 0
  BY <1>1, <1>4, <1>8, <1>9, <1>10, <1>7 DEF QueueStep, Promised!QueueNext, Promised!QueueVars, Promised!Retune, Promised!Anew, Queue
<1>11. CASE hz # 0
  BY <1>1, <1>4, <1>8, <1>9, <1>11, <1>7 DEF QueueStep, Promised!QueueNext, Promised!Open, Promised!Anew, Queue
<1>12. QED
  BY <1>10, <1>11

\* shutdown_audio empties it.
LEMMA DeviceCloses ==
  ASSUME AudioInv, Shutdown
  PROVE  AudioInv' /\ QueueStep
<1>1. /\ audio' = [audio EXCEPT !.enabled = FALSE, !.host = 0, !.pos = 0, !.paused = FALSE]
      /\ ring' = [ring EXCEPT !.read = 0, !.write = 0, !.avail = 0] /\ fed' = 0 /\ since' = 0
      /\ resampled' = NoPush /\ UNCHANGED <<made, out>>
  BY DEF Shutdown, Idle
<1>2. audio' = [enabled |-> FALSE, host |-> 0, guest |-> audio.guest, pos |-> 0, paused |-> FALSE]
  <2>1. PICK a, b, c, d, e : audio = [enabled |-> a, host |-> b, guest |-> c, pos |-> d, paused |-> e]
    BY DEF AudioInv, AudioTypes, Device
  <2>2. QED
    BY <1>1, <2>1
<1>3. ring' = [data |-> ring.data, read |-> 0, write |-> 0, avail |-> 0]
  <2>1. PICK a, b, c, d : ring = [data |-> a, read |-> b, write |-> c, avail |-> d]
    BY DEF AudioInv, AudioTypes, Ring
  <2>2. QED
    BY <1>1, <2>1
<1>4. AudioTypes'
  <2>1. 0 \in 0 .. RingFrames - 1 /\ 0 \in 0 .. RingFrames
    BY RingIsPositive
  <2>2. audio.guest \in GuestRates \cup {DefaultGuest}
    BY RatesArePositive DEF AudioInv
  <2>3. audio' \in Device
    BY <1>2, <2>2, FALSE \in BOOLEAN, 0 \in Nat, 0 \in HostRates \cup {0}, DeviceIsDevice, Zenon
  <2>4. ring' \in Ring
    BY <1>3, <2>1 DEF AudioInv, AudioTypes, Ring
  <2>5. QED
    BY <1>1, <2>3, <2>4, NoPushIsPush DEF AudioInv, AudioTypes
<1>5. audio'.host = 0 /\ audio'.guest = audio.guest /\ audio'.pos = 0
  BY <1>2
<1>6. ring'.avail = 0 /\ ring'.read = 0 /\ ring'.write = 0
  BY <1>3
<1>7. RingInv'
  BY <1>5, <1>6, EmptyRingIsRing DEF RingInv
<1>8. PositionInBounds'
  BY <1>1, <1>4, <1>5, BoundsAnew
<1>9. AudioInv'
  BY <1>1, <1>4, <1>5, <1>7, <1>8 DEF AudioInv, Idle
<1>10. Queue' = <<>>
  BY <1>6, EmptyQueue DEF Queue
<1>11. QED
  BY <1>1, <1>5, <1>9, <1>10 DEF QueueStep, Promised!QueueNext, Promised!Close, Promised!Anew, Queue

\* A new rate of the guest leaves the frames already queued.
LEMMA RateChanges ==
  ASSUME AudioInv, NEW asked \in GuestRates \cup {0}, SetFrequency(asked)
  PROVE  AudioInv' /\ QueueStep
<1>1. PICK hz : hz = IF asked < LeastGuest THEN DefaultGuest ELSE asked
  OBVIOUS
<1>2. /\ hz # audio.guest /\ fed' = 0 /\ since' = 0 /\ UNCHANGED <<ring, resampled, made, out>> /\ resampled' = NoPush
      /\ audio.enabled /\ audio' = [audio EXCEPT !.guest = hz, !.pos = 0]
  BY <1>1 DEF SetFrequency, Idle
<1>3. hz \in GuestRates \cup {DefaultGuest}
  BY <1>1, RatesAssumed
<1>4. audio' = [enabled |-> audio.enabled, host |-> audio.host, guest |-> hz, pos |-> 0, paused |-> audio.paused]
  <2>1. PICK a, b, c, d, e : audio = [enabled |-> a, host |-> b, guest |-> c, pos |-> d, paused |-> e]
    BY DEF AudioInv, AudioTypes, Device
  <2>2. PICK s : s = [audio EXCEPT !.guest = hz]
    OBVIOUS
  <2>3. s = [enabled |-> a, host |-> b, guest |-> hz, pos |-> d, paused |-> e]
    BY <2>1, <2>2
  <2>4. [s EXCEPT !.pos = 0] = [enabled |-> a, host |-> b, guest |-> hz, pos |-> 0, paused |-> e]
    BY <2>3
  <2>5. QED
    BY <1>2, <2>1, <2>2, <2>4
<1>5. AudioTypes'
  <2>1. audio' \in Device
    BY <1>3, <1>4, DeviceIsDevice, RatesArePositive DEF AudioInv
  <2>2. QED
    BY <1>2, <2>1, NoPushIsPush DEF AudioInv, AudioTypes
<1>6. audio'.host = audio.host /\ audio'.guest = hz /\ audio'.pos = 0 /\ audio'.enabled
  BY <1>2, <1>4
<1>7. RingInv'
  BY <1>2, <1>6 DEF AudioInv, RingInv
<1>8. PositionInBounds'
  BY <1>2, <1>5, <1>6, BoundsAnew
<1>9. AudioInv'
  BY <1>2, <1>5, <1>6, <1>7, <1>8 DEF AudioInv, Idle
<1>10. QED
  BY <1>2, <1>3, <1>6, <1>9 DEF QueueStep, Promised!QueueNext, Promised!Retune, Promised!Anew, Queue

\* Resampling happens before the ring is locked: the queue does not see it.
LEMMA ResamplingIsInward ==
  ASSUME AudioInv, NEW frames \in PushSizes, NEW count \in Nat, Resample(frames, count)
  PROVE  AudioInv' /\ QueueStep
<1> DEFINE length == frames * audio.host * Scale
           sound == fed * audio.host * Scale
           ends == IF count = 0 THEN {audio.pos}
                   ELSE UNION {After(q, 1) : q \in {r \in After(audio.pos, count - 1) : r < length}}
<1>1. PICK end \in ends :
         /\ end >= length
         /\ audio' = [audio EXCEPT !.paused = FALSE, !.pos = end - length]
  BY DEF Resample
<1>2. /\ resampled = NoPush /\ audio.enabled /\ audio.host > 0 /\ UNCHANGED <<ring, made, fed, since, out>>
      /\ resampled' = [taken |-> frames, count |-> count]
  BY DEF Resample, Idle, Enabled
<1>3. /\ audio.host \in Nat /\ audio.guest \in Nat \ {0} /\ audio.pos \in Nat /\ frames \in Nat \ {0} /\ fed \in Nat
      /\ since \in Nat /\ resampled.taken = 0 /\ resampled.count = 0
  BY <1>2, RatesArePositive, RatesAssumed DEF AudioInv, AudioTypes, NoPush
<1>4. PICK host \in Nat, guest \in Nat \ {0} : host = audio.host /\ guest = audio.guest
  BY <1>3
<1>5. length \in Nat /\ sound \in Nat /\ (fed + frames) * host * Scale = sound + length
  BY <1>3, <1>4, AudioAssumption
<1>6. InBounds(since, sound, audio.pos, guest)
  <2>1. since + resampled.count = since /\ fed + resampled.taken = fed
    BY <1>3
  <2>2. QED
    BY <1>4, <2>1 DEF AudioInv, PositionInBounds
<1>7. end \in Int /\ InBounds(since + count, sound + length, end - length, guest)
  <2> HIDE DEF length, sound
  <2>1. CASE count = 0
    <3>1. end = audio.pos /\ since + count = since
      BY <1>3, <2>1
    <3>2. QED
      BY <1>1, <1>3, <1>4, <1>5, <1>6, <3>1, NothingMade
  <2>2. CASE count # 0
    <3>1. PICK p \in After(audio.pos, count - 1) : p < length /\ end \in After(p, 1)
      BY <2>2
    <3>2. PICK d \in Steps(count - 1), e \in Steps(1) : p = audio.pos + d /\ end = p + e
      BY <3>1 DEF After
    <3>3. d \in (count - 1) * (guest * Scale - Rounding) .. (count - 1) * (guest * Scale + Rounding)
      BY <1>4, <3>2 DEF Steps
    <3>4. e \in guest * Scale - Rounding .. guest * Scale + Rounding
      <4>1. guest * Scale - Rounding \in Int /\ guest * Scale + Rounding \in Int
        BY AudioAssumption
      <4>2. e \in 1 * (guest * Scale - Rounding) .. 1 * (guest * Scale + Rounding)
        BY <1>4, <3>2 DEF Steps
      <4>3. QED
        BY <4>1, <4>2
    <3>5. PICK a \in Int, b \in Int : a = guest * Scale - Rounding /\ b = guest * Scale + Rounding
      BY AudioAssumption
    <3>6. /\ p \in Int /\ end \in Int /\ end - p >= a /\ end - p <= b
          /\ p - audio.pos >= (count - 1) * a /\ p - audio.pos <= (count - 1) * b
      <4>1. PICK u \in Int, v \in Int : u = (count - 1) * a /\ v = (count - 1) * b
        BY <3>5
      <4>2. d \in u .. v /\ e \in a .. b
        BY <3>3, <3>4, <3>5, <4>1
      <4>3. p \in Int /\ p - audio.pos = d
        BY <1>3, <3>2, <4>1, <4>2
      <4>4. e \in Int /\ d >= u /\ d <= v /\ e >= a /\ e <= b
        BY <3>5, <4>1, <4>2
      <4>5. end \in Int /\ end - p = e
        <5>1. \A x \in Int : x + e \in Int /\ (x + e) - x = e
          BY <4>4
        <5>2. QED
          BY <3>2, <4>3, <5>1
      <4>6. QED
        BY <4>1, <4>3, <4>4, <4>5
    <3>7. count \in Nat \ {0}
      BY <2>2
    <3>8. QED
      BY <1>3, <1>5, <1>6, <3>1, <3>5, <3>6, <3>7, FramesMade
  <2>3. QED
    BY <2>1, <2>2
<1>8. PICK p \in Nat : p = end - length
  BY <1>1, <1>5, <1>7
<1>9. audio' = [enabled |-> audio.enabled, host |-> audio.host, guest |-> audio.guest, pos |-> p, paused |-> FALSE]
  <2>1. PICK a, b, c, d, e : audio = [enabled |-> a, host |-> b, guest |-> c, pos |-> d, paused |-> e]
    BY DEF AudioInv, AudioTypes, Device
  <2>2. PICK s : s = [audio EXCEPT !.paused = FALSE]
    OBVIOUS
  <2>3. s = [enabled |-> a, host |-> b, guest |-> c, pos |-> d, paused |-> FALSE]
    BY <2>1, <2>2
  <2>4. PICK u : u = FALSE
    OBVIOUS
  <2>5. s = [enabled |-> a, host |-> b, guest |-> c, pos |-> d, paused |-> u]
    BY <2>3, <2>4
  <2>6. [s EXCEPT !.pos = p] = [enabled |-> a, host |-> b, guest |-> c, pos |-> p, paused |-> u]
    BY <2>5
  <2>7. [s EXCEPT !.pos = p] = [enabled |-> a, host |-> b, guest |-> c, pos |-> p, paused |-> FALSE]
    BY <2>4, <2>6
  <2>8. audio' = [s EXCEPT !.pos = p]
    BY <1>1, <1>8, <2>2
  <2>9. QED
    BY <2>1, <2>7, <2>8
<1>10. audio'.host = host /\ audio'.guest = guest /\ audio'.pos = p /\ audio'.enabled
  <2>1. /\ audio'.host = audio.host /\ audio'.guest = audio.guest /\ audio'.pos = p
        /\ audio'.enabled = audio.enabled
    BY <1>9
  <2>2. QED
    BY <1>2, <1>4, <2>1
<1>11. resampled'.taken = frames /\ resampled'.count = count
  BY <1>2
<1>12. AudioTypes'
  <2>1. audio' \in Device
    BY <1>9, DeviceIsDevice, RatesArePositive DEF AudioInv
  <2>2. resampled' \in [taken : Nat, count : Nat]
    BY <1>2, <1>3
  <2>3. QED
    BY <1>2, <2>1, <2>2 DEF AudioInv, AudioTypes
<1>13. RingInv'
  BY <1>2, <1>4, <1>10 DEF AudioInv, RingInv
<1>14. PositionInBounds'
  <2>1. InBounds(since' + resampled'.count, (fed' + resampled'.taken) * audio'.host * Scale, audio'.pos, audio'.guest)
    BY <1>2, <1>5, <1>7, <1>8, <1>10, <1>11
  <2>2. QED
    BY <2>1 DEF PositionInBounds, InBounds
<1>15. AudioInv'
  BY <1>2, <1>3, <1>4, <1>10, <1>11, <1>12, <1>13, <1>14 DEF AudioInv, Idle
<1>16. QED
  BY <1>2, <1>4, <1>10, <1>15 DEF QueueStep, Promised!QueueVars, Queue

\* The callback takes the oldest frames, or silence past them.
LEMMA CallbackHears ==
  ASSUME AudioInv, NEW frames \in PullSizes, PullFrames(frames)
  PROVE  AudioInv' /\ QueueStep
<1>1. PICK n : n = Smaller(frames, ring.avail)
  OBVIOUS
<1>2. /\ audio.host > 0 /\ out' = Oldest(ring, n) \o [k \in 1 .. frames - n |-> -1]
      /\ ring' = RingRead(ring, n) /\ UNCHANGED <<audio, resampled, made, fed, since>>
  BY <1>1 DEF PullFrames
<1>3. ring \in Ring /\ frames \in Nat /\ ring.avail \in Nat /\ ring.write = (ring.read + ring.avail) % RingFrames
  BY RatesAssumed, RatesArePositive, RingIsPositive DEF AudioInv, AudioTypes, RingInv
<1>4. n \in 0 .. ring.avail /\ n \in Nat /\ frames - n \in Nat
  BY <1>1, <1>3 DEF Smaller
<1>5. /\ ring' \in Ring /\ ring'.avail = ring.avail - n /\ ring'.write = (ring'.read + ring'.avail) % RingFrames
      /\ Oldest(ring', ring.avail - n) = SubSeq(Queue, n + 1, ring.avail)
      /\ Oldest(ring, n) = SubSeq(Queue, 1, n)
  BY <1>2, <1>3, <1>4, ReadDrops DEF Queue
<1>6. AudioTypes'
  BY <1>2, <1>5 DEF AudioInv, AudioTypes
<1>7. RingInv'
  <2>1. MaxQueued(audio.host) \in Nat
    BY LimitIsInt, RatesArePositive DEF AudioInv
  <2>2. audio.host # 0 => ring'.avail <= MaxQueued(audio.host)
    BY <1>3, <1>4, <1>5, <2>1 DEF AudioInv, RingInv
  <2>3. QED
    BY <1>2, <1>5, <2>2, RatesArePositive DEF RingInv, AudioInv
<1>8. AudioInv'
  BY <1>2, <1>6, <1>7 DEF AudioInv, PositionInBounds, InBounds, Idle
<1>9. Queue \in Seq(Int) /\ Len(Queue) = ring.avail
  BY <1>3, OldestIsSeq DEF Queue
<1>10. Queue' = SubSeq(Queue, n + 1, Len(Queue)) /\ out' = SubSeq(Queue, 1, n) \o [k \in 1 .. frames - n |-> -1]
  BY <1>2, <1>5, <1>9 DEF Queue
<1>11. Len(out') = frames
  <2>1. Oldest(ring, n) \in Seq(Int) /\ Len(Oldest(ring, n)) = n
    BY <1>3, <1>4, OldestIsSeq
  <2>2. PICK m \in Nat : m = frames - n
    BY <1>4
  <2>3. [k \in 1 .. m |-> -1] \in [1 .. m -> Int]
    OBVIOUS
  <2>4. [k \in 1 .. m |-> -1] \in Seq(Int) /\ Len([k \in 1 .. m |-> -1]) = m
    BY <2>3, FunctionIsSeq
  <2>5. PICK silence \in Seq(Int) : silence = [k \in 1 .. frames - n |-> -1] /\ Len(silence) = m
    BY <2>2, <2>4
  <2>6. Len(Oldest(ring, n) \o silence) = n + m
    BY <2>1, <2>5, ConcatProperties
  <2>7. QED
    BY <1>2, <1>3, <1>4, <2>2, <2>5, <2>6
<1>12. n = IF Len(out') < Len(Queue) THEN Len(out') ELSE Len(Queue)
  BY <1>1, <1>9, <1>11 DEF Smaller
<1>13. Promised!Callback
  <2>1. out' = SubSeq(Queue, 1, n) \o [k \in 1 .. Len(out') - n |-> Promised!Silence]
    BY <1>10, <1>11 DEF Promised!Silence
  <2>2. audio.host # 0
    BY <1>2, RatesArePositive DEF AudioInv
  <2>3. QED
    BY <1>2, <1>10, <1>12, <2>1, <2>2 DEF Promised!Callback, Queue
<1>14. QED
  BY <1>8, <1>13 DEF QueueStep, Promised!QueueNext

\* A push appends its own frames, but for the newest of them past the limit.
LEMMA PushReachesTheQueue ==
  ASSUME AudioInv, PushFrames
  PROVE  AudioInv' /\ QueueStep
<1> DEFINE limit == MaxQueued(audio.host)
           room == Smaller(RingFrames - ring.avail, limit - ring.avail)
           n == IF ring.avail >= limit THEN 0 ELSE Smaller(resampled.count, room)
           count == resampled.count
<1>1. /\ ~Idle /\ resampled' = NoPush /\ UNCHANGED <<audio, out>>
      /\ made' = made + resampled.count /\ fed' = fed + resampled.taken
      /\ since' = since + resampled.count
      /\ ring' = IF ring.avail >= limit THEN ring ELSE RingWrite(ring, made, Smaller(resampled.count, room))
  BY DEF PushFrames
<1>2. /\ audio.host \in Nat \ {0} /\ audio.guest \in Nat \ {0} /\ resampled.taken \in Nat \ {0} /\ fed \in Nat /\ since \in Nat
      /\ count \in Nat /\ ring.avail \in Nat /\ ring.avail <= RingFrames /\ made \in Nat
      /\ ring \in Ring /\ ring.write = (ring.read + ring.avail) % RingFrames
  BY <1>1, RatesArePositive, RingIsPositive DEF AudioInv, AudioTypes, RingInv
<1>3. limit \in Nat /\ ring.avail <= limit
  BY <1>2, LimitIsInt DEF AudioInv, RingInv
<1>4. /\ n \in 0 .. RingFrames - ring.avail /\ n \in Nat /\ n <= count /\ ring.avail + n <= limit
      /\ n < count => ring.avail + n = LimitOf(audio.host)
  BY <1>2, <1>3, RingIsPositive DEF LimitOf, Smaller
<1>5. Queue \in Seq(Int) /\ Len(Queue) = ring.avail
  BY <1>2, OldestIsSeq DEF Queue
<1>6. /\ ring' \in Ring /\ ring'.avail = ring.avail + n /\ ring'.write = (ring'.read + ring'.avail) % RingFrames
      /\ Queue' = Queue \o Promised!Numbers(made, n)
  <2>1. CASE ring.avail >= limit
    <3>1. n = 0 /\ ring' = ring
      BY <1>1, <2>1
    <3>2. Promised!Numbers(made, 0) = <<>>
      BY DEF Promised!Numbers
    <3>3. Queue \o <<>> = Queue
      BY <1>5, ConcatEmptySeq
    <3>4. Queue' = Queue /\ ring'.avail = ring.avail + n
      BY <1>2, <3>1 DEF Queue
    <3>5. QED
      BY <1>2, <3>1, <3>2, <3>3, <3>4
  <2>2. CASE ~(ring.avail >= limit)
    <3>1. ring' = RingWrite(ring, made, n)
      BY <1>1, <2>2
    <3> HIDE DEF n
    <3>2. QED
      BY <1>2, <1>4, <3>1, WriteAppends DEF Queue
  <2>3. QED
    BY <2>1, <2>2
<1> HIDE DEF n
<1>7. AudioTypes'
  <2>1. AudioTypes
    BY DEF AudioInv
  <2>2. resampled.taken \in Nat /\ resampled.count \in Nat /\ made \in Nat /\ fed \in Nat /\ since \in Nat
    BY <2>1 DEF AudioTypes
  <2>3. made' \in Nat /\ fed' \in Nat /\ since' \in Nat
    BY <1>1, <2>2
  <2>4. audio' \in Device /\ resampled' \in [taken : Nat, count : Nat]
    BY <1>1, <2>1, NoPushIsPush DEF AudioTypes
  <2>5. QED
    BY <1>6, <2>3, <2>4 DEF AudioTypes
<1>8. RingInv'
  BY <1>1, <1>2, <1>4, <1>6 DEF RingInv
<1>9. InBounds(since', fed' * audio.host * Scale, audio.pos, audio.guest)
  BY <1>1 DEF AudioInv, PositionInBounds
<1>10. PositionInBounds'
  <2>1. resampled'.taken = 0 /\ resampled'.count = 0
    BY <1>1 DEF NoPush
  <2>2. since' + resampled'.count = since' /\ fed' + resampled'.taken = fed'
    <3>1. since' \in Nat /\ fed' \in Nat
      BY <1>1, <1>2
    <3>2. \A x \in Nat : x + 0 = x
      OBVIOUS
    <3>3. QED
      BY <2>1, <3>1, <3>2
  <2>3. InBounds(since' + resampled'.count, (fed' + resampled'.taken) * audio'.host * Scale, audio'.pos, audio'.guest)
    BY <1>1, <1>9, <2>2
  <2>4. QED
    BY <2>3 DEF PositionInBounds, InBounds
<1>11. AudioInv'
  BY <1>1, <1>2, <1>7, <1>8, <1>10 DEF AudioInv, Idle
<1>12. /\ made' - made = count /\ since' - since = count /\ fed' > fed
       /\ Promised!Fill(since', fed')
  <2>1. since' \in Nat /\ audio.pos \in Nat /\ fed' * audio.host * Scale \in Nat
    BY <1>1, <1>2, RatesArePositive, AudioAssumption DEF AudioInv
  <2>2. since' * (audio.guest * Scale + Rounding) \in Int
    BY <1>2, <2>1, AudioAssumption
  <2>3. Promised!Fill(since', fed')
    BY <1>9, <2>1, <2>2 DEF InBounds, Promised!Fill
  <2>4. QED
    BY <1>1, <1>2, <2>3
<1>13. Queue' \in Seq(Int) /\ Len(Queue') = ring.avail + n
  <2>1. Promised!Numbers(made, n) \in [1 .. n -> Int]
    BY <1>2 DEF Promised!Numbers
  <2>2. Promised!Numbers(made, n) \in Seq(Int) /\ Len(Promised!Numbers(made, n)) = n
    BY <1>4, <2>1, FunctionIsSeq
  <2>3. PICK q \in Seq(Int) : q = Promised!Numbers(made, n) /\ Len(q) = n
    BY <2>2
  <2>4. Queue \o q \in Seq(Int) /\ Len(Queue \o q) = Len(Queue) + Len(q)
    BY <1>5, ConcatProperties
  <2>5. QED
    BY <1>5, <1>6, <2>3, <2>4
<1>14. Len(Queue') - Len(Queue) = n
  BY <1>2, <1>4, <1>5, <1>13
<1>15. Promised!Push
  <2>1. n \in 0 .. made' - made
    BY <1>2, <1>4, <1>12
  <2>2. n < made' - made => Len(Queue') = LimitOf(audio.host)
    BY <1>4, <1>12, <1>13
  <2>3. audio.host # 0 /\ fed' > fed /\ UNCHANGED <<audio.host, audio.guest, out>>
    BY <1>1, <1>2, <1>12
  <2> HIDE DEF count
  <2>4. made' - made = since' - since /\ Promised!Fill(since', fed')
    BY <1>12
  <2>5. /\ Len(Oldest(ring, ring.avail)') - Len(Oldest(ring, ring.avail)) = n
        /\ Oldest(ring, ring.avail)' = Oldest(ring, ring.avail) \o Promised!Numbers(made, n)
        /\ n < made' - made => Len(Oldest(ring, ring.avail)') = LimitOf(audio.host)
    BY <1>6, <1>14, <2>2 DEF Queue
  <2>6. QED
    BY <2>1, <2>3, <2>4, <2>5 DEF Promised!Push
<1>16. QED
  BY <1>11, <1>15 DEF QueueStep, Promised!QueueNext

\* The ring implements the queue of AudioQueue for every device and guest rate, ring
\* size, latency limit and size of pushes and callbacks, whatever the callback's
\* thread does between the two halves of push_samples (audio.cpp:57-77, 198-250).
THEOREM RingImplementsQueue == AudioSpec => ImplementsAudioQueue
<1>1. AudioInit => AudioInv /\ Promised!QueueInit
  BY AudioStarts
<1>2. AudioInv /\ [AudioNext]_audioVars => AudioInv' /\ QueueStep
  <2> SUFFICES ASSUME AudioInv, [AudioNext]_audioVars PROVE AudioInv' /\ QueueStep
    OBVIOUS
  <2>1. ASSUME NEW hz \in HostRates \cup {0}, InitAudio(hz) PROVE AudioInv' /\ QueueStep
    BY <2>1, DeviceOpens
  <2>2. CASE Shutdown
    BY <2>2, DeviceCloses
  <2>3. ASSUME NEW hz \in GuestRates \cup {0}, SetFrequency(hz) PROVE AudioInv' /\ QueueStep
    BY <2>3, RateChanges
  <2>4. ASSUME NEW n \in PushSizes, NEW count \in 0 .. MaxMade, Resample(n, count) PROVE AudioInv' /\ QueueStep
    BY <2>4, ResamplingIsInward, AudioAssumption
  <2>5. CASE PushFrames
    BY <2>5, PushReachesTheQueue
  <2>6. ASSUME NEW n \in PullSizes, PullFrames(n) PROVE AudioInv' /\ QueueStep
    BY <2>6, CallbackHears
  <2>7. CASE UNCHANGED audioVars
    BY <2>7 DEF audioVars, AudioInv, AudioTypes, RingInv, PositionInBounds, InBounds, Idle, QueueStep, Promised!QueueVars
  <2>8. QED
    BY <2>1, <2>2, <2>3, <2>4, <2>5, <2>6, <2>7 DEF AudioNext
<1>3. QED
  BY <1>1, <1>2, PTL DEF AudioSpec, QueueStep, ImplementsAudioQueue, Promised!QueueSpec

-----------------------------------------------------------------------------
(***************************************************************************)
(* The FIFO of the AI.                                                     *)
(***************************************************************************)
USE SchedulerAssumption, AiAssumption

allVars == <<aiVars, schedVars, miVars>>

\* The buffers in the FIFO are not empty.
BuffersHaveData ==
  \A s \in 0 .. 1 : s < fifo_count => dma_length[s] > 0

\* Outside tick() the buffer that plays has time left.
CompletionIsAhead == ~ticking => \A e \in AiPending : e.at > current_time

AiInv ==
  /\ AiTypeOK
  /\ SchedTypeOK
  /\ next_dram_addr \in AiAddress \cup {0}
  /\ BuffersHaveData
  /\ AiTimerMatchesFifo
  /\ CompletionIsAhead

-----------------------------------------------------------------------------
(***************************************************************************)
(* Arithmetic.                                                             *)
(***************************************************************************)

\* Division, as the provers need it.
LEMMA QuotientBounds ==
  ASSUME NEW x \in Nat, NEW d \in Nat \ {0}
  PROVE  x \div d \in Nat /\ d * (x \div d) <= x /\ x < d * (x \div d) + d
  OBVIOUS

\* The time since a start grows with the clock.
LEMMA ElapsedGrows ==
  ASSUME NEW start \in Nat, NEW now \in Nat, NEW later \in Nat, now <= later
  PROVE  /\ now - start \in Int /\ later - start \in Int
         /\ now - start <= later - start
         /\ now > start => now - start \in Nat
         /\ later > start => later - start \in Nat
  OBVIOUS

\* Multiplying more gives no less.
LEMMA ProductMonotone ==
  ASSUME NEW x \in Nat, NEW y \in Nat, NEW k \in Nat, x <= y
  PROVE  x * k <= y * k /\ x * k \in Nat
  OBVIOUS

\* A buffer always takes time, even one shorter than a sample.
LEMMA CyclesArePositive ==
  ASSUME dacrate \in Nat, NEW len \in Nat
  PROVE  CyclesForLength(len) \in Nat \ {0}
<1> DEFINE n == len \div 4
           r == EffectiveRate + 1
<1>1. CASE n = 0
  BY <1>1 DEF CyclesForLength
<1>2. CASE n # 0
  <2>1. n \in Nat /\ n >= 1 /\ r \in Nat /\ r >= 1
    BY <1>2 DEF EffectiveRate
  <2> HIDE DEF n, r
  <2>2. n * CpuClock \in Nat /\ n * CpuClock >= CpuClock
    BY <2>1, ProductMonotone
  <2>3. n * CpuClock * r \in Nat /\ n * CpuClock * r >= n * CpuClock
    BY <2>1, <2>2
  <2>4. (n * CpuClock * r) \div DacClock >= 1
    BY <2>2, <2>3
  <2> QED BY <1>2, <2>3, <2>4 DEF CyclesForLength, n, r
<1> QED BY <1>1, <1>2

\* The bytes that a proportion of a buffer leaves, in whole samples.
LEMMA BytesLeft ==
  ASSUME NEW e \in Nat, NEW len \in Nat \ {0}, NEW d \in Nat, e < d
  PROVE  LET done == (e * len) \div d IN
           len - (done - (done % 4)) \in 1 .. len
<1> DEFINE done == (e * len) \div d
<1>1. e * len \in Nat /\ e * len < d * len
  <2>1. e + 1 <= d
    OBVIOUS
  <2>2. (e + 1) * len <= d * len
    BY <2>1, ProductMonotone
  <2>3. (e + 1) * len = e * len + len
    OBVIOUS
  <2> QED BY <2>2, <2>3
<1>2. done \in Nat /\ d * done <= e * len
  BY <1>1, QuotientBounds
<1>3. done < len
  <2> HIDE DEF done
  <2> SUFFICES ASSUME done >= len PROVE FALSE
    BY <1>2
  <2>1. len * d <= done * d
    BY <1>2, ProductMonotone
  <2> QED BY <1>1, <1>2, <2>1
<1>4. done % 4 \in 0 .. 3 /\ done - (done % 4) \in 0 .. done
  <2> HIDE DEF done
  <2> QED BY <1>2
<1> HIDE DEF done
<1> QED BY <1>2, <1>3, <1>4 DEF done

\* Later, no more is left.
LEMMA BytesLeftFall ==
  ASSUME NEW e \in Nat, NEW f \in Nat, NEW len \in Nat, NEW d \in Nat \ {0},
         e <= f
  PROVE  LET x == (e * len) \div d
             y == (f * len) \div d
         IN  len - (y - (y % 4)) <= len - (x - (x % 4))
<1> DEFINE x == (e * len) \div d
           y == (f * len) \div d
<1>1. e * len \in Nat /\ f * len \in Nat /\ e * len <= f * len
  BY ProductMonotone
<1>2. x \in Nat /\ y \in Nat /\ x <= y
  BY <1>1, QuotientBounds, QuotientMonotone
<1> HIDE DEF x, y
<1>3. x - (x % 4) <= y - (y % 4)
  BY <1>2
<1> QED BY <1>2, <1>3 DEF x, y

-----------------------------------------------------------------------------
(***************************************************************************)
(* The invariant.                                                          *)
(***************************************************************************)

\* start_next_dma, from a queue without a completion of AI: exactly one is
\* pending afterwards, for the duration that it has noted.
LEMMA StartNextDmaArms ==
  ASSUME AiTypeOK, SchedTypeOK,
         NEW queue \in SUBSET event_queue,
         \A e \in queue : e.cb # "on_dma_complete",
         NEW addr \in [0 .. 1 -> Nat], NEW len \in [0 .. 1 -> Nat],
         NEW carry \in BOOLEAN,
         StartNextDma(queue, addr, len, carry),
         UNCHANGED <<current_time, named, ticking>>
  PROVE  /\ dma_addr' \in [0 .. 1 -> Nat]
         /\ delayed_carry' = FALSE
         /\ dma_start_time' = current_time
         /\ dma_duration_cycles' \in Nat \ {0}
         /\ SchedTypeOK'
         /\ \E e \in event_queue' :
              /\ AiPending' = {e}
              /\ e.at = current_time + dma_duration_cycles'
<1> DEFINE cycles == CyclesForLength(len[0])
<1>1. cycles \in Nat \ {0}
  BY CyclesArePositive DEF AiTypeOK
<1>2. /\ dma_duration_cycles' = cycles
      /\ dma_start_time' = current_time
      /\ delayed_carry' = FALSE
      /\ event_queue' \in PushTo(queue, cycles, "on_dma_complete")
  BY DEF StartNextDma
<1>3. dma_addr' \in [0 .. 1 -> Nat]
  BY DEF StartNextDma
<1> HIDE DEF cycles
<1>4. PICK i \in FreeCell(queue) :
        event_queue' = queue \cup {[id |-> i, at |-> current_time + cycles,
                                    cb |-> "on_dma_complete"]}
  BY <1>2 DEF PushTo
<1> DEFINE new == [id |-> i, at |-> current_time + cycles,
                   cb |-> "on_dma_complete"]
<1>5. current_time \in Nat
  BY DEF SchedTypeOK
<1>6. new \in Event
  BY <1>1, <1>5 DEF Event, FreeCell
<1>7. \A e \in queue : e.id # i
  BY DEF FreeCell
<1>8. SchedTypeOK'
  BY <1>4, <1>6, <1>7 DEF SchedTypeOK
<1>9. AiPending' = {new}
  BY <1>4 DEF AiPending
<1>10. new \in event_queue' /\ new.at = current_time + dma_duration_cycles'
  BY <1>2, <1>4
<1> HIDE DEF new
<1> QED BY <1>1, <1>2, <1>3, <1>8, <1>9, <1>10

\* With one completion pending at the right time, in the future, the timer
\* part of the invariant holds.
LEMMA TimerAfterStart ==
  ASSUME fifo_count' # 0, current_time \in Nat,
         current_time' = current_time,
         dma_start_time' = current_time,
         dma_duration_cycles' \in Nat \ {0},
         NEW e \in event_queue', AiPending' = {e},
         e.at = current_time + dma_duration_cycles'
  PROVE  AiTimerMatchesFifo' /\ CompletionIsAhead'
<1>1. AiTimerMatchesFifo'
  BY DEF AiTimerMatchesFifo
<1>2. CompletionIsAhead'
  BY DEF CompletionIsAhead
<1> QED BY <1>1, <1>2

\* enqueue_dma: into an idle FIFO the buffer starts, into a busy one it waits.
LEMMA WriteAiLengthInv ==
  ASSUME AiInv, NEW length \in AiLength, WriteAiLength(length)
  PROVE  AiInv'
<1> DEFINE addr == [dma_addr EXCEPT ![fifo_count] = next_dram_addr]
           len  == [dma_length EXCEPT ![fifo_count] = length]
<1>1. /\ length \in Nat /\ length > 0
      /\ fifo_count \in 0 .. 1
      /\ fifo_count' = fifo_count + 1
      /\ dma_length' = len
      /\ UNCHANGED <<next_dram_addr, dacrate, current_time, named, ticking>>
  BY DEF WriteAiLength, FifoHasRoom, AiInv, AiTypeOK
<1>2. /\ addr \in [0 .. 1 -> Nat]
      /\ len \in [0 .. 1 -> Nat]
      /\ len[fifo_count] = length
      /\ \A s \in 0 .. 1 : s < fifo_count => len[s] = dma_length[s]
  BY <1>1 DEF AiInv, AiTypeOK
<1>3. BuffersHaveData'
  BY <1>1, <1>2 DEF AiInv, BuffersHaveData
<1>4. CASE fifo_count = 0
  <2>1. StartNextDma(event_queue, addr, len, delayed_carry)
    BY <1>4 DEF WriteAiLength
  <2>2. \A e \in event_queue : e.cb # "on_dma_complete"
    BY <1>4 DEF AiInv, AiTimerMatchesFifo, AiPending
  <2>3. AiTypeOK /\ SchedTypeOK /\ delayed_carry \in BOOLEAN
    BY DEF AiInv, AiTypeOK
  <2> HIDE DEF addr, len
  <2>4. /\ dma_addr' \in [0 .. 1 -> Nat]
        /\ delayed_carry' = FALSE
        /\ dma_start_time' = current_time
        /\ dma_duration_cycles' \in Nat \ {0}
        /\ SchedTypeOK'
        /\ \E e \in event_queue' :
             /\ AiPending' = {e}
             /\ e.at = current_time + dma_duration_cycles'
    BY <1>1, <1>2, <2>1, <2>2, <2>3, StartNextDmaArms
  <2>5. current_time \in Nat
    BY <2>3 DEF SchedTypeOK
  <2>6. AiTimerMatchesFifo' /\ CompletionIsAhead'
    BY <1>1, <1>4, <2>4, <2>5, TimerAfterStart
  <2>7. AiTypeOK'
    <3>1. /\ dma_length' \in [0 .. 1 -> Nat] /\ fifo_count' \in 0 .. 2
          /\ next_dram_addr' \in Nat /\ dacrate' \in Nat
          /\ dma_start_time' \in Nat /\ dma_duration_cycles' \in Nat
      BY <1>1, <1>2, <2>3, <2>4, <2>5 DEF AiTypeOK
    <3> QED BY <2>4, <3>1, Zenon DEF AiTypeOK
  <2> QED BY <1>1, <1>3, <2>4, <2>6, <2>7 DEF AiInv
<1>5. CASE fifo_count = 1
  <2>1. /\ dma_addr' = addr
        /\ UNCHANGED <<delayed_carry, dma_duration_cycles, dma_start_time,
                       event_queue>>
    BY <1>5 DEF WriteAiLength
  <2>2. AiTypeOK'
    BY <1>1, <1>2, <2>1 DEF AiInv, AiTypeOK
  <2>3. SchedTypeOK' /\ CompletionIsAhead'
    BY <1>1, <2>1 DEF AiInv, SchedTypeOK, CompletionIsAhead, AiPending
  <2>4. AiTimerMatchesFifo'
    BY <1>1, <1>5, <2>1 DEF AiInv, AiTimerMatchesFifo, AiPending
  <2> QED BY <1>1, <1>3, <2>2, <2>3, <2>4 DEF AiInv
<1> QED BY <1>1, <1>4, <1>5

\* Only writes that leave the FIFO, the queue and the clock alone.
LEMMA RegisterWriteInv ==
  ASSUME AiInv,
         \/ \E a \in AiAddress : WriteAiDramAddr(a)
         \/ \E r \in AiRate : WriteAiDacrate(r)
         \/ WriteAiStatus
  PROVE  AiInv'
<1>1. /\ UNCHANGED <<dma_addr, dma_length, fifo_count, delayed_carry,
                     dma_start_time, dma_duration_cycles>>
      /\ UNCHANGED <<current_time, event_queue, named, ticking>>
  BY DEF WriteAiDramAddr, WriteAiDacrate, WriteAiStatus, aiVars, schedVars
<1>2. next_dram_addr' \in AiAddress \cup {0} /\ dacrate' \in Nat
  BY DEF WriteAiDramAddr, WriteAiDacrate, WriteAiStatus, aiVars, AiInv, AiTypeOK
<1>3. AiTypeOK'
  BY <1>1, <1>2 DEF AiInv, AiTypeOK
<1>4. /\ SchedTypeOK' /\ BuffersHaveData' /\ AiTimerMatchesFifo'
      /\ CompletionIsAhead'
  BY <1>1 DEF AiInv, SchedTypeOK, BuffersHaveData, AiTimerMatchesFifo,
              CompletionIsAhead, AiPending
<1> QED BY <1>2, <1>3, <1>4 DEF AiInv

\* on_dma_complete: the event that fires is the only one of AI.
LEMMA AiCompletedInv ==
  ASSUME AiInv, NEW e \in event_queue, AiCompleted(e)
  PROVE  AiInv'
<1> DEFINE queue == event_queue \ {e}
<1>1. e \in AiPending
  BY DEF AiCompleted, AiPending
<1>2. fifo_count \in 1 .. 2 /\ AiPending = {e}
  BY <1>1 DEF AiInv, AiTypeOK, AiTimerMatchesFifo
<1>3. \A f \in queue : f.cb # "on_dma_complete"
  BY <1>2 DEF AiPending
<1>4. /\ ticking
      /\ fifo_count' = fifo_count - 1
      /\ dma_length' = Shift(dma_length)
      /\ UNCHANGED <<next_dram_addr, dacrate, current_time, named, ticking>>
  BY <1>2 DEF AiCompleted, QueueDue
<1>5. Shift(dma_addr) \in [0 .. 1 -> Nat] /\ Shift(dma_length) \in [0 .. 1 -> Nat]
  BY <1>2 DEF AiInv, AiTypeOK, Shift
<1>6. BuffersHaveData'
  <2>1. CASE fifo_count = 1
    BY <1>4, <2>1 DEF BuffersHaveData
  <2>2. CASE fifo_count = 2
    <3>1. dma_length'[0] = dma_length[1]
      BY <1>4, <2>2 DEF Shift
    <3> QED BY <1>4, <2>2, <3>1 DEF AiInv, BuffersHaveData
  <2> QED BY <1>2, <2>1, <2>2
<1>7. AiTypeOK /\ SchedTypeOK /\ current_time \in Nat
  BY DEF AiInv, SchedTypeOK
<1>8. EndsOnPage \in BOOLEAN
  BY DEF EndsOnPage
<1>9. CASE fifo_count = 2
  <2>1. StartNextDma(queue, Shift(dma_addr), Shift(dma_length), EndsOnPage)
    BY <1>9 DEF AiCompleted
  <2> HIDE DEF queue
  <2>2. /\ dma_addr' \in [0 .. 1 -> Nat]
        /\ delayed_carry' = FALSE
        /\ dma_start_time' = current_time
        /\ dma_duration_cycles' \in Nat \ {0}
        /\ SchedTypeOK'
        /\ \E f \in event_queue' :
             /\ AiPending' = {f}
             /\ f.at = current_time + dma_duration_cycles'
    <3>1. queue \in SUBSET event_queue
      BY DEF queue
    <3> QED BY <1>3, <1>4, <1>5, <1>7, <1>8, <2>1, <3>1, StartNextDmaArms
  <2>3. AiTimerMatchesFifo' /\ CompletionIsAhead'
    BY <1>4, <1>7, <1>9, <2>2, TimerAfterStart
  <2>4. AiTypeOK'
    <3>1. /\ dma_length' \in [0 .. 1 -> Nat] /\ fifo_count' \in 0 .. 2
          /\ next_dram_addr' \in Nat /\ dacrate' \in Nat
          /\ dma_start_time' \in Nat /\ dma_duration_cycles' \in Nat
      BY <1>4, <1>5, <1>7, <1>9, <2>2 DEF AiTypeOK
    <3> QED BY <2>2, <3>1, Zenon DEF AiTypeOK
  <2> QED BY <1>4, <1>6, <2>2, <2>3, <2>4 DEF AiInv
<1>10. CASE fifo_count = 1
  <2>1. /\ event_queue' = queue
        /\ dma_addr' = Shift(dma_addr)
        /\ delayed_carry' = EndsOnPage
        /\ dma_duration_cycles' = 0
        /\ dma_start_time' = dma_start_time
    BY <1>10 DEF AiCompleted
  <2>2. AiTypeOK'
    <3>1. /\ dma_length' \in [0 .. 1 -> Nat] /\ fifo_count' \in 0 .. 2
          /\ dma_addr' \in [0 .. 1 -> Nat]
          /\ next_dram_addr' \in Nat /\ dacrate' \in Nat
          /\ dma_start_time' \in Nat /\ dma_duration_cycles' \in Nat
      BY <1>4, <1>5, <1>7, <1>10, <2>1 DEF AiTypeOK
    <3>2. delayed_carry' \in BOOLEAN
      BY <1>8, <2>1, Zenon
    <3> QED BY <3>1, <3>2, Zenon DEF AiTypeOK
  <2>3. SchedTypeOK'
    BY <1>4, <1>7, <2>1 DEF SchedTypeOK
  <2>4. AiPending' = {}
    BY <1>3, <2>1 DEF AiPending
  <2>5. AiTimerMatchesFifo' /\ CompletionIsAhead'
    BY <1>4, <1>10, <2>4 DEF AiTimerMatchesFifo, CompletionIsAhead
  <2> QED BY <1>4, <1>6, <2>2, <2>3, <2>5 DEF AiInv
<1> QED BY <1>2, <1>9, <1>10

\* The clock: only the end of the dispatch loop can leave a completion to
\* the CPU's time, and then everything armed is ahead.
LEMMA AiTickInv ==
  ASSUME AiInv, AiTick PROVE AiInv'
<1>1. UNCHANGED aiVars /\ UNCHANGED <<event_queue, named>>
  BY DEF AiTick, TickBegin, TickEnd
<1>2. AiTypeOK' /\ BuffersHaveData' /\ AiTimerMatchesFifo'
  BY <1>1 DEF aiVars, AiInv, AiTypeOK, BuffersHaveData, AiTimerMatchesFifo,
              AiPending
<1>3. SchedTypeOK'
  <2>1. current_time' \in 0 .. MaxTime
    BY DEF AiTick, TickBegin, TickEnd, AiInv, SchedTypeOK
  <2>2. ticking' \in BOOLEAN
    BY Zenon DEF AiTick, TickBegin, TickEnd
  <2> QED BY <1>1, <2>1, <2>2 DEF AiInv, SchedTypeOK
<1>4. CompletionIsAhead'
  <2>1. CASE TickEnd
    <3>1. \A t \in Deadlines : t > current_time
      BY <2>1, LoopEndsClean DEF AiInv
    <3>2. current_time' = current_time
      BY <2>1 DEF TickEnd
    <3> QED BY <1>1, <3>1, <3>2 DEF CompletionIsAhead, AiPending, Deadlines
  <2>2. CASE \E n \in 0 .. MaxTick : TickBegin(n)
    BY <2>2 DEF TickBegin, CompletionIsAhead
  <2> QED BY <2>1, <2>2 DEF AiTick
<1> QED BY <1>1, <1>2, <1>3, <1>4 DEF AiInv, aiVars

\* The invariant holds of every behaviour.
LEMMA AiInvariant == AiSpec => []AiInv
<1>1. ZeroSlots \in [0 .. 1 -> Nat] /\ 0 \in 0 .. MaxTime
  BY DEF ZeroSlots
<1>2. [i \in NamedId |-> EmptySlot] \in [NamedId -> NamedEvent]
  BY DEF EmptySlot, NamedEvent
<1>3. AiStart => AiInv
  <2> SUFFICES ASSUME AiStart PROVE AiInv
    OBVIOUS
  <2>1. AiTypeOK
    <3>1. delayed_carry \in BOOLEAN
      BY Zenon DEF AiStart, AiInit
    <3>2. /\ dma_length \in [0 .. 1 -> Nat] /\ fifo_count \in 0 .. 2
          /\ dma_addr \in [0 .. 1 -> Nat]
          /\ next_dram_addr \in Nat /\ dacrate \in Nat
          /\ dma_start_time \in Nat /\ dma_duration_cycles \in Nat
      BY <1>1 DEF AiStart, AiInit
    <3> QED BY <3>1, <3>2, Zenon DEF AiTypeOK
  <2>2. SchedTypeOK
    BY <1>1, <1>2 DEF AiStart, SchedInit, SchedTypeOK
  <2>3. /\ next_dram_addr \in AiAddress \cup {0} /\ BuffersHaveData
        /\ AiTimerMatchesFifo /\ CompletionIsAhead
    BY DEF AiStart, AiInit, SchedInit, BuffersHaveData, AiTimerMatchesFifo,
           CompletionIsAhead, AiPending
  <2> QED BY <2>1, <2>2, <2>3 DEF AiInv
<1>4. AiInv /\ [AiNext]_allVars => AiInv'
  <2> SUFFICES ASSUME AiInv, [AiNext]_allVars PROVE AiInv'
    OBVIOUS
  <2>1. CASE AiCpuNext
    BY <2>1, WriteAiLengthInv, RegisterWriteInv DEF AiCpuNext
  <2>2. CASE \E e \in event_queue : AiCompleted(e)
    BY <2>2, AiCompletedInv
  <2>3. CASE AiReset
    <3>1. AiTypeOK'
      <4>1. delayed_carry' \in BOOLEAN
        BY <2>3, Zenon DEF AiReset, AiResetVars
      <4>2. /\ dma_length' \in [0 .. 1 -> Nat] /\ fifo_count' \in 0 .. 2
            /\ dma_addr' \in [0 .. 1 -> Nat]
            /\ next_dram_addr' \in Nat /\ dacrate' \in Nat
            /\ dma_start_time' \in Nat /\ dma_duration_cycles' \in Nat
        BY <1>1, <2>3 DEF AiReset, AiResetVars
      <4> QED BY <4>1, <4>2, Zenon DEF AiTypeOK
    <3>2. SchedTypeOK'
      BY <1>1, <1>2, <2>3 DEF AiReset, Restart, AiInv, SchedTypeOK
    <3>3. /\ next_dram_addr' \in AiAddress \cup {0} /\ BuffersHaveData'
          /\ AiTimerMatchesFifo' /\ CompletionIsAhead'
      BY <2>3 DEF AiReset, AiResetVars, Restart, BuffersHaveData,
                  AiTimerMatchesFifo, CompletionIsAhead, AiPending
    <3> QED BY <3>1, <3>2, <3>3 DEF AiInv
  <2>4. CASE UNCHANGED allVars
    BY <2>4 DEF allVars, aiVars, schedVars, AiInv, AiTypeOK, SchedTypeOK,
                BuffersHaveData, AiTimerMatchesFifo, CompletionIsAhead, AiPending
  <2> QED BY <2>1, <2>2, <2>3, <2>4, AiTickInv DEF AiNext
<1> QED BY <1>3, <1>4, PTL DEF AiSpec, allVars

\* AI's registers stay well formed: the count of the FIFO never leaves 0..2.
THEOREM AiTypeCorrect == AiSpec => []AiTypeOK
  BY AiInvariant, PTL DEF AiInv

\* A buffer plays exactly when one completion is pending, and it is due when
\* the duration noted at the buffer's start has elapsed.
THEOREM AiTimerCorrect == AiSpec => []AiTimerMatchesFifo
  BY AiInvariant, PTL DEF AiInv

-----------------------------------------------------------------------------
(***************************************************************************)
(* What a read of AI_LENGTH returns.                                       *)
(***************************************************************************)

\* A game that polls AI_LENGTH sees 0 exactly when the FIFO is empty, and
\* otherwise between 1 and the length of the buffer that plays.
THEOREM AiLengthCorrect == AiSpec => []AiLengthTellsIdle
<1>1. AiInv => AiLengthTellsIdle
  <2> SUFFICES ASSUME AiInv, ~ticking PROVE
                 IF fifo_count = 0 THEN BytesRemaining = 0
                 ELSE BytesRemaining \in 1 .. dma_length[0]
    BY DEF AiLengthTellsIdle
  <2>1. CASE fifo_count = 0
    BY <2>1 DEF BytesRemaining
  <2>2. CASE fifo_count # 0
    <3>1. /\ dma_length[0] \in Nat \ {0}
          /\ dma_start_time \in Nat
          /\ current_time \in Nat
      BY <2>2 DEF AiInv, AiTypeOK, SchedTypeOK, BuffersHaveData
    <3>2. /\ dma_duration_cycles \in Nat \ {0}
          /\ dma_start_time + dma_duration_cycles > current_time
      BY <2>2 DEF AiInv, AiTypeOK, AiTimerMatchesFifo, CompletionIsAhead
    <3>3. CASE current_time <= dma_start_time
      BY <2>2, <3>1, <3>2, <3>3 DEF BytesRemaining
    <3>4. CASE ~(current_time <= dma_start_time)
      <4> DEFINE elapsed == current_time - dma_start_time
      <4>1. elapsed \in Nat /\ elapsed < dma_duration_cycles
        BY <3>1, <3>2, <3>4
      <4>2. BytesRemaining =
              LET done == (elapsed * dma_length[0]) \div dma_duration_cycles
              IN  dma_length[0] - (done - (done % 4))
        BY <2>2, <3>1, <3>2, <3>4, <4>1 DEF BytesRemaining
      <4> HIDE DEF elapsed
      <4> QED BY <2>2, <3>1, <3>2, <4>1, <4>2, BytesLeft
    <3> QED BY <3>3, <3>4
  <2> QED BY <2>1, <2>2
<1> QED BY <1>1, AiInvariant, PTL

\* While the same buffer plays, time alone only lowers what is left of it.
LEMMA TimeLowersBytes ==
  ASSUME AiInv, fifo_count # 0, fifo_count' # 0,
         dma_length'[0] = dma_length[0],
         UNCHANGED <<dma_start_time, dma_duration_cycles>>,
         current_time' \in Nat, current_time' >= current_time
  PROVE  BytesRemaining' <= BytesRemaining
<1> DEFINE len == dma_length[0]
           e   == current_time - dma_start_time
           f   == current_time' - dma_start_time
           d   == dma_duration_cycles
           x   == (e * len) \div d
           y   == (f * len) \div d
<1>1. /\ len \in Nat \ {0} /\ d \in Nat \ {0}
      /\ dma_start_time \in Nat /\ current_time \in Nat
  BY DEF AiInv, AiTypeOK, SchedTypeOK, BuffersHaveData, AiTimerMatchesFifo
<1>2. BytesRemaining =
        IF current_time <= dma_start_time THEN len
        ELSE IF e >= d THEN 0 ELSE len - (x - (x % 4))
  BY <1>1 DEF BytesRemaining
<1>3. BytesRemaining' =
        IF current_time' <= dma_start_time THEN len
        ELSE IF f >= d THEN 0 ELSE len - (y - (y % 4))
  BY <1>1 DEF BytesRemaining
<1>4. /\ e \in Int /\ f \in Int /\ e <= f
      /\ current_time > dma_start_time => e \in Nat
      /\ current_time' > dma_start_time => f \in Nat
  BY <1>1, ElapsedGrows
<1>5. CASE current_time' <= dma_start_time
  BY <1>1, <1>2, <1>3, <1>5
<1>6. CASE ~(current_time' <= dma_start_time) /\ f >= d
  <2>1. BytesRemaining' = 0
    BY <1>3, <1>6
  <2>2. e \in Nat /\ e < d => len - (x - (x % 4)) \in 1 .. len
    BY <1>1, BytesLeft
  <2> HIDE DEF x
  <2>3. BytesRemaining >= 0
    BY <1>1, <1>2, <2>2
  <2> QED BY <2>1, <2>3
<1>7. CASE ~(current_time' <= dma_start_time) /\ ~(f >= d)
  <2>1. f \in Nat /\ f < d
    <3> HIDE DEF f, d
    <3>1. current_time' > dma_start_time
      BY <1>1, <1>7
    <3> QED BY <1>1, <1>4, <1>7, <3>1
  <2>2. len - (y - (y % 4)) \in 1 .. len
    BY <1>1, <2>1, BytesLeft
  <2>3. CASE current_time <= dma_start_time
    <3> HIDE DEF x, y
    <3> QED BY <1>1, <1>2, <1>3, <1>7, <2>2, <2>3
  <2>4. CASE ~(current_time <= dma_start_time)
    <3>1. e \in Nat /\ e < d
      <4> HIDE DEF e, f, d
      <4>1. current_time > dma_start_time
        BY <1>1, <2>4
      <4> QED BY <1>1, <1>4, <2>1, <4>1
    <3>2. len - (y - (y % 4)) <= len - (x - (x % 4))
      BY <1>1, <1>4, <2>1, <3>1, BytesLeftFall
    <3> HIDE DEF x, y
    <3> QED BY <1>1, <1>2, <1>3, <1>7, <2>4, <3>1, <3>2
  <2> QED BY <2>3, <2>4
<1> QED BY <1>5, <1>6, <1>7

\* While a buffer plays, AI_LENGTH only counts down, whatever else the game
\* writes: a new rate or a second buffer does not disturb it.
THEOREM AiLengthFalls == AiSpec => AiLengthCountsDown
<1>1. AiInv /\ AiInv' /\ [AiNext]_allVars
        => [fifo_count > 0 /\ fifo_count' >= fifo_count
              /\ current_time' >= current_time
              => BytesRemaining' <= BytesRemaining]_<<aiVars, schedVars>>
  <2> SUFFICES ASSUME AiInv, AiInv', [AiNext]_allVars,
                      fifo_count > 0, fifo_count' >= fifo_count,
                      current_time' >= current_time
               PROVE  BytesRemaining' <= BytesRemaining
    OBVIOUS
  <2>1. /\ fifo_count \in 1 .. 2 /\ fifo_count' # 0
        /\ current_time' \in Nat
    BY DEF AiInv, AiTypeOK, SchedTypeOK
  <2>2. /\ dma_length'[0] = dma_length[0]
        /\ UNCHANGED <<dma_start_time, dma_duration_cycles>>
    <3>1. ASSUME NEW l \in AiLength, WriteAiLength(l)
          PROVE  /\ dma_length'[0] = dma_length[0]
                 /\ UNCHANGED <<dma_start_time, dma_duration_cycles>>
      <4>1. fifo_count = 1
        BY <2>1, <3>1 DEF WriteAiLength, FifoHasRoom
      <4> QED BY <3>1, <4>1 DEF WriteAiLength, AiInv, AiTypeOK
    <3>2. ~AiReset
      BY <2>1 DEF AiReset, AiResetVars
    <3>3. ASSUME NEW e \in event_queue PROVE ~AiCompleted(e)
      BY <2>1 DEF AiCompleted
    <3>4. CASE UNCHANGED <<dma_length, dma_start_time, dma_duration_cycles>>
      BY <3>4
    <3> QED
      BY <3>1, <3>2, <3>3, <3>4
      DEF AiNext, AiCpuNext, WriteAiDramAddr, WriteAiDacrate, WriteAiStatus,
          AiTick, aiVars, allVars
  <2> QED BY <2>1, <2>2, TimeLowersBytes
<1> QED BY <1>1, AiInvariant, PTL DEF AiSpec, AiLengthCountsDown, allVars

-----------------------------------------------------------------------------
(***************************************************************************)
(* The FIFO.                                                               *)
(***************************************************************************)

\* A register slot is never mistaken for the absent buffer.
LEMMA SlotsDiffer ==
  ASSUME AiTypeOK, NEW s \in 0 .. 1 PROVE Slot(s) # NoBuffer
<1>1. dma_addr[s] \in Nat /\ dma_addr[s] # -1
  BY DEF AiTypeOK
<1> QED BY <1>1 DEF Slot, NoBuffer

\* A write to AI_LENGTH submits the buffer.
LEMMA WriteAiLengthSubmits ==
  ASSUME AiInv, NEW length \in AiLength, WriteAiLength(length)
  PROVE  Fifo!Next
<1> DEFINE b == [addr |-> next_dram_addr, len |-> length]
<1>1. fifo_count \in 0 .. 1 /\ fifo_count' = fifo_count + 1
  BY DEF WriteAiLength, FifoHasRoom, AiInv, AiTypeOK
<1>2. next_dram_addr \in AiAddress \cup {0} /\ AiTypeOK
  BY DEF AiInv
<1>3. CASE fifo_count = 0
  <2>1. /\ dma_addr'[0] = IF delayed_carry THEN next_dram_addr + PageSize
                          ELSE next_dram_addr
        /\ dma_length'[0] = length
        /\ delayed_carry' = FALSE
    BY <1>2, <1>3 DEF WriteAiLength, StartNextDma, AiTypeOK
  <2>2. Slot(0)' = Fifo!Shifted(b, delayed_carry)
    BY <2>1 DEF Slot, Fifo!Shifted
  <2> HIDE DEF b
  <2>3. Fifo!SubmitIdle(b)
    BY <1>1, <1>3, <2>1, <2>2 DEF Fifo!SubmitIdle
  <2> QED BY <1>2, <2>3 DEF Fifo!Next, b
<1>4. CASE fifo_count = 1
  <2>1. /\ dma_addr' = [dma_addr EXCEPT ![1] = next_dram_addr]
        /\ dma_length' = [dma_length EXCEPT ![1] = length]
        /\ delayed_carry' = delayed_carry
    BY <1>4 DEF WriteAiLength
  <2>2. Slot(0)' = Slot(0) /\ Slot(1)' = b
    BY <1>2, <2>1 DEF Slot, AiTypeOK
  <2>3. Slot(0) # NoBuffer
    BY <1>2, SlotsDiffer
  <2> HIDE DEF b
  <2>4. Fifo!SubmitBusy(b)
    BY <1>1, <1>4, <2>1, <2>2, <2>3 DEF Fifo!SubmitBusy
  <2> QED BY <1>2, <2>4 DEF Fifo!Next, b
<1> QED BY <1>1, <1>3, <1>4

\* A completion finishes the buffer that plays and starts the one that waits.
LEMMA AiCompletedFinishes ==
  ASSUME AiInv, NEW e \in event_queue, AiCompleted(e)
  PROVE  Fifo!Next
<1>1. fifo_count \in 1 .. 2 /\ fifo_count' = fifo_count - 1
  <2>1. e \in AiPending
    BY DEF AiCompleted, AiPending
  <2> QED BY <2>1 DEF AiInv, AiTypeOK, AiTimerMatchesFifo, AiCompleted
<1>2. AiTypeOK /\ Slot(0) # NoBuffer /\ Slot(1) # NoBuffer
  BY SlotsDiffer DEF AiInv
<1>3. EndsOnPage <=> Fifo!EndsOnPage(Slot(0))
  BY DEF EndsOnPage, Fifo!EndsOnPage, Slot
<1>4. CASE fifo_count = 1
  <2>1. delayed_carry' = EndsOnPage
    BY <1>4 DEF AiCompleted
  <2>2. delayed_carry' = Fifo!EndsOnPage(Slot(0))
    BY <2>1 DEF EndsOnPage, Fifo!EndsOnPage, Slot
  <2>3. Fifo!FinishLast
    BY <1>1, <1>2, <1>4, <2>2 DEF Fifo!FinishLast
  <2> QED BY <2>3 DEF Fifo!Next
<1>5. CASE fifo_count = 2
  <2>1. /\ dma_addr'[0] = IF EndsOnPage THEN dma_addr[1] + PageSize
                          ELSE dma_addr[1]
        /\ dma_length'[0] = dma_length[1]
        /\ delayed_carry' = FALSE
    BY <1>2, <1>5 DEF AiCompleted, StartNextDma, Shift, AiTypeOK
  <2>2. Slot(0)' = Fifo!Shifted(Slot(1), Fifo!EndsOnPage(Slot(0)))
    BY <1>3, <2>1 DEF Slot, Fifo!Shifted
  <2>3. Fifo!FinishAndStart
    BY <1>1, <1>2, <1>5, <2>1, <2>2 DEF Fifo!FinishAndStart
  <2> QED BY <2>3 DEF Fifo!Next
<1> QED BY <1>1, <1>4, <1>5

\* The two register slots, the count and the carry flag implement a FIFO of
\* two buffers: nothing is lost, repeated or reordered, and the page carry
\* goes to the buffer that starts next and to no other.
THEOREM AiImplementsAudioFifo == AiSpec => ImplementsAudioFifo
<1>1. AiStart => Fifo!Init
  BY DEF AiStart, AiInit, Fifo!Init
<1>2. AiInv /\ [AiNext]_allVars => [Fifo!Next]_Fifo!vars
  <2> SUFFICES ASSUME AiInv, [AiNext]_allVars
               PROVE  Fifo!Next \/ UNCHANGED Fifo!vars
    OBVIOUS
  <2>1. CASE \E l \in AiLength : WriteAiLength(l)
    BY <2>1, WriteAiLengthSubmits
  <2>2. CASE \E e \in event_queue : AiCompleted(e)
    BY <2>2, AiCompletedFinishes
  <2>3. CASE AiReset
    <3>1. fifo_count' = 0 /\ delayed_carry' = FALSE
      BY <2>3 DEF AiReset, AiResetVars
    <3>2. Fifo!PowerOff
      BY <3>1 DEF Fifo!PowerOff
    <3> QED BY <3>2 DEF Fifo!Next
  <2>4. CASE UNCHANGED <<dma_addr, dma_length, fifo_count, delayed_carry>>
    BY <2>4 DEF Fifo!vars, Slot
  <2> QED
    BY <2>1, <2>2, <2>3, <2>4
    DEF AiNext, AiCpuNext, WriteAiDramAddr, WriteAiDacrate, WriteAiStatus,
        AiTick, aiVars, allVars
<1> QED
  BY <1>1, <1>2, AiInvariant, PTL DEF AiSpec, ImplementsAudioFifo, Fifo!Spec, allVars

=============================================================================

------------------------------ MODULE RspProofs ------------------------------
(***************************************************************************)
(* Theorems about RspTask: for any instruction cap, any writes to          *)
(* SP_STATUS by the CPU or the RSP and any other named events, a running   *)
(* RSP keeps its event, a halted one stays halted and a break reaches the  *)
(* CPU.  That tick() returns needs fairness and is left to TLC.            *)
(*                                                                         *)
(* Theorems about RspCore: what the RSP executes is what its memory holds, *)
(* by induction over the rows of a DMA, each of which decodes the words it *)
(* wrote again (RowNoted); and its scalar unit computes what the CPU       *)
(* computes, for the low word of each operation of the CPU is the          *)
(* operation on low words.                                                 *)
(***************************************************************************)
EXTENDS RspTask, RspCore, EngineProofs

allVars == <<rspVars, schedVars, miVars>>

\* RspTypeOK flag by flag, and the part of the scheduler's type that its
\* named slots need.
TurnTypes ==
  /\ halt \in BOOLEAN
  /\ broke \in BOOLEAN
  /\ single_step \in BOOLEAN
  /\ intr_on_break \in BOOLEAN
  /\ signal_0 \in BOOLEAN
  /\ broken \in BOOLEAN
  /\ task_halted \in BOOLEAN
  /\ running_task \in BOOLEAN
  /\ sync_point \in BOOLEAN
  /\ last_signal \in BOOLEAN
  /\ ran \in 0 .. MaxInsns

SlotsExist == DOMAIN named = NamedId

-----------------------------------------------------------------------------
(***************************************************************************)
(* Types.                                                                  *)
(***************************************************************************)

\* A write to SP_STATUS leaves flags.
LEMMA WriteStatusTypes ==
  ASSUME TurnTypes, NEW flags, WriteStatus(flags)
  PROVE  /\ broke' \in BOOLEAN
         /\ single_step' \in BOOLEAN
         /\ intr_on_break' \in BOOLEAN
         /\ signal_0' \in BOOLEAN
<1>1. ASSUME NEW clear, NEW set, NEW old \in BOOLEAN
      PROVE  Chosen(flags, clear, set, old) \in BOOLEAN
  BY DEF Chosen
<1>2. broke' \in BOOLEAN
  BY Zenon DEF WriteStatus
<1> QED BY <1>1, <1>2 DEF WriteStatus, TurnTypes

\* Only a turn that is not over goes on, so the count stays within the cap.
LEMMA StepTypes ==
  ASSUME TurnTypes, Step, single_step' \in BOOLEAN
  PROVE  /\ halt' \in BOOLEAN
         /\ running_task' \in BOOLEAN
         /\ ran' \in 0 .. MaxInsns
<1>1. ran \in 0 .. MaxInsns /\ ran # MaxInsns /\ MaxInsns \in Nat
  BY RspAssumption DEF TurnTypes, Step, TurnOver
<1> QED BY <1>1 DEF TurnTypes, Step

\* Every step keeps the flags flags and the count within the cap.
LEMMA TurnTypesStep ==
  ASSUME TurnTypes, [RspNext]_allVars
  PROVE  TurnTypes'
<1>0. 0 \in 0 .. MaxInsns
  BY RspAssumption
<1>1. CASE RspPlain \/ RspSync \/ RspBreak
  <2>1. /\ single_step' \in BOOLEAN
        /\ Step
    BY <1>1 DEF TurnTypes, RspPlain, RspSync, RspBreak
  <2> QED BY <1>1, <2>1, StepTypes DEF TurnTypes, RspPlain, RspSync, RspBreak
<1>2. CASE RspReadStatus
  <2>1. /\ single_step' \in BOOLEAN
        /\ Step
    BY <1>2 DEF TurnTypes, RspReadStatus
  <2>2. sync_point' \in BOOLEAN
    BY <1>2, Zenon DEF RspReadStatus
  <2> QED BY <1>2, <2>1, <2>2, StepTypes DEF TurnTypes, RspReadStatus
<1>3. ASSUME NEW f \in RspStatusWrite, RspWriteStatus(f) PROVE TurnTypes'
  <2>1. WriteStatus(f) /\ Step
    BY <1>3 DEF RspWriteStatus
  <2>2. task_halted' \in BOOLEAN
    BY <1>3, Zenon DEF RspWriteStatus
  <2>3. sync_point' \in BOOLEAN
    BY <1>3, Zenon DEF RspWriteStatus
  <2> QED
    BY <1>3, <2>1, <2>2, <2>3, WriteStatusTypes, StepTypes
    DEF TurnTypes, RspWriteStatus
<1>4. CASE EndTurn
  BY <1>4 DEF EndTurn, TurnTypes, statusVars
<1>5. ASSUME NEW f \in CpuStatusWrite, CpuWriteStatus(f) PROVE TurnTypes'
  <2>1. WriteStatus(f)
    BY <1>5 DEF CpuWriteStatus
  <2>2. halt' \in BOOLEAN
    BY <1>5 DEF CpuWriteStatus, HaltAfterWrite, TurnTypes
  <2>3. CASE StartTurn /\ task_halted' = FALSE
    BY <1>0, <2>1, <2>2, <2>3, WriteStatusTypes DEF TurnTypes, StartTurn
  <2>4. CASE UNCHANGED <<broken, task_halted, running_task, sync_point, ran,
                         last_signal>>
    BY <2>1, <2>2, <2>4, WriteStatusTypes DEF TurnTypes
  <2> QED BY <1>5, <2>3, <2>4 DEF CpuWriteStatus
<1>6. CASE OnSpEvent
  <2>1. CASE ShowBreak
    BY <2>1 DEF ShowBreak, TurnTypes
  <2>2. CASE ShowHalt
    BY <2>2 DEF ShowHalt, TurnTypes
  <2>3. CASE NextTurn
    BY <1>0, <2>3 DEF NextTurn, StartTurn, TurnTypes, rspVars, statusVars
  <2> QED BY <1>6, <2>1, <2>2, <2>3 DEF OnSpEvent
<1>7. CASE UNCHANGED rspVars
  BY <1>7 DEF rspVars, statusVars, TurnTypes
<1> QED
  BY <1>1, <1>2, <1>3, <1>4, <1>5, <1>6, <1>7
  DEF RspNext, RspTurn, RspTick, allVars

\* SP_STATUS and the task flags stay flags, and no turn runs more than
\* kMaxInsns instructions.
THEOREM RspTypeCorrect == RspSpec => []RspTypeOK
<1>1. RspStart => TurnTypes
  <2>1. 0 \in 0 .. MaxInsns
    BY RspAssumption
  <2> QED BY <2>1 DEF RspStart, RspInit, TurnTypes
<1>2. TurnTypes => RspTypeOK
  BY DEF TurnTypes, RspTypeOK
<1> QED BY <1>1, <1>2, TurnTypesStep, PTL DEF RspSpec, allVars

-----------------------------------------------------------------------------
(***************************************************************************)
(* Scheduling.                                                             *)
(***************************************************************************)

\* No step adds or removes a named slot.
LEMMA SlotsExistStep ==
  ASSUME SlotsExist, [RspNext]_allVars PROVE SlotsExist'
<1>1. ASSUME NEW f, WriteStatus(f) PROVE DOMAIN named' = NamedId
  BY <1>1 DEF WriteStatus, CancelNamed, SlotsExist, schedVars
<1>2. CASE EndTurn \/ OnSpEvent
  BY <1>2 DEF EndTurn, ScheduleNamed, OnSpEvent, DispatchNamed, SlotsExist
<1>3. CASE UNCHANGED schedVars
  BY <1>3 DEF schedVars, SlotsExist
<1>4. CASE RspTick
  BY <1>4 DEF RspTick, TickBegin, TickEnd, SlotsExist
<1> QED
  BY <1>1, <1>2, <1>3, <1>4
  DEF RspNext, RspTurn, RspPlain, RspSync, RspBreak, RspReadStatus,
      RspWriteStatus, CpuWriteStatus, SlotsExist, allVars

\* Between turns an RSP that is not halted has its event armed: every way to
\* leave a turn arms it, only halting cancels it, and the event itself either
\* halts the RSP or starts a turn.
THEOREM RspRunningHasEvent == RspSpec => []RunningHasEvent
<1>0. Sp \in NamedId
  BY RspAssumption DEF Sp
<1>1. RspStart => SlotsExist /\ RunningHasEvent
  BY DEF RspStart, RspInit, SchedInit, SlotsExist, RunningHasEvent
<1>2. SlotsExist /\ RunningHasEvent /\ [RspNext]_allVars => RunningHasEvent'
  <2> SUFFICES ASSUME SlotsExist, RunningHasEvent, [RspNext]_allVars,
                      ~halt', ~running_task'
               PROVE  named'[Sp].enabled
    BY DEF RunningHasEvent, Sp
  <2>1. CASE Step
    BY <2>1 DEF Step
  <2>2. CASE EndTurn
    BY <1>0, <2>2 DEF EndTurn, ScheduleNamed, SlotsExist
  <2>3. ASSUME NEW f \in CpuStatusWrite, CpuWriteStatus(f)
        PROVE  named'[Sp].enabled
    <3>1. ~SetsHalt(f)
      BY <2>3 DEF CpuWriteStatus, HaltAfterWrite
    <3>2. ~halt /\ ~running_task
      BY <2>3 DEF CpuWriteStatus, StartTurn
    <3>3. named' = named
      BY <2>3, <3>1 DEF CpuWriteStatus, WriteStatus, schedVars
    <3> QED BY <3>2, <3>3 DEF RunningHasEvent
  <2>4. CASE OnSpEvent
    BY <2>4 DEF OnSpEvent, ShowBreak, ShowHalt, NextTurn, StartTurn, rspVars,
                statusVars
  <2>5. CASE RspTick \/ UNCHANGED allVars
    BY <2>5 DEF RspTick, TickBegin, TickEnd, RunningHasEvent, allVars, rspVars,
                statusVars, schedVars
  <2> QED
    BY <2>1, <2>2, <2>3, <2>4, <2>5
    DEF RspNext, RspTurn, RspPlain, RspSync, RspBreak, RspReadStatus,
        RspWriteStatus
<1>3. SlotsExist /\ [RspNext]_allVars => SlotsExist'
  BY SlotsExistStep
<1> QED BY <1>1, <1>2, <1>3, PTL DEF RspSpec, allVars

-----------------------------------------------------------------------------
(***************************************************************************)
(* Halting and breaking.                                                   *)
(***************************************************************************)

\* A halted RSP stays idle until the CPU clears its halt bit: the event that
\* is left over from the turn it was halted in fires once, finds it halted and
\* starts neither a turn nor another event.
THEOREM RspHaltedStaysIdle == RspSpec => HaltedStaysIdle
<1> DEFINE Idle == ~running_task' /\ (named'[Sp].enabled => named[Sp].enabled)
<1>0. Sp \in NamedId
  BY RspAssumption DEF Sp
<1>1. SlotsExist /\ [RspNext]_allVars
        => [halt /\ ~running_task => Idle \/ (~halt' /\ ~ticking)]_<<rspVars, schedVars>>
  <2> SUFFICES ASSUME SlotsExist, [RspNext]_allVars, halt, ~running_task
               PROVE  Idle \/ (~halt' /\ ~ticking)
    OBVIOUS
  <2>1. ~Step /\ ~EndTurn
    BY DEF Step, EndTurn
  <2>2. ASSUME NEW f \in CpuStatusWrite, CpuWriteStatus(f)
        PROVE  Idle \/ (~halt' /\ ~ticking)
    <3>1. CASE ~halt'
      BY <2>2, <3>1 DEF CpuWriteStatus
    <3>2. CASE halt'
      <4>1. ~running_task'
        BY <2>2, <3>2 DEF CpuWriteStatus
      <4>2. named'[Sp].enabled => named[Sp].enabled
        BY <1>0, <2>2 DEF CpuWriteStatus, WriteStatus, CancelNamed, EmptySlot, SlotsExist,
                    schedVars
      <4> QED BY <4>1, <4>2
    <3> QED BY <3>1, <3>2
  <2>3. CASE OnSpEvent
    <3>1. named[Sp].enabled
      BY <2>3 DEF OnSpEvent, DispatchNamed, NamedDue, BestNamed, Armed
    <3>2. ~running_task'
      BY <2>3 DEF OnSpEvent, ShowBreak, ShowHalt, NextTurn, rspVars
    <3> QED BY <3>1, <3>2
  <2>4. CASE RspTick \/ UNCHANGED allVars
    BY <2>4 DEF RspTick, TickBegin, TickEnd, allVars, rspVars, schedVars
  <2> QED
    BY <2>1, <2>2, <2>3, <2>4
    DEF RspNext, RspTurn, RspPlain, RspSync, RspBreak, RspReadStatus,
        RspWriteStatus
<1>2. RspStart => SlotsExist
  BY DEF RspStart, SchedInit, SlotsExist
<1>3. SlotsExist /\ [RspNext]_allVars => SlotsExist'
  BY SlotsExistStep
<1> QED BY <1>1, <1>2, <1>3, PTL DEF RspSpec, HaltedStaysIdle, allVars

\* From the turn that hit a break no instruction runs until the event shows
\* it, unless the CPU halts the RSP first.
THEOREM RspBreakIsShown == RspSpec => BreakIsShown
<1>1. [RspNext]_allVars
        => [broken /\ ~halt /\ ~running_task
              => \/ broken' /\ ~halt' /\ ~running_task'
                 \/ halt' /\ (broke' \/ ~ticking)]_rspVars
  <2> SUFFICES ASSUME [RspNext]_allVars, broken, ~halt, ~running_task
               PROVE  \/ broken' /\ ~halt' /\ ~running_task'
                      \/ halt' /\ (broke' \/ ~ticking)
    OBVIOUS
  <2>1. ~Step /\ ~EndTurn
    BY DEF Step, EndTurn
  <2>2. ASSUME NEW f \in CpuStatusWrite, CpuWriteStatus(f)
        PROVE  \/ broken' /\ ~halt' /\ ~running_task'
               \/ halt' /\ ~ticking
    BY <2>2 DEF CpuWriteStatus, HaltAfterWrite
  <2>3. CASE OnSpEvent
    BY <2>3 DEF OnSpEvent, ShowBreak, ShowHalt, NextTurn
  <2>4. CASE RspTick \/ UNCHANGED allVars
    BY <2>4 DEF RspTick, allVars, rspVars, statusVars
  <2> QED
    BY <2>1, <2>2, <2>3, <2>4
    DEF RspNext, RspTurn, RspPlain, RspSync, RspBreak, RspReadStatus,
        RspWriteStatus
<1> QED BY <1>1, PTL DEF RspSpec, BreakIsShown, allVars

-----------------------------------------------------------------------------
(***************************************************************************)
(* The RSP's machine and its predecoded instructions                       *)
(***************************************************************************)

RspWords == 0 .. B(4) - 1
SpCells == 0 .. SpSize - 1
SpWords == 0 .. (SpSize \div 4) - 1
Decodings == {RspDecode(w) : w \in RspWords}
RspMachine ==
    [gpr : [1 .. LastReg -> RspWords], pc : SpCells, next : SpCells, ram : ByteMem(0 .. RspRam - 1),
     dmem : ByteMem(SpCells), imem : ByteMem(SpCells), insns : [SpWords -> Decodings]]
DecodedIn(m) == \A w \in SpWords : m.insns[w] = RspDecode(ImemWord(m, 4 * w))

\* The memories of the RSP are whole words.
LEMMA SpSizes ==
  /\ SpSize \in Nat \ {0} /\ SpSize % 8 = 0 /\ SpSize % 4 = 0 /\ SpSize >= 8
  /\ \A w \in SpWords : w \in Nat /\ 4 * w \in SpCells /\ \A k \in 0 .. 3 : 4 * w + k \in SpCells
  /\ \A c \in SpCells : c \in Nat /\ c \div 4 \in SpWords /\ c = 4 * (c \div 4) + (c % 4) /\ c % 4 \in 0 .. 3
<1>1. SpSize \in Nat \ {0} /\ SpSize % 8 = 0
  BY RspCoreAssumption
<1>2. SpSize % 4 = 0 /\ SpSize >= 8 /\ SpSize = 4 * (SpSize \div 4)
  BY <1>1
<1> QED BY <1>1, <1>2 DEF SpWords, SpCells

\* Addresses wrap into the memory.
LEMMA WithinSp ==
  ASSUME NEW a \in Nat, a < SpSize
  PROVE  a % SpSize = a
<1>1. SpSize \in Nat \ {0}
  BY SpSizes
<1> QED BY <1>1

\* A word of IMEM is a word.
LEMMA ImemWordType ==
  ASSUME NEW m, m.imem \in ByteMem(SpCells), NEW w \in SpWords
  PROVE  ImemWord(m, 4 * w) \in RspWords
<1> DEFINE f == [k \in 0 .. 3 |-> m.imem[4 * w + k]]
<1>1. AreBytes(4, f)
  <2>1. \A k \in 0 .. 3 : m.imem[4 * w + k] \in Byte
    BY SpSizes DEF ByteMem
  <2> QED BY <2>1 DEF AreBytes
<1> HIDE DEF f
<1>2. Joined(4, f) \in 0 .. B(4) - 1
  BY <1>1, JoinedType
<1> QED BY <1>2 DEF ImemWord, RspWords, f

\* Words depend on their own four bytes.
LEMMA ImemWordSame ==
  ASSUME NEW m, NEW x, NEW a, \A k \in 0 .. 3 : m.imem[a + k] = x.imem[a + k]
  PROVE  ImemWord(m, a) = ImemWord(x, a)
<1>1. [k \in 0 .. 3 |-> m.imem[a + k]] = [k \in 0 .. 3 |-> x.imem[a + k]]
  OBVIOUS
<1> QED BY <1>1, Zenon DEF ImemWord

\* Each word with a byte that was written is among those decoded again.
Noted(old, new, offset, length) ==
  \A w \in SpWords : \A k \in 0 .. 3 :
     new[4 * w + k] # old[4 * w + k] => \E j \in 0 .. (length \div 4) - 1 : (offset + 4 * j) % SpSize = 4 * w

\* Writing IMEM and decoding what was written leaves every word decoded.
LEMMA NoteDecodes ==
  ASSUME NEW m \in RspMachine, DecodedIn(m), NEW mem \in ByteMem(SpCells), NEW offset, NEW length, Noted(m.imem, mem, offset, length)
  PROVE  LET y == NoteImemWritten([m EXCEPT !.imem = mem], offset, length)
         IN /\ y \in RspMachine /\ DecodedIn(y)
            /\ y = [gpr |-> m.gpr, pc |-> m.pc, next |-> m.next, ram |-> m.ram, dmem |-> m.dmem, imem |-> mem, insns |-> y.insns]
<1> DEFINE x == [m EXCEPT !.imem = mem]
           P(w) == \E k \in 0 .. (length \div 4) - 1 : (offset + 4 * k) % SpSize = 4 * w
           insns == [w \in SpWords |-> IF P(w) THEN RspDecode(ImemWord(x, 4 * w)) ELSE m.insns[w]]
           y == NoteImemWritten(x, offset, length)
<1>1. x \in RspMachine /\ x.imem = mem /\ x.insns = m.insns /\ DOMAIN x.insns = SpWords
      /\ x = [gpr |-> m.gpr, pc |-> m.pc, next |-> m.next, ram |-> m.ram, dmem |-> m.dmem, imem |-> mem, insns |-> m.insns]
  BY DEF RspMachine
<1> HIDE DEF x, P
<1>2. y = [x EXCEPT !.insns = insns]
  BY <1>1 DEF NoteImemWritten, P
<1>3. \A w \in SpWords : ImemWord(x, 4 * w) \in RspWords
  BY <1>1, ImemWordType
<1>4. insns \in [SpWords -> Decodings]
  <2> SUFFICES ASSUME NEW w \in SpWords PROVE RspDecode(ImemWord(x, 4 * w)) \in Decodings /\ m.insns[w] \in Decodings
    BY Zenon
  <2> QED BY <1>3 DEF RspMachine, Decodings
<1>5. \A w \in SpWords : insns[w] = RspDecode(ImemWord(x, 4 * w))
  <2> SUFFICES ASSUME NEW w \in SpWords, ~P(w) PROVE m.insns[w] = RspDecode(ImemWord(x, 4 * w))
    BY Zenon
  <2>1. \A k \in 0 .. 3 : m.imem[4 * w + k] = x.imem[4 * w + k]
    BY <1>1 DEF Noted, P
  <2>2. ImemWord(m, 4 * w) = ImemWord(x, 4 * w)
    BY <2>1, ImemWordSame
  <2>3. m.insns[w] = RspDecode(ImemWord(m, 4 * w))
    BY DEF DecodedIn
  <2> QED BY <2>2, <2>3, Zenon
<1> HIDE DEF insns, y
<1>6. y \in RspMachine /\ y.insns = insns /\ y.imem = x.imem
      /\ y = [gpr |-> m.gpr, pc |-> m.pc, next |-> m.next, ram |-> m.ram, dmem |-> m.dmem, imem |-> mem, insns |-> insns]
  BY <1>1, <1>2, <1>4 DEF RspMachine
<1>7. DecodedIn(y)
  <2> SUFFICES ASSUME NEW w \in SpWords PROVE y.insns[w] = RspDecode(ImemWord(y, 4 * w))
    BY DEF DecodedIn
  <2>1. ImemWord(y, 4 * w) = ImemWord(x, 4 * w)
    BY <1>6, ImemWordSame
  <2> QED BY <1>5, <1>6, <2>1
<1> QED BY <1>6, <1>7 DEF y, x

\* A store of the CPU.
LEMMA ImemStoreDecodes ==
  ASSUME NEW m \in RspMachine, DecodedIn(m), NEW o \in Nat, NEW n, NEW v \in Int,
         o < SpSize, n = 8 => o % 8 = 0
  PROVE  BusImemWrite(m, o, n, v) \in RspMachine /\ DecodedIn(BusImemWrite(m, o, n, v))
<1> DEFINE at == o - (o % (IF n = 8 THEN 8 ELSE 4))
           size == IF n = 8 THEN 8 ELSE 4
           word == IF n = 8 THEN v ELSE Low(DmemWord(o, n, v), 4)
           mem == [c \in SpCells |-> IF c \in at .. at + size - 1 THEN (word \div B(size - 1 - (c - at))) % B(1) ELSE m.imem[c]]
<1>1. size \in {4, 8} /\ at \in Nat /\ at % 4 = 0 /\ at + size <= SpSize
  <2>1. CASE n = 8
    BY <2>1, SpSizes
  <2>2. CASE n # 8
    BY <2>2, SpSizes
  <2> QED BY <2>1, <2>2
<1>2. word \in Int
  <2>1. DmemWord(o, n, v) \in Int
    <3>1. 3 - (o % 4) \in Nat
      OBVIOUS
    <3>2. B(3 - (o % 4)) \in Nat /\ B(2) \in Nat
      BY <3>1, UnitAt
    <3> QED BY <3>2 DEF DmemWord
  <2>2. Low(DmemWord(o, n, v), 4) \in Int
    <3> DEFINE z == DmemWord(o, n, v)
    <3> HIDE DEF z
    <3>1. z \in Int /\ 4 \in Nat \ {0}
      BY <2>1 DEF z
    <3>2. Low(z, 4) \in 0 .. B(4) - 1
      BY <3>1, LowType
    <3> QED BY <3>2, UnitAt DEF z
  <2> QED BY <2>2
<1>3. DOMAIN m.imem = SpCells /\ m.imem \in ByteMem(SpCells)
  BY DEF RspMachine, ByteMem
<1>4. BusImemWrite(m, o, n, v) = NoteImemWritten([m EXCEPT !.imem = mem], at, size)
  BY <1>3 DEF BusImemWrite
<1> HIDE DEF at, size, word
<1>5. mem \in ByteMem(SpCells)
  <2> SUFFICES ASSUME NEW c \in SpCells, c \in at .. at + size - 1 PROVE (word \div B(size - 1 - (c - at))) % B(1) \in Byte
    BY <1>3 DEF ByteMem
  <2> DEFINE k == size - 1 - (c - at)
  <2>1. k \in Nat
    BY <1>1
  <2> HIDE DEF k
  <2>2. B(k) \in Nat \ {0} /\ B(1) \in Nat \ {0}
    BY <2>1, UnitAt
  <2>3. word \div B(k) \in Int
    BY <1>2, <2>2
  <2>4. (word \div B(k)) % B(1) \in 0 .. B(1) - 1
    BY <2>2, <2>3
  <2> QED BY <2>4 DEF Byte, k
<1>6. Noted(m.imem, mem, at, size)
  <2> SUFFICES ASSUME NEW w \in SpWords, NEW k \in 0 .. 3, mem[4 * w + k] # m.imem[4 * w + k]
               PROVE \E j \in 0 .. (size \div 4) - 1 : (at + 4 * j) % SpSize = 4 * w
    BY DEF Noted
  <2>1. 4 * w + k \in SpCells /\ w \in Nat
    BY SpSizes
  <2>2. 4 * w + k \in at .. at + size - 1
    BY <2>1
  <2> HIDE DEF mem
  <2>3. 4 * w = at \/ (size = 8 /\ 4 * w = at + 4)
    BY <1>1, <2>1, <2>2
  <2>4. at < SpSize /\ (size = 8 => at + 4 < SpSize)
    <3>1. SpSize \in Nat
      BY SpSizes
    <3> QED BY <1>1, <3>1
  <2>5. CASE 4 * w = at
    <3>1. 0 \in 0 .. (size \div 4) - 1 /\ at + 4 * 0 = at /\ at % SpSize = at
      BY <1>1, <2>4, WithinSp
    <3> QED BY <2>5, <3>1
  <2>6. CASE size = 8 /\ 4 * w = at + 4
    <3> DEFINE next == at + 4
    <3>1. next \in Nat /\ next < SpSize /\ 1 \in 0 .. (size \div 4) - 1 /\ at + 4 * 1 = next
      BY <1>1, <2>4, <2>6
    <3>2. next = 4 * w
      BY <2>6
    <3> HIDE DEF next
    <3>3. next % SpSize = next
      BY <3>1, WithinSp
    <3> QED BY <3>1, <3>2, <3>3
  <2> QED BY <2>3, <2>5, <2>6
<1> HIDE DEF mem
<1> DEFINE y == NoteImemWritten([m EXCEPT !.imem = mem], at, size)
<1>7. y \in RspMachine /\ DecodedIn(y)
  BY <1>5, <1>6, NoteDecodes
<1> QED BY <1>4, <1>7

(***************************************************************************)
(* Row by row                                                              *)
(***************************************************************************)

\* A function given by its first value and what follows each value of the set.
Stays(n, V, G) == \A k \in 0 .. n - 1, x \in V : G[<<k, x>>] \in V
RowsOf(p, n, V, base, G) ==
  p \in [0 .. n -> V] /\ p[0] = base /\ \A k \in 0 .. n : k # 0 => p[k] = G[<<k - 1, p[k - 1]>>]

\* The states after each row of a transfer.
LEMMA RowsExist ==
  ASSUME NEW n \in Nat, NEW V, NEW base, base \in V, NEW G, Stays(n, V, G)
  PROVE  \E p : RowsOf(p, n, V, base, G)
<1> DEFINE step == [q \in Nat \X V |-> IF q[1] \in 0 .. n - 1 THEN G[<<q[1], q[2]>>] ELSE q[2]]
<1>1. \A k \in Nat, x \in V : step[<<k, x>>] = IF k \in 0 .. n - 1 THEN G[<<k, x>>] ELSE x
  OBVIOUS
<1>2. IsTable(step, V)
  <2> SUFFICES ASSUME NEW q \in Nat \X V
      PROVE (IF q[1] \in 0 .. n - 1 THEN G[<<q[1], q[2]>>] ELSE q[2]) \in V
    BY DEF IsTable
  <2>1. q[1] \in Nat /\ q[2] \in V
    OBVIOUS
  <2> QED BY <2>1 DEF Stays
<1> HIDE DEF step
<1>3. PICK f : Follows(f, V, base, step)
  BY <1>2, Recursion
<1>4. f \in [Nat -> V] /\ f[0] = base /\ \A k \in Nat : f[k + 1] = step[<<k, f[k]>>]
  BY <1>3 DEF Follows
<1> DEFINE p == [k \in 0 .. n |-> f[k]]
<1>5. p \in [0 .. n -> V] /\ p[0] = base
  BY <1>4
<1>6. ASSUME NEW k \in 0 .. n, k # 0 PROVE p[k] = G[<<k - 1, p[k - 1]>>]
  <2>1. k - 1 \in 0 .. n - 1 /\ k - 1 \in Nat /\ (k - 1) + 1 = k /\ k - 1 \in 0 .. n
    BY <1>6
  <2>2. p[k] = f[(k - 1) + 1] /\ p[k - 1] = f[k - 1]
    BY <2>1
  <2>3. f[(k - 1) + 1] = step[<<k - 1, f[k - 1]>>] /\ f[k - 1] \in V
    BY <1>4, <2>1
  <2>4. step[<<k - 1, f[k - 1]>>] = G[<<k - 1, f[k - 1]>>]
    BY <1>1, <2>1, <2>3
  <2> QED BY <2>2, <2>3, <2>4, Zenon
<1> HIDE DEF p
<1> QED BY <1>5, <1>6 DEF RowsOf

\* The descriptors of a transfer, and the addresses of its rows.
TransferOK(t) == t.imem \in BOOLEAN /\ {t.dram, t.mem, t.length, t.count, t.skip} \subseteq Nat

\* A row is at least eight bytes long, and whole double words.
LEMMA RowLengthIs ==
  ASSUME NEW t, TransferOK(t)
  PROVE  RowLength(t) \in Nat \ {0} /\ RowLength(t) % 8 = 0
  <1>1. t.length \in Nat
    BY DEF TransferOK
  <1> QED BY <1>1 DEF RowLength

\* Where a row starts in the RSP's memory.
LEMMA SpRowIs ==
  ASSUME NEW t, TransferOK(t), NEW k \in 0 .. t.count + 1
  PROVE  SpRow(t)[k] \in SpCells /\ SpRow(t)[k] % 8 = 0
<1> DEFINE len == RowLength(t)  a == Granule(t.mem)
<1>1. len \in Nat /\ len % 8 = 0 /\ k \in Nat
  BY RowLengthIs DEF TransferOK
<1>2. a \in Nat /\ a % 8 = 0
  BY DEF TransferOK, Granule
<1>3. SpRow(t)[k] = (a + k * len) % SpSize
  BY DEF SpRow
<1> HIDE DEF len, a
<1>4. PICK l \in Nat : len = 8 * l
  BY <1>1
<1>5. PICK s \in Nat : SpSize = 8 * s
  <2>1. SpSize \in Nat /\ SpSize % 8 = 0
    BY SpSizes
  <2> QED BY <2>1
<1>6. PICK b \in Nat : a = 8 * b
  BY <1>2
<1> DEFINE x == a + k * len  r == x % SpSize  y == b + k * l
<1>7. y \in Nat /\ x = 8 * y
  <2>1. k * l \in Nat /\ k * (8 * l) = 8 * (k * l)
    BY <1>1
  <2> QED BY <1>4, <1>6, <2>1
<1>8. SpSize \in Nat \ {0} /\ x \in Int
  BY <1>7, SpSizes
<1> HIDE DEF x, y
<1>9. r \in 0 .. SpSize - 1 /\ \E q \in Int : x = q * SpSize + r
  BY <1>8, DividedBy
<1>10. PICK q \in Int : x = q * SpSize + r
  BY <1>9
<1> HIDE DEF r
<1>11. r = 8 * (y - q * s)
  <2>1. q * s \in Int /\ q * (8 * s) = 8 * (q * s) /\ r \in Int
    BY <1>8, <1>9
  <2> QED BY <1>5, <1>7, <1>10, <2>1
<1>12. y - q * s \in Int
  BY <1>7
<1>13. r % 8 = 0
  BY <1>11, <1>12
<1> QED BY <1>3, <1>9, <1>13 DEF r, x, SpCells

\* Where it starts in RDRAM.
LEMMA DramRowIs ==
  ASSUME NEW t, TransferOK(t), NEW k \in 0 .. t.count + 1
  PROVE  DramRow(t)[k] \in Nat
<1> DEFINE n == t.count + 1  len == RowLength(t)
           next(j, a) == Granule((a + len + (IF j = n THEN 0 ELSE t.skip)) % DramSpan)
           G == [q \in (0 .. n - 1) \X Nat |-> next(q[1] + 1, q[2])]
           Def(p) == p = [j \in 0 .. n |-> IF j = 0 THEN Granule(t.dram) ELSE next(j, p[j - 1])]
           chosen == CHOOSE p : Def(p)
<1>1. len \in Nat /\ n \in Nat /\ t.skip \in Nat /\ DramSpan \in Nat \ {0} /\ t.dram \in Nat
  BY RowLengthIs, RspCoreAssumption DEF TransferOK
<1>2. \A x \in Nat : Granule(x) \in Nat
  BY DEF Granule
<1> HIDE DEF len, n
<1>3. \A j \in 0 .. n, a \in Nat : next(j, a) \in Nat
  <2> SUFFICES ASSUME NEW j \in 0 .. n, NEW a \in Nat PROVE next(j, a) \in Nat
    OBVIOUS
  <2> DEFINE x == a + len + (IF j = n THEN 0 ELSE t.skip)
  <2>1. x \in Nat
    BY <1>1
  <2> HIDE DEF x
  <2>2. x % DramSpan \in Nat
    BY <1>1, <2>1
  <2> QED BY <1>2, <2>2 DEF x
<1> HIDE DEF next
<1>4. \A j \in 0 .. n - 1, a \in Nat : G[<<j, a>>] = next(j + 1, a) /\ j + 1 \in 0 .. n
  BY <1>1
<1> HIDE DEF G
<1>5. PICK p : RowsOf(p, n, Nat, Granule(t.dram), G)
  <2>1. Stays(n, Nat, G)
    BY <1>3, <1>4, Zenon DEF Stays
  <2>2. Granule(t.dram) \in Nat
    BY <1>1, <1>2
  <2> QED BY <1>1, <2>1, <2>2, RowsExist
<1>6. Def(p)
  <2>1. \A j \in 0 .. n : j # 0 => p[j] = next(j, p[j - 1])
    <3> SUFFICES ASSUME NEW j \in 0 .. n, j # 0 PROVE p[j] = next(j, p[j - 1])
      OBVIOUS
    <3>1. j - 1 \in 0 .. n - 1 /\ j - 1 \in 0 .. n /\ (j - 1) + 1 = j
      BY <1>1
    <3>2. p[j - 1] \in Nat
      BY <1>5, <3>1 DEF RowsOf
    <3> QED BY <1>4, <1>5, <3>1, <3>2 DEF RowsOf
  <2> QED BY <1>1, <1>5, <2>1 DEF RowsOf
<1>7. Def(chosen)
  BY <1>6
<1>8. DramRow(t) = chosen
  BY DEF DramRow, next, len, n
<1> HIDE DEF chosen
<1> DEFINE S == {j \in Nat : j <= n => chosen[j] \in Nat}
<1>9. 0 \in S
  BY <1>1, <1>2, <1>7
<1>10. ASSUME NEW j \in Nat, j \in S PROVE j + 1 \in S
  <2> SUFFICES ASSUME j + 1 <= n PROVE chosen[j + 1] \in Nat
    OBVIOUS
  <2>1. j + 1 \in 0 .. n /\ j + 1 # 0 /\ (j + 1) - 1 = j /\ chosen[j] \in Nat
    BY <1>1, <1>10
  <2>2. chosen[j + 1] = next(j + 1, chosen[j])
    BY <1>7, <2>1
  <2> QED BY <1>3, <2>1, <2>2
<1> HIDE DEF S
<1>11. k \in S
  BY <1>9, <1>10, InductionOn, <1>1 DEF n
<1>12. k \in 0 .. n
  BY DEF n
<1> QED BY <1>1, <1>8, <1>11, <1>12 DEF S

\* One row of a DMA into the RSP's memories.
LastOf(len, to, c) == CHOOSE j \in 0 .. len - 1 : (to + j) % SpSize = c /\ j + SpSize >= len
RowBytes(x, old, len, from, to) ==
  [c \in DOMAIN old |-> IF \E j \in 0 .. len - 1 : (to + j) % SpSize = c THEN DramByte(x, from + LastOf(len, to, c)) ELSE old[c]]
RowRead(imem, x, len, from, to) ==
  LET old == IF imem THEN x.imem ELSE x.dmem
      new == RowBytes(x, old, len, from, to)
  IN IF imem THEN NoteImemWritten([x EXCEPT !.imem = new], to, len) ELSE [x EXCEPT !.dmem = new]

\* Each cell a row writes has a last byte that is written to it.
LEMMA LastExists ==
  ASSUME NEW len \in Nat, NEW to \in Nat, NEW c, NEW j \in 0 .. len - 1, (to + j) % SpSize = c
  PROVE  LastOf(len, to, c) \in Nat
<1> DEFINE d == len - 1 - j  r == d % SpSize
<1>1. SpSize \in Nat \ {0} /\ d \in Nat /\ d \in Int
  BY SpSizes
<1> HIDE DEF d
<1>9. r \in 0 .. SpSize - 1 /\ \E q \in Int : d = q * SpSize + r
  BY <1>1, DividedBy
<1>2. PICK q \in Int : d = q * SpSize + r /\ r \in 0 .. SpSize - 1
  BY <1>9
<1> HIDE DEF r
<1>3. q * SpSize <= d /\ d < q * SpSize + SpSize /\ q * SpSize \in Int
  BY <1>1, <1>2
<1>4. q >= 0
  <2>1. q < 0 => (q + 1) * SpSize <= 0 /\ (q + 1) * SpSize = q * SpSize + SpSize
    BY <1>1
  <2> QED BY <1>1, <1>3, <2>1
<1>5. q * SpSize >= 0
  BY <1>1, <1>4
<1> DEFINE i == j + q * SpSize
<1>6. i \in 0 .. len - 1 /\ i + SpSize >= len
  BY <1>1, <1>3, <1>5 DEF d
<1>7. (to + i) % SpSize = c
  <2>1. to + i = (to + j) + q * SpSize
    BY <1>3
  <2> DEFINE a == to + j
  <2>2. a \in Int
    OBVIOUS
  <2> HIDE DEF a
  <2>3. (a + q * SpSize) % SpSize = a % SpSize
    BY <1>1, <2>2, QuotientOfMultiple
  <2> QED BY <2>1, <2>3 DEF a
<1> HIDE DEF i
<1>8. \E k \in 0 .. len - 1 : (to + k) % SpSize = c /\ k + SpSize >= len
  BY <1>6, <1>7
<1>10. LastOf(len, to, c) \in 0 .. len - 1
  BY <1>8 DEF LastOf
<1> QED BY <1>10

\* A row writes bytes.
LEMMA RowBytesType ==
  ASSUME NEW x \in RspMachine, NEW old \in ByteMem(SpCells), NEW len \in Nat, NEW from \in Nat, NEW to \in Nat
  PROVE  RowBytes(x, old, len, from, to) \in ByteMem(SpCells)
<1>1. DOMAIN old = SpCells /\ \A c \in SpCells : old[c] \in Byte
  BY DEF ByteMem
<1>2. \A a \in Nat : DramByte(x, a) \in Byte
  <2> SUFFICES ASSUME NEW a \in Nat PROVE DramByte(x, a) \in Byte
    OBVIOUS
  <2>1. x.ram \in [0 .. RspRam - 1 -> Byte]
    BY DEF RspMachine, ByteMem
  <2>2. 0 \in Byte
    BY ByteIsNat DEF Byte
  <2>3. a < RspRam => a \in 0 .. RspRam - 1
    BY RspCoreAssumption
  <2> QED BY <2>1, <2>2, <2>3 DEF DramByte
<1>3. ASSUME NEW c \in SpCells, \E j \in 0 .. len - 1 : (to + j) % SpSize = c
      PROVE DramByte(x, from + LastOf(len, to, c)) \in Byte
  <2>1. LastOf(len, to, c) \in Nat
    BY <1>3, LastExists
  <2>2. from + LastOf(len, to, c) \in Nat
    BY <2>1
  <2> QED BY <1>2, <2>2
<1> QED BY <1>1, <1>3, Zenon DEF RowBytes, ByteMem

\* A row into IMEM, with the words it touched decoded again.
LEMMA RowNoted ==
  ASSUME NEW x, NEW old \in ByteMem(SpCells), NEW len \in Nat, len % 8 = 0, NEW from, NEW to \in SpCells, to % 8 = 0
  PROVE  Noted(old, RowBytes(x, old, len, from, to), to, len)
<1> SUFFICES ASSUME NEW w \in SpWords, NEW k \in 0 .. 3, RowBytes(x, old, len, from, to)[4 * w + k] # old[4 * w + k]
             PROVE \E j \in 0 .. (len \div 4) - 1 : (to + 4 * j) % SpSize = 4 * w
  BY DEF Noted
<1>1. 4 * w + k \in SpCells /\ w \in Nat /\ to \in Nat /\ 4 * w \in SpCells
  BY SpSizes
<1>2. DOMAIN old = SpCells
  BY DEF ByteMem
<1>3. PICK i \in 0 .. len - 1 : (to + i) % SpSize = 4 * w + k
  BY <1>1, <1>2 DEF RowBytes
<1>4. SpSize \in Nat \ {0} /\ SpSize % 4 = 0
  BY SpSizes
<1> DEFINE a == to + i  r == a % SpSize
<1>5. a \in Int /\ r = 4 * w + k
  BY <1>1, <1>3
<1> HIDE DEF a
<1>6. PICK q \in Int : a = q * SpSize + r
  BY <1>4, <1>5, DividedBy
<1> HIDE DEF r
<1>7. PICK s \in Nat : SpSize = 4 * s
  BY <1>4
<1>8. q * SpSize = 4 * (q * s) /\ q * s \in Int
  BY <1>7
<1>9. PICK b \in Nat : to = 4 * b
  <2>1. to = 4 * (to \div 4) /\ to \div 4 \in Nat
    BY <1>1
  <2> QED BY <2>1
<1>10. to + i = 4 * (q * s) + (4 * w + k)
  BY <1>5, <1>6, <1>8 DEF a
<1> DEFINE j == i \div 4
<1>11. i = 4 * j + k /\ j \in 0 .. (len \div 4) - 1
  <2>1. i \in Nat /\ i = 4 * ((q * s) + w - b) + k
    BY <1>8, <1>9, <1>10, <1>1
  <2> DEFINE z == (q * s) + w - b
  <2>2. z \in Int /\ i = 4 * z + k
    BY <1>1, <1>8, <2>1
  <2> HIDE DEF z
  <2>3. i \div 4 = z
    BY <2>2
  <2> QED BY <2>2, <2>3
<1>12. to + 4 * j = 4 * w + q * SpSize
  BY <1>1, <1>8, <1>10, <1>11
<1>13. (to + 4 * j) % SpSize = 4 * w
  <2>1. (4 * w + q * SpSize) % SpSize = (4 * w) % SpSize
    <3> DEFINE y == 4 * w
    <3>1. y \in Int
      BY <1>1
    <3> HIDE DEF y
    <3>2. (y + q * SpSize) % SpSize = y % SpSize
      BY <1>4, <3>1, QuotientOfMultiple
    <3> QED BY <3>2 DEF y
  <2>2. (4 * w) % SpSize = 4 * w
    <3> DEFINE y == 4 * w
    <3>1. y \in Nat /\ y < SpSize
      BY <1>1, <1>4 DEF SpCells
    <3> HIDE DEF y
    <3>2. y % SpSize = y
      BY <3>1, WithinSp
    <3> QED BY <3>2 DEF y
  <2> QED BY <1>12, <2>1, <2>2
<1> HIDE DEF j
<1> QED BY <1>11, <1>13

DecodedMachines == {x \in RspMachine : DecodedIn(x)}

\* One row of a read keeps the words decoded.
LEMMA RowReadDecodes ==
  ASSUME NEW x \in DecodedMachines, NEW imem \in BOOLEAN, NEW len \in Nat, len % 8 = 0,
         NEW from \in Nat, NEW to \in SpCells, to % 8 = 0
  PROVE  RowRead(imem, x, len, from, to) \in DecodedMachines
<1>0. x \in RspMachine /\ DecodedIn(x) /\ to \in Nat /\ x.imem \in ByteMem(SpCells) /\ x.dmem \in ByteMem(SpCells)
  BY SpSizes DEF DecodedMachines, RspMachine
<1>1. CASE imem
  <2> DEFINE mem == RowBytes(x, x.imem, len, from, to)
             y == NoteImemWritten([x EXCEPT !.imem = mem], to, len)
  <2>1. mem \in ByteMem(SpCells) /\ Noted(x.imem, mem, to, len)
    BY <1>0, RowBytesType, RowNoted
  <2> HIDE DEF mem
  <2>2. y \in RspMachine /\ DecodedIn(y)
    BY <1>0, <2>1, NoteDecodes
  <2> QED BY <1>1, <2>2 DEF RowRead, DecodedMachines, mem
<1>2. CASE ~imem
  <2> DEFINE mem == RowBytes(x, x.dmem, len, from, to)
             y == [x EXCEPT !.dmem = mem]
  <2>1. mem \in ByteMem(SpCells)
    BY <1>0, RowBytesType
  <2> HIDE DEF mem
  <2>2. y \in RspMachine /\ y.imem = x.imem /\ y.insns = x.insns
    BY <1>0, <2>1 DEF RspMachine
  <2> HIDE DEF y
  <2>3. DecodedIn(y)
    <3>1. \A w : ImemWord(y, w) = ImemWord(x, w)
      BY <2>2, Zenon DEF ImemWord
    <3> QED BY <1>0, <2>2, <3>1, Zenon DEF DecodedIn
  <2>4. RowRead(imem, x, len, from, to) = y
    BY <1>2 DEF RowRead, y, mem
  <2> QED BY <2>2, <2>3, <2>4 DEF DecodedMachines
<1> QED BY <1>1, <1>2

\* So do all the rows.
LEMMA DmaReadDecodes ==
  ASSUME NEW m \in DecodedMachines, NEW t, TransferOK(t)
  PROVE  DmaRead(m, t) \in DecodedMachines
<1> DEFINE n == t.count + 1  len == RowLength(t)  imem == t.imem
           next(j, x) == RowRead(imem, x, len, DramRow(t)[j - 1], SpRow(t)[j - 1])
           G == [q \in (0 .. n - 1) \X DecodedMachines |-> next(q[1] + 1, q[2])]
           Def(p) == p = [j \in 0 .. n |-> IF j = 0 THEN m ELSE next(j, p[j - 1])]
           chosen == CHOOSE p : Def(p)
<1>1. len \in Nat /\ len % 8 = 0 /\ n \in Nat /\ imem \in BOOLEAN
  BY RowLengthIs DEF TransferOK
<1>2. \A j \in 0 .. n : DramRow(t)[j] \in Nat /\ SpRow(t)[j] \in SpCells /\ SpRow(t)[j] % 8 = 0
  BY DramRowIs, SpRowIs
<1>3. \A j \in 0 .. n : j # 0 => \A x \in DecodedMachines : next(j, x) \in DecodedMachines
  <2> SUFFICES ASSUME NEW j \in 0 .. n, j # 0, NEW x \in DecodedMachines PROVE next(j, x) \in DecodedMachines
    OBVIOUS
  <2>1. j - 1 \in 0 .. n
    BY <1>1
  <2> DEFINE from == DramRow(t)[j - 1]  to == SpRow(t)[j - 1]
  <2>2. from \in Nat /\ to \in SpCells /\ to % 8 = 0
    BY <1>2, <2>1
  <2> HIDE DEF from, to, len, imem
  <2>3. RowRead(imem, x, len, from, to) \in DecodedMachines
    BY <1>1, <2>2, RowReadDecodes
  <2> QED BY <2>3 DEF from, to
<1>4. DmaRead(m, t) = chosen[n]
  BY Zenon DEF DmaRead, RowRead, RowBytes, LastOf
<1> HIDE DEF len, n, imem, next
<1>5. \A j \in 0 .. n - 1, x \in DecodedMachines : G[<<j, x>>] = next(j + 1, x) /\ j + 1 \in 0 .. n /\ j + 1 # 0
  BY <1>1
<1> HIDE DEF G
<1>6. PICK p : RowsOf(p, n, DecodedMachines, m, G)
  <2>1. Stays(n, DecodedMachines, G)
    BY <1>3, <1>5, Zenon DEF Stays
  <2> QED BY <1>1, <2>1, RowsExist
<1>7. Def(p)
  <2>1. \A j \in 0 .. n : j # 0 => p[j] = next(j, p[j - 1])
    <3> SUFFICES ASSUME NEW j \in 0 .. n, j # 0 PROVE p[j] = next(j, p[j - 1])
      OBVIOUS
    <3>1. j - 1 \in 0 .. n - 1 /\ j - 1 \in 0 .. n /\ (j - 1) + 1 = j
      BY <1>1
    <3>2. p[j - 1] \in DecodedMachines
      BY <1>6, <3>1 DEF RowsOf
    <3> QED BY <1>5, <1>6, <3>1, <3>2 DEF RowsOf
  <2> QED BY <1>1, <1>6, <2>1 DEF RowsOf
<1>8. Def(chosen)
  BY <1>7
<1> HIDE DEF chosen
<1> DEFINE S == {j \in Nat : j <= n => chosen[j] \in DecodedMachines}
<1>9. 0 \in S
  BY <1>1, <1>8
<1>10. ASSUME NEW j \in Nat, j \in S PROVE j + 1 \in S
  <2> SUFFICES ASSUME j + 1 <= n PROVE chosen[j + 1] \in DecodedMachines
    OBVIOUS
  <2>1. j + 1 \in 0 .. n /\ j + 1 # 0 /\ (j + 1) - 1 = j /\ chosen[j] \in DecodedMachines
    BY <1>1, <1>10
  <2>2. chosen[j + 1] = next(j + 1, chosen[j])
    BY <1>8, <2>1
  <2> QED BY <1>3, <2>1, <2>2
<1> HIDE DEF S
<1>11. n \in S
  BY <1>1, <1>9, <1>10, InductionOn
<1> QED BY <1>1, <1>4, <1>11 DEF S

\* A transfer out of the memories changes neither.
LEMMA DmaWriteDecodes ==
  ASSUME NEW m \in DecodedMachines, NEW t, TransferOK(t)
  PROVE  DmaWrite(m, t) \in DecodedMachines
<1> DEFINE n == t.count + 1  len == RowLength(t)  mem == IF t.imem THEN m.imem ELSE m.dmem
           Rams == ByteMem(0 .. RspRam - 1)
           put(j, ram) == LET to == DramRow(t)[j - 1]
                          IN [c \in DOMAIN m.ram |-> IF c \in to .. to + len - 1 THEN mem[(SpRow(t)[j - 1] + c - to) % SpSize] ELSE ram[c]]
           G == [q \in (0 .. n - 1) \X Rams |-> put(q[1] + 1, q[2])]
           Def(p) == p = [j \in 0 .. n |-> IF j = 0 THEN m.ram
                                           ELSE LET to == DramRow(t)[j - 1]
                                                IN [c \in DOMAIN m.ram |-> IF c \in to .. to + len - 1 THEN mem[(SpRow(t)[j - 1] + c - to) % SpSize] ELSE p[j - 1][c]]]
           chosen == CHOOSE p : Def(p)
<1>1. len \in Nat /\ n \in Nat /\ m \in RspMachine /\ DecodedIn(m)
  BY RowLengthIs DEF TransferOK, DecodedMachines
<1>2. mem \in [SpCells -> Byte] /\ m.ram \in Rams /\ DOMAIN m.ram = 0 .. RspRam - 1
  BY <1>1 DEF RspMachine, ByteMem
<1>3. \A j \in 0 .. n : DramRow(t)[j] \in Nat /\ SpRow(t)[j] \in SpCells
  BY DramRowIs, SpRowIs
<1>4. DmaWrite(m, t) = [m EXCEPT !.ram = chosen[n]]
  BY Zenon DEF DmaWrite
<1> HIDE DEF len, n, mem
<1>5. \A j \in 0 .. n : j # 0 => \A ram \in Rams : put(j, ram) \in Rams
  <2> SUFFICES ASSUME NEW j \in 0 .. n, j # 0, NEW ram \in Rams PROVE put(j, ram) \in Rams
    OBVIOUS
  <2>1. j - 1 \in 0 .. n
    BY <1>1
  <2> DEFINE to == DramRow(t)[j - 1]  at == SpRow(t)[j - 1]
  <2>2. to \in Nat /\ at \in Nat
    BY <1>3, <2>1, SpSizes
  <2>3. ASSUME NEW c \in 0 .. RspRam - 1 PROVE mem[(at + c - to) % SpSize] \in Byte /\ ram[c] \in Byte
    <3>1. ram[c] \in Byte
      BY DEF ByteMem
    <3> DEFINE x == at + c - to
    <3> HIDE DEF to, at
    <3>2. x \in Int /\ SpSize \in Nat \ {0}
      BY <2>2, SpSizes
    <3> HIDE DEF x
    <3>3. x % SpSize \in SpCells
      BY <3>2 DEF SpCells
    <3>4. mem[x % SpSize] \in Byte
      BY <1>2, <3>3
    <3> QED BY <3>1, <3>4 DEF x, to, at
  <2> HIDE DEF Rams
  <2>4. put(j, ram) = [c \in 0 .. RspRam - 1 |-> IF c \in to .. to + len - 1 THEN mem[(at + c - to) % SpSize] ELSE ram[c]]
    BY <1>2
  <2> HIDE DEF put, to, at
  <2>5. put(j, ram) \in [0 .. RspRam - 1 -> Byte]
    BY <2>3, <2>4
  <2> QED BY <2>5 DEF Rams, ByteMem
<1>6. \A j \in 0 .. n - 1, ram \in Rams : G[<<j, ram>>] = put(j + 1, ram) /\ j + 1 \in 0 .. n /\ j + 1 # 0
  <2> HIDE DEF put, Rams
  <2> QED BY <1>1
<1>7. \A p : Def(p) <=> p = [j \in 0 .. n |-> IF j = 0 THEN m.ram ELSE put(j, p[j - 1])]
  OBVIOUS
<1> HIDE DEF G, put, Rams, Def
<1>8. PICK p : RowsOf(p, n, Rams, m.ram, G)
  <2>1. Stays(n, Rams, G)
    BY <1>5, <1>6, Zenon DEF Stays
  <2>2. m.ram \in Rams
    BY <1>2
  <2> DEFINE base == m.ram
  <2> HIDE DEF base
  <2>3. base \in Rams
    BY <2>2 DEF base
  <2>4. \E q : RowsOf(q, n, Rams, base, G)
    BY <1>1, <2>1, <2>3, RowsExist
  <2> QED BY <2>4 DEF base
<1>9. Def(p)
  <2>1. \A j \in 0 .. n : j # 0 => p[j] = put(j, p[j - 1])
    <3> SUFFICES ASSUME NEW j \in 0 .. n, j # 0 PROVE p[j] = put(j, p[j - 1])
      OBVIOUS
    <3>1. j - 1 \in 0 .. n - 1 /\ j - 1 \in 0 .. n /\ (j - 1) + 1 = j
      BY <1>1
    <3>2. p[j - 1] \in Rams
      BY <1>8, <3>1 DEF RowsOf
    <3> QED BY <1>6, <1>8, <3>1, <3>2 DEF RowsOf
  <2>2. p = [j \in 0 .. n |-> IF j = 0 THEN m.ram ELSE put(j, p[j - 1])]
    BY <1>1, <1>8, <2>1 DEF RowsOf
  <2> QED BY <1>7, <2>2, Zenon
<1>10. chosen = [j \in 0 .. n |-> IF j = 0 THEN m.ram ELSE put(j, chosen[j - 1])]
  <2>1. Def(chosen)
    BY <1>9, Zenon
  <2> HIDE DEF chosen
  <2> QED BY <1>7, <2>1, Zenon
<1> HIDE DEF chosen
<1> DEFINE S == {j \in Nat : j <= n => chosen[j] \in Rams}
<1>11. 0 \in S
  BY <1>1, <1>2, <1>10
<1>12. ASSUME NEW j \in Nat, j \in S PROVE j + 1 \in S
  <2> SUFFICES ASSUME j + 1 <= n PROVE chosen[j + 1] \in Rams
    OBVIOUS
  <2>1. j + 1 \in 0 .. n /\ j + 1 # 0 /\ (j + 1) - 1 = j /\ chosen[j] \in Rams
    BY <1>1, <1>12
  <2>2. chosen[j + 1] = put(j + 1, chosen[j])
    BY <1>10, <2>1
  <2> QED BY <1>5, <2>1, <2>2
<1> HIDE DEF S
<1>13. n \in S
  BY <1>1, <1>11, <1>12, InductionOn
<1>14. chosen[n] \in Rams
  BY <1>1, <1>13 DEF S
<1> DEFINE ram == chosen[n]  y == [m EXCEPT !.ram = ram]
<1> HIDE DEF ram
<1>15. y \in RspMachine /\ y.imem = m.imem /\ y.insns = m.insns
  BY <1>1, <1>14 DEF RspMachine, ram, Rams
<1> HIDE DEF y
<1>16. DecodedIn(y)
  <2>1. \A w : ImemWord(y, w) = ImemWord(m, w)
    BY <1>15, Zenon DEF ImemWord
  <2> QED BY <1>1, <1>15, <2>1, Zenon DEF DecodedIn
<1> QED BY <1>4, <1>15, <1>16 DEF DecodedMachines, y, ram

(***************************************************************************)
(* Instructions leave IMEM alone                                           *)
(***************************************************************************)

\* A machine with the same IMEM and the same predecoded instructions.
SameImem(x, m) == x \in RspMachine /\ x.imem = m.imem /\ x.insns = m.insns

\* Program counters are in IMEM.
LEMMA InImemType == \A a \in Int : InImem(a) \in SpCells /\ InImem(a) \in Int
<1> SUFFICES ASSUME NEW a \in Int PROVE InImem(a) \in SpCells /\ InImem(a) \in Int
  OBVIOUS
<1> DEFINE x == a - (a % 4)
<1>1. x \in Int /\ SpSize \in Nat \ {0}
  BY SpSizes
<1> HIDE DEF x
<1>2. x % SpSize \in 0 .. SpSize - 1 /\ x % SpSize \in Int
  BY <1>1
<1> QED BY <1>2 DEF InImem, SpCells, x

\* The low word of a number is a word.
LEMMA WordLow == \A v \in Int : Low(v, 4) \in RspWords
<1> SUFFICES ASSUME NEW v \in Int PROVE Low(v, 4) \in RspWords
  OBVIOUS
<1>1. 4 \in Nat \ {0}
  OBVIOUS
<1> QED BY <1>1, LowType DEF RspWords

\* Writing a register.
LEMMA SetRspRegType ==
  ASSUME NEW m \in RspMachine, NEW r \in 0 .. LastReg, NEW v \in Int
  PROVE  SameImem(SetRspReg(m, r, v), m)
<1> DEFINE x == Low(v, 4)
<1>1. x \in RspWords
  BY WordLow
<1> HIDE DEF x
<1>2. CASE r = 0
  BY <1>2 DEF SetRspReg, SameImem
<1>3. CASE r # 0
  <2>1. r \in 1 .. LastReg
    BY <1>3, IsaAssumption
  <2>2. SetRspReg(m, r, v) = [m EXCEPT !.gpr[r] = x]
    BY <1>3 DEF SetRspReg, x
  <2>3. [m EXCEPT !.gpr[r] = x] \in RspMachine
    BY <1>1, <2>1 DEF RspMachine
  <2>4. [m EXCEPT !.gpr[r] = x].imem = m.imem /\ [m EXCEPT !.gpr[r] = x].insns = m.insns
    BY DEF RspMachine
  <2> QED BY <2>2, <2>3, <2>4 DEF SameImem
<1> QED BY <1>2, <1>3

\* Reading one.
LEMMA RspRegType ==
  ASSUME NEW m \in RspMachine, NEW r \in 0 .. LastReg
  PROVE  RspReg(m, r) \in RspWords /\ RspReg(m, r) \in Nat
<1>1. 0 \in RspWords /\ \A v \in RspWords : v \in Nat
  <2>1. B(4) \in Nat \ {0}
    BY UnitAt
  <2> QED BY <2>1 DEF RspWords
<1>2. r # 0 => r \in 1 .. LastReg
  BY IsaAssumption
<1> QED BY <1>1, <1>2 DEF RspReg, RspMachine

\* Jumping.
LEMMA RspJumpType ==
  ASSUME NEW m \in RspMachine, NEW to \in Int
  PROVE  SameImem(RspJump(m, to), m)
<1> DEFINE x == InImem(to)
<1>1. x \in SpCells
  BY InImemType
<1> HIDE DEF x
<1>2. RspJump(m, to) = [m EXCEPT !.next = x]
  BY DEF RspJump, x
<1> QED BY <1>1, <1>2 DEF RspMachine, SameImem

\* Linking.
LEMMA RspLinkType ==
  ASSUME NEW m \in RspMachine, NEW r \in 0 .. LastReg
  PROVE  SameImem(RspLink(m, r), m)
<1>1. m.pc + 4 \in Int
  BY SpSizes DEF RspMachine
<1>2. InImem(m.pc + 4) \in Int
  BY <1>1, InImemType
<1> QED BY <1>2, SetRspRegType DEF RspLink

\* Storing into DMEM.
LEMMA DmemStoreType ==
  ASSUME NEW m \in RspMachine, NEW a \in Int, NEW n \in Widths, NEW v \in Int
  PROVE  SameImem(DmemStore(m, a, n, v), m)
<1> DEFINE y(c) == IF (c - a) % SpSize < n THEN (v \div B(n - 1 - ((c - a) % SpSize))) % B(1) ELSE m.dmem[c]
           mem == [c \in SpCells |-> y(c)]
<1>1. ASSUME NEW c \in SpCells PROVE y(c) \in Byte
  <2> DEFINE d == (c - a) % SpSize  k == n - 1 - d
  <2>1. d \in Nat /\ m.dmem[c] \in Byte
    <3>1. c - a \in Int /\ SpSize \in Nat \ {0}
      BY SpSizes
    <3>2. (c - a) % SpSize \in 0 .. SpSize - 1
      BY <3>1, DividedBy
    <3> QED BY <3>2 DEF RspMachine, ByteMem
  <2>2. n \in Nat
    BY DEF Widths
  <2> HIDE DEF d
  <2>3. d < n => k \in Nat
    BY <2>1, <2>2
  <2> HIDE DEF k
  <2>4. ASSUME k \in Nat PROVE (v \div B(k)) % B(1) \in Byte
    <3>1. B(k) \in Nat \ {0} /\ B(1) \in Nat \ {0}
      BY <2>4, UnitAt
    <3>2. v \div B(k) \in Int
      BY <3>1
    <3>3. (v \div B(k)) % B(1) \in 0 .. B(1) - 1
      BY <3>1, <3>2
    <3> QED BY <3>3 DEF Byte
  <2> QED BY <2>1, <2>3, <2>4 DEF k, d
<1> HIDE DEF y
<1>2. mem \in ByteMem(SpCells)
  BY <1>1 DEF ByteMem
<1>3. DmemStore(m, a, n, v) = [m EXCEPT !.dmem = mem]
  <2>1. DOMAIN m.dmem = SpCells
    BY DEF RspMachine, ByteMem
  <2> QED BY <2>1, Zenon DEF DmemStore, y
<1> HIDE DEF mem
<1> QED BY <1>2, <1>3 DEF RspMachine, SameImem

\* Loading from DMEM.
LEMMA DmemLoadType ==
  ASSUME NEW m \in RspMachine, NEW a \in Int, NEW n \in Widths
  PROVE  DmemLoad(m, a, n) \in Values
<1> DEFINE f == [k \in 0 .. n - 1 |-> m.dmem[(a + k) % SpSize]]
<1>0. n \in Nat /\ n \in 1 .. 8
  BY DEF Widths
<1>1. AreBytes(n, f)
  <2> SUFFICES ASSUME NEW k \in 0 .. n - 1 PROVE m.dmem[(a + k) % SpSize] \in Byte
    BY DEF AreBytes
  <2>1. a + k \in Int /\ SpSize \in Nat \ {0}
    BY <1>0, SpSizes
  <2>2. (a + k) % SpSize \in 0 .. SpSize - 1
    BY <2>1, DividedBy
  <2> QED BY <2>2 DEF RspMachine, ByteMem, SpCells
<1> HIDE DEF f
<1>2. Joined(n, f) \in 0 .. B(n) - 1
  BY <1>0, <1>1, JoinedType
<1> QED BY <1>0, <1>2, ValuesAre DEF DmemLoad, f

\* Bitwise operations on words return words.
LEMMA WordBitsRange ==
  ASSUME NEW a \in RspWords, NEW b \in RspWords
  PROVE  /\ a & b \in RspWords /\ a | b \in RspWords /\ a ^^ b \in RspWords
         /\ a \in Nat /\ \A x \in RspWords : x \in Nat
<1>1. 4 * ByteBits \in Nat /\ RspWords = 0 .. Pow2[4 * ByteBits] - 1
  BY IsaAssumption DEF RspWords, B
<1>2. a & b \in RspWords /\ a | b \in RspWords /\ a ^^ b \in RspWords
  BY <1>1, BitTypes
<1>3. \A x \in RspWords : x \in Nat
  <2>1. B(4) \in Nat
    BY UnitAt
  <2> QED BY <2>1 DEF RspWords
<1> QED BY <1>2, <1>3

\* Immediates are words.
LEMMA ImmIsWord == \A imm \in 0 .. B(2) - 1 : imm \in RspWords
  BY UnitOrder DEF RspWords

\* Shifts return numbers.
LEMMA RspShiftedType ==
  ASSUME NEW op, NEW v \in RspWords, NEW s \in Nat
  PROVE  RspShifted(op, v, s) \in Int
<1>1. v \in Int /\ Sign(v, 4) \in Int
  <2>1. v \in Int /\ 4 \in Nat \ {0}
    BY WordBitsRange
  <2> QED BY <2>1, Parts4
<1>2. Pow2[s] \in Nat \ {0}
  BY Pow2Type
<1> DEFINE p == Pow2[s]  x == Sign(v, 4)
<1> HIDE DEF p, x
<1>3. p \in Nat \ {0} /\ x \in Int
  BY <1>1, <1>2 DEF p, x
<1>4. v * p \in Int /\ v \div p \in Int /\ x \div p \in Int
  BY <1>1, <1>3
<1> QED BY <1>4 DEF RspShifted, p, x

\* Register operations return numbers.
LEMMA RspPlainType ==
  ASSUME NEW i, Encoded(i), NEW a \in RspWords, NEW b \in RspWords
  PROVE  RspPlainOp(i, a, b) \in Int
<1>1. a \in Int /\ b \in Int /\ a & b \in Int /\ a | b \in Int /\ a ^^ b \in Int
  BY WordBitsRange
<1>2. i.sa \in Nat /\ a % WordBits \in Nat
  <2>1. WordBits \in Nat \ {0}
    BY IsaAssumption DEF WordBits
  <2> QED BY <1>1, <2>1 DEF Encoded
<1> DEFINE s == IF i.op \in ShiftOps THEN i.sa ELSE a % WordBits
           x == RspShifted(i.op, b, s)  c == a | b
<1>3. x \in Int
  <2>1. s \in Nat
    BY <1>2
  <2> HIDE DEF s
  <2> QED BY <2>1, RspShiftedType
<1>4. B(4) - 1 - c \in Int /\ a + b \in Int /\ a - b \in Int
  <2>1. B(4) \in Int
    BY UnitAt
  <2> QED BY <1>1, <2>1
<1>5. One(Sign(a, 4) < Sign(b, 4)) \in Int /\ One(a < b) \in Int
  BY DEF One
<1> HIDE DEF s, x
<1> QED BY <1>1, <1>3, <1>4, <1>5 DEF RspPlainOp, s, x

\* Immediate operations return numbers.
LEMMA RspImmType ==
  ASSUME NEW i, i.imm \in 0 .. B(2) - 1, NEW a \in RspWords
  PROVE  RspImmOp(i, a) \in Int /\ Sign(i.imm, 2) \in Int
<1>1. a \in Int /\ a & i.imm \in Int /\ a | i.imm \in Int /\ a ^^ i.imm \in Int
  <2>1. i.imm \in RspWords
    BY ImmIsWord
  <2> QED BY <2>1, WordBitsRange
<1> DEFINE s == Sign(i.imm, 2)
<1>2. s \in Int /\ i.imm \in Int /\ B(2) \in Int
  <2> DEFINE x == i.imm
  <2>1. x \in Int /\ 2 \in Nat \ {0} /\ B(2) \in Nat
    BY UnitAt
  <2> HIDE DEF x
  <2>2. Sign(x, 2) \in Int
    BY <2>1, Parts4
  <2> QED BY <2>1, <2>2 DEF x
<1> HIDE DEF s
<1>3. a + s \in Int /\ i.imm * B(2) \in Int
  BY <1>1, <1>2
<1>4. \A p : One(p) \in Int
  BY DEF One
<1> QED BY <1>1, <1>2, <1>3, <1>4 DEF RspImmOp, s

\* Two steps that leave IMEM alone.
LEMMA SameImemTwice ==
  ASSUME NEW x, NEW y, NEW m, SameImem(x, m), SameImem(y, x)
  PROVE  SameImem(y, m)
  BY DEF SameImem

\* Branches leave IMEM alone.
LEMMA RspBranchType ==
  ASSUME NEW m \in RspMachine, NEW i, Encoded(i), i.imm \in 0 .. B(2) - 1
  PROVE  SameImem(RspBranch(m, i), m)
<1> DEFINE x == IF i.op \in {"BLTZAL", "BGEZAL"} THEN RspLink(m, RA) ELSE m
           to == m.pc + 4 * Sign(i.imm, 2)
<1>1. SameImem(x, m)
  <2>1. RA \in 0 .. LastReg
    BY IsaAssumption DEF RA
  <2>2. SameImem(m, m)
    BY DEF SameImem
  <2> QED BY <2>1, <2>2, RspLinkType
<1>2. to \in Int
  <2>1. m.pc \in Int
    BY SpSizes DEF RspMachine
  <2>2. i.imm \in Int /\ 2 \in Nat \ {0}
    BY UnitAt
  <2>3. Sign(i.imm, 2) \in Int
    BY <2>2, Parts4
  <2> QED BY <2>1, <2>3
<1> HIDE DEF x, to
<1>3. SameImem(RspJump(x, to), x)
  <2>1. x \in RspMachine
    BY <1>1 DEF SameImem
  <2> QED BY <1>2, <2>1, RspJumpType
<1>4. SameImem(RspJump(x, to), m)
  BY <1>1, <1>3, SameImemTwice
<1> QED BY <1>1, <1>4 DEF RspBranch, x, to

\* So do accesses to DMEM.
LEMMA RspMemoryType ==
  ASSUME NEW m \in RspMachine, NEW i, Encoded(i), i.imm \in 0 .. B(2) - 1
  PROVE  SameImem(RspMemory(m, i), m)
<1> DEFINE a == Low(RspReg(m, i.rs) + Sign(i.imm, 2), 4)
           n == Bytes(i.op)
           v == Low(RspReg(m, i.rt), n)
           w == Extend(i.op, DmemLoad(m, a, n))
<1>1. n \in Widths /\ n \in Nat \ {0}
  BY BytesType DEF Widths
<1>2. a \in Int
  <2> DEFINE x == RspReg(m, i.rs) + Sign(i.imm, 2)
  <2>1. i.imm \in Int /\ 2 \in Nat \ {0} /\ 4 \in Nat \ {0}
    BY UnitAt
  <2>2. RspReg(m, i.rs) \in Nat /\ Sign(i.imm, 2) \in Int
    BY <2>1, RspRegType, Parts4 DEF Encoded
  <2>3. x \in Int
    BY <2>2
  <2> HIDE DEF x
  <2>4. Low(x, 4) \in Nat
    BY <2>1, <2>3, Parts4
  <2> QED BY <2>4 DEF x
<1> HIDE DEF n, a
<1>3. v \in Int
  <2> DEFINE x == RspReg(m, i.rt)
  <2>1. x \in Int
    BY RspRegType DEF Encoded
  <2> HIDE DEF x
  <2>2. Low(x, n) \in Nat
    BY <1>1, <2>1, Parts4
  <2> QED BY <2>2 DEF x
<1>4. w \in Int
  <2>1. DmemLoad(m, a, n) \in Values
    BY <1>1, <1>2, DmemLoadType
  <2>2. w \in Values
    BY <2>1, ExtendType
  <2> QED BY <2>2, ValueInt
<1> HIDE DEF v, w
<1>5. SameImem(DmemStore(m, a, n, v), m) /\ SameImem(SetRspReg(m, i.rt, w), m)
  BY <1>1, <1>2, <1>3, <1>4, DmemStoreType, SetRspRegType DEF Encoded
<1> QED BY <1>5, Zenon DEF RspMemory, a, n, v, w

\* What the instructions of the RSP do, group by group.
LEMMA RspExecuteIs ==
  ASSUME NEW m, NEW i
  PROVE  /\ i.op \in RspPlainOps => RspExecute(m, i) = SetRspReg(m, i.rd, RspPlainOp(i, RspReg(m, i.rs), RspReg(m, i.rt)))
         /\ i.op \in RspImmOps => RspExecute(m, i) = SetRspReg(m, i.rt, RspImmOp(i, RspReg(m, i.rs))) /\ i.op \notin {"J", "JAL"}
         /\ i.op \in RspBranchOps => RspExecute(m, i) = RspBranch(m, i) /\ i.op \notin {"J", "JAL"}
         /\ i.op \in RspMemOps => RspExecute(m, i) = RspMemory(m, i) /\ i.op \notin {"J", "JAL"}
         /\ i.op = "J" => RspExecute(m, i) = RspJump(m, 4 * i.imm)
         /\ i.op = "JAL" => RspExecute(m, i) = RspJump(RspLink(m, RA), 4 * i.imm)
         /\ i.op = "JR" => RspExecute(m, i) = RspJump(m, RspReg(m, i.rs))
         /\ i.op = "JALR" => RspExecute(m, i) = RspLink(RspJump(m, RspReg(m, i.rs)), i.rd)
         /\ i.op \notin RspPlainOps \cup RspImmOps \cup RspBranchOps \cup RspMemOps \cup {"J", "JAL", "JR", "JALR"} => RspExecute(m, i) = m
<1> USE DEF RspExecute, RspPlainOps, RspImmOps, RspBranchOps, RspZeroOps, RspMemOps, LogicOps, LessOps, ShiftOps, ShiftVOps
<1>1. i.op \in RspPlainOps => RspExecute(m, i) = SetRspReg(m, i.rd, RspPlainOp(i, RspReg(m, i.rs), RspReg(m, i.rt)))
  OBVIOUS
<1>2. i.op \in RspImmOps => RspExecute(m, i) = SetRspReg(m, i.rt, RspImmOp(i, RspReg(m, i.rs)))
  OBVIOUS
<1>3. i.op \in RspBranchOps => RspExecute(m, i) = RspBranch(m, i)
  OBVIOUS
<1>4. i.op \in RspMemOps => RspExecute(m, i) = RspMemory(m, i)
  OBVIOUS
<1>5. /\ i.op = "J" => RspExecute(m, i) = RspJump(m, 4 * i.imm)
      /\ i.op = "JAL" => RspExecute(m, i) = RspJump(RspLink(m, RA), 4 * i.imm)
  OBVIOUS
<1>6. /\ i.op = "JR" => RspExecute(m, i) = RspJump(m, RspReg(m, i.rs))
      /\ i.op = "JALR" => RspExecute(m, i) = RspLink(RspJump(m, RspReg(m, i.rs)), i.rd)
  OBVIOUS
<1>7. i.op \notin RspPlainOps \cup RspImmOps \cup RspBranchOps \cup RspMemOps \cup {"J", "JAL", "JR", "JALR"} => RspExecute(m, i) = m
  OBVIOUS
<1>8. i.op \in RspImmOps \cup RspBranchOps \cup RspMemOps => i.op \notin {"J", "JAL"}
  OBVIOUS
<1> HIDE DEF RspExecute, RspPlainOps, RspImmOps, RspBranchOps, RspZeroOps, RspMemOps, LogicOps, LessOps, ShiftOps, ShiftVOps
<1> DEFINE x == RspExecute(m, i)
<1> QED BY <1>1, <1>2, <1>3, <1>4, <1>5, <1>6, <1>7, <1>8, Zenon

\* Every instruction leaves IMEM alone.
LEMMA RspExecuteType ==
  ASSUME NEW m \in RspMachine, NEW i, Encoded(i)
  PROVE  SameImem(RspExecute(m, i), m)
<1> DEFINE a == RspReg(m, i.rs)  b == RspReg(m, i.rt)  x == RspExecute(m, i)
<1>1. a \in RspWords /\ b \in RspWords /\ a \in Int /\ i.rd \in 0 .. LastReg /\ i.rt \in 0 .. LastReg /\ RA \in 0 .. LastReg /\ i.imm \in Nat
  BY RspRegType, IsaAssumption DEF Encoded, RA
<1>2. CASE i.op \in RspPlainOps
  <2> DEFINE v == RspPlainOp(i, a, b)
  <2>1. v \in Int
    <3> HIDE DEF a, b
    <3> QED BY <1>1, RspPlainType
  <2>2. x = SetRspReg(m, i.rd, v)
    BY <1>2, RspExecuteIs
  <2> HIDE DEF v, x
  <2> QED BY <1>1, <2>1, <2>2, SetRspRegType DEF x
<1>3. CASE i.op \in RspImmOps
  <2> DEFINE v == RspImmOp(i, a)
  <2>1. i.imm \in 0 .. B(2) - 1 /\ x = SetRspReg(m, i.rt, v)
    BY <1>3, RspExecuteIs DEF Encoded
  <2>2. v \in Int
    <3> HIDE DEF a
    <3> QED BY <1>1, <2>1, RspImmType
  <2> HIDE DEF v, x
  <2> QED BY <1>1, <2>1, <2>2, SetRspRegType DEF x
<1>4. CASE i.op \in RspBranchOps
  <2>1. i.imm \in 0 .. B(2) - 1 /\ x = RspBranch(m, i)
    BY <1>4, RspExecuteIs DEF Encoded
  <2> HIDE DEF x
  <2> QED BY <2>1, RspBranchType DEF x
<1>5. CASE i.op \in RspMemOps
  <2>1. i.imm \in 0 .. B(2) - 1 /\ x = RspMemory(m, i)
    BY <1>5, RspExecuteIs DEF Encoded
  <2> HIDE DEF x
  <2> QED BY <2>1, RspMemoryType DEF x
<1>6. CASE i.op \notin RspPlainOps \cup RspImmOps \cup RspBranchOps \cup RspMemOps
  <2> DEFINE to == 4 * i.imm
  <2>1. \/ x = RspJump(m, to)
        \/ x = RspJump(RspLink(m, RA), to)
        \/ x = RspJump(m, a)
        \/ x = RspLink(RspJump(m, a), i.rd)
        \/ x = m
    BY <1>6, RspExecuteIs
  <2>2. SameImem(m, m)
    BY DEF SameImem
  <2>3. to \in Int
    BY <1>1
  <2> HIDE DEF to, a, x
  <2>4. SameImem(RspJump(m, to), m) /\ SameImem(RspJump(m, a), m) /\ SameImem(RspLink(m, RA), m)
    BY <1>1, <2>3, RspJumpType, RspLinkType
  <2>5. RspLink(m, RA) \in RspMachine /\ RspJump(m, a) \in RspMachine
    BY <2>4 DEF SameImem
  <2>6. SameImem(RspJump(RspLink(m, RA), to), RspLink(m, RA)) /\ SameImem(RspLink(RspJump(m, a), i.rd), RspJump(m, a))
    BY <1>1, <2>3, <2>5, RspJumpType, RspLinkType
  <2>7. SameImem(RspJump(RspLink(m, RA), to), m) /\ SameImem(RspLink(RspJump(m, a), i.rd), m)
    BY <2>4, <2>6, SameImemTwice
  <2> QED BY <2>1, <2>2, <2>4, <2>7 DEF x
<1> QED BY <1>2, <1>3, <1>4, <1>5, <1>6

(***************************************************************************)
(* The specification                                                       *)
(***************************************************************************)

\* What leaves IMEM alone leaves its words decoded.
LEMMA SameImemDecoded ==
  ASSUME NEW m, DecodedIn(m), NEW x, SameImem(x, m)
  PROVE  x \in DecodedMachines
<1>1. \A w : ImemWord(x, w) = ImemWord(m, w)
  BY Zenon DEF ImemWord, SameImem
<1>2. DecodedIn(x)
  BY <1>1, Zenon DEF DecodedIn, SameImem
<1> QED BY <1>2 DEF DecodedMachines, SameImem

RspInv == rsp \in DecodedMachines

\* Four zero bytes are the word zero.
LEMMA ZeroWord == ASSUME NEW m, NEW a, \A k \in 0 .. 3 : m.imem[a + k] = 0
                  PROVE  ImemWord(m, a) = 0
<1> DEFINE f == [k \in 0 .. 3 |-> m.imem[a + k]]
<1>1. \A k \in 0 .. 3 : f[k] = 0
  OBVIOUS
<1>2. AreBytes(4, f)
  BY <1>1, ByteIsNat DEF AreBytes, Byte
<1> HIDE DEF f
<1>3. Joined(4, f) = ((f[0] * B(1) + f[1]) * B(1) + f[2]) * B(1) + f[3]
  BY <1>2, JoinedFew
<1>4. f[0] = 0 /\ f[1] = 0 /\ f[2] = 0 /\ f[3] = 0 /\ B(1) \in Nat
  BY <1>1, ByteIsNat
<1>5. Joined(4, f) = 0
  BY <1>3, <1>4
<1> QED BY <1>5 DEF ImemWord, f

\* Empty memories are decoded.
LEMMA RspInitDecodes == RspCoreInit => RspInv
<1> SUFFICES ASSUME RspCoreInit PROVE rsp \in DecodedMachines
  BY DEF RspInv
<1>1. PICK a \in RspRegister, b \in RspRegister, image \in RspImage :
        rsp = [gpr |-> [r \in 1 .. LastReg |-> CASE r = 1 -> a [] r = 2 -> b [] OTHER -> 0], pc |-> 0, next |-> 4, ram |-> image,
               dmem |-> [c \in 0 .. SpSize - 1 |-> 0], imem |-> [c \in 0 .. SpSize - 1 |-> 0],
               insns |-> [w \in 0 .. (SpSize \div 4) - 1 |-> RspDecode(0)]]
  BY DEF RspCoreInit
<1>2. a \in RspWords /\ b \in RspWords /\ 0 \in RspWords
  <2>1. B(4) \in Nat \ {0}
    BY UnitAt
  <2> QED BY <2>1, RspCoreAssumption DEF RspWords
<1>3. rsp.gpr \in [1 .. LastReg -> RspWords]
  BY <1>1, <1>2
<1>4. 0 \in SpCells /\ 4 \in SpCells
  BY SpSizes DEF SpCells
<1>5. rsp.ram \in ByteMem(0 .. RspRam - 1)
  BY <1>1, RspCoreAssumption DEF ByteMem, Byte
<1>6. 0 \in Byte
  BY ByteIsNat DEF Byte
<1>7. rsp.dmem \in ByteMem(SpCells) /\ rsp.imem \in ByteMem(SpCells)
  BY <1>1, <1>6 DEF ByteMem, SpCells
<1>8. rsp.insns \in [SpWords -> Decodings]
  <2>1. RspDecode(0) \in Decodings
    BY <1>2 DEF Decodings
  <2> QED BY <1>1, <2>1 DEF SpWords
<1>9. rsp \in RspMachine
  BY <1>1, <1>3, <1>4, <1>5, <1>7, <1>8 DEF RspMachine
<1>10. DecodedIn(rsp)
  <2> SUFFICES ASSUME NEW w \in SpWords PROVE rsp.insns[w] = RspDecode(ImemWord(rsp, 4 * w))
    BY DEF DecodedIn
  <2>1. rsp.insns[w] = RspDecode(0)
    BY <1>1 DEF SpWords
  <2>2. \A k \in 0 .. 3 : rsp.imem[4 * w + k] = 0
    <3>1. \A k \in 0 .. 3 : 4 * w + k \in SpCells
      BY SpSizes
    <3> QED BY <1>1, <3>1 DEF SpCells
  <2> QED BY <2>1, <2>2, ZeroWord
<1> QED BY <1>9, <1>10 DEF DecodedMachines

\* Every step leaves the words decoded.
LEMMA RspNextDecodes ==
  ASSUME RspInv, RspCoreNext
  PROVE  RspInv'
<1>0. rsp \in RspMachine /\ DecodedIn(rsp)
  BY DEF RspInv, DecodedMachines
<1>1. CASE RspStep
  <2> DEFINE m == [rsp EXCEPT !.pc = rsp.next, !.next = InImem(rsp.next + 4)]
             i == rsp.insns[rsp.pc \div 4]
  <2>1. rsp' = RspExecute(m, i)
    BY <1>1 DEF RspStep
  <2>2. SameImem(m, rsp)
    <3> DEFINE x == InImem(rsp.next + 4)
    <3>1. rsp.next + 4 \in Int
      BY <1>0, SpSizes DEF RspMachine
    <3>2. x \in SpCells
      BY <3>1, InImemType
    <3> HIDE DEF x
    <3>3. m = [rsp EXCEPT !.pc = rsp.next, !.next = x]
      BY DEF x
    <3> HIDE DEF m
    <3> QED BY <1>0, <3>2, <3>3 DEF RspMachine, SameImem
  <2>3. Encoded(i)
    <3>1. rsp.pc \div 4 \in SpWords
      BY <1>0, SpSizes DEF RspMachine
    <3>2. i \in Decodings
      BY <1>0, <3>1 DEF RspMachine
    <3>3. PICK w \in RspWords : i = RspDecode(w)
      BY <3>2 DEF Decodings
    <3> HIDE DEF i
    <3> QED BY <3>3, RspCoreAssumption DEF RspWords
  <2> HIDE DEF m, i
  <2>4. SameImem(rsp', m)
    <3>1. m \in RspMachine
      BY <2>2 DEF SameImem
    <3> QED BY <2>1, <2>3, <3>1, RspExecuteType
  <2>5. SameImem(rsp', rsp)
    BY <2>2, <2>4, SameImemTwice
  <2> QED BY <1>0, <2>5, SameImemDecoded DEF RspInv
<1>2. CASE CpuWritesImem
  <2>1. PICK o \in {0, 5, SpSize - 4}, n \in {1, 2, 4, 8}, v \in RspRegister : o % n = 0 /\ rsp' = BusImemWrite(rsp, o, n, Low(v, n))
    BY <1>2 DEF CpuWritesImem
  <2>2. o \in Nat /\ o < SpSize /\ (n = 8 => o % 8 = 0)
    BY <2>1, SpSizes
  <2>3. Low(v, n) \in Int
    <3>1. v \in Int /\ n \in Nat \ {0}
      BY UnitAt, RspCoreAssumption
    <3> QED BY <3>1, Parts4
  <2>4. rsp' \in RspMachine /\ DecodedIn(rsp')
    BY <1>0, <2>1, <2>2, <2>3, ImemStoreDecodes
  <2> QED BY <2>4 DEF RspInv, DecodedMachines
<1>3. CASE Transfer
  <2>1. PICK t \in RspTransfer : rsp' = DmaRead(rsp, t) \/ rsp' = DmaWrite(rsp, t)
    BY <1>3 DEF Transfer
  <2>2. TransferOK(t)
    BY RspCoreAssumption DEF TransferOK
  <2> QED BY <2>1, <2>2, DmaReadDecodes, DmaWriteDecodes DEF RspInv
<1>4. CASE SetRspPc
  <2> DEFINE x == InImem(4)  y == InImem(x + 4)
  <2>1. x \in SpCells /\ y \in SpCells
    <3>1. x \in SpCells /\ x \in Int
      BY InImemType
    <3> HIDE DEF x
    <3> QED BY <3>1, InImemType
  <2>2. rsp' = [rsp EXCEPT !.pc = x, !.next = y]
    BY <1>4 DEF SetRspPc
  <2> HIDE DEF x, y
  <2>3. SameImem(rsp', rsp)
    BY <1>0, <2>1, <2>2 DEF RspMachine, SameImem
  <2> QED BY <1>0, <2>3, SameImemDecoded DEF RspInv
<1> QED BY <1>1, <1>2, <1>3, <1>4 DEF RspCoreNext

\* The words of IMEM are always decoded.
LEMMA RspInvariant == RspCoreSpec => []RspInv
<1>1. RspInv /\ [RspCoreNext]_rspCoreVars => RspInv'
  <2> SUFFICES ASSUME RspInv, [RspCoreNext]_rspCoreVars PROVE RspInv'
    OBVIOUS
  <2>1. CASE RspCoreNext
    BY <2>1, RspNextDecodes
  <2>2. CASE UNCHANGED rspCoreVars
    BY <2>2 DEF rspCoreVars, RspInv
  <2> QED BY <2>1, <2>2
<1> QED BY <1>1, RspInitDecodes, PTL DEF RspCoreSpec

\* The predecoded words that the RSP executes (rsp.cpp) are those of IMEM, whichever mix of
\* DMA, CPU stores and instructions wrote it.
THEOREM RspExecutesImem == RspCoreSpec => []DecodedIsImem
<1>1. RspInv => DecodedIsImem
  BY DEF RspInv, DecodedMachines, DecodedIn, DecodedIsImem, RspMachine
<1> QED BY <1>1, RspInvariant, PTL

\* A word in a register of the CPU.
LEMMA WordOf ==
  ASSUME NEW a \in RspWords
  PROVE  /\ a \in Nat /\ Word(a) \in Values /\ Word(a) \in Nat
         /\ Low(Word(a), 4) = a /\ Sign(Word(a), 8) = Sign(a, 4) /\ Low(a, 4) = a
<1>1. a \in Int /\ a \in Nat /\ 4 \in Nat \ {0}
  BY WordBitsRange
<1>2. Low(a, 4) = a
  BY <1>1, LowIs DEF RspWords
<1>3. Low(Sext(a, 4), 4) = Low(a, 4) /\ Sign(Sext(a, 4), 8) = Sign(a, 4)
  BY <1>1, SextRules
<1>4. Word(a) \in Values
  BY <1>1, WordType
<1>5. Word(a) \in Nat
  BY <1>4, ValueInt
<1> QED BY <1>1, <1>2, <1>3, <1>4, <1>5 DEF Word

\* Sign extension keeps the order of unsigned numbers.
LEMMA WordValue ==
  ASSUME NEW a \in RspWords
  PROVE  Word(a) = IF a >= B(4) \div 2 THEN a - B(4) + B(8) ELSE a
<1>1. /\ B(4) \in Nat \ {0} /\ B(8) \in Nat \ {0} /\ B(4) <= B(8) /\ B(4) \div 2 \in Nat /\ a \in 0 .. B(4) - 1
      /\ B(4) = 2 * (B(4) \div 2)
  BY UnitOrder, UnitAt DEF RspWords
<1>2. Low(a, 4) = a
  BY WordOf
<1> DEFINE s == Sign(a, 4)
<1>3. s = (IF a >= B(4) \div 2 THEN a - B(4) ELSE a)
  BY <1>2 DEF Sign
<1>4. Word(a) = Low(s, 8)
  BY DEF Word, Sext
<1> HIDE DEF s
<1>5. CASE a >= B(4) \div 2
  <2> DEFINE q == -1  r == s + B(8)  d == B(8)
  <2>1. s \in Int /\ d \in Nat \ {0} /\ q \in Int /\ r \in 0 .. d - 1 /\ s = q * d + r /\ r = a - B(4) + B(8)
    BY <1>1, <1>3, <1>5
  <2> HIDE DEF q, r, d
  <2>2. s % d = r
    BY <2>1, RemainderIs
  <2> QED BY <1>4, <1>5, <2>1, <2>2 DEF Low, d
<1>6. CASE ~(a >= B(4) \div 2)
  <2>1. s = a /\ a \in 0 .. B(8) - 1
    BY <1>1, <1>3, <1>6
  <2>2. Low(s, 8) = s
    BY <2>1, LowIs
  <2> QED BY <1>4, <1>6, <2>1, <2>2
<1> QED BY <1>5, <1>6

\* Extended words compare, with a sign or without, as the words do.
LEMMA WordOrder ==
  ASSUME NEW a \in RspWords, NEW b \in RspWords
  PROVE  /\ Word(a) < Word(b) <=> a < b
         /\ Word(a) = Word(b) <=> a = b
         /\ Word(0) = 0 /\ 0 \in RspWords
<1>1. B(4) \in Nat /\ B(8) \in Nat /\ B(4) <= B(8) /\ B(4) \div 2 \in Nat \ {0} /\ a \in 0 .. B(4) - 1 /\ b \in 0 .. B(4) - 1
  BY UnitOrder, HalfOfSpace DEF RspWords
<1>2. 0 \in RspWords
  BY <1>1 DEF RspWords
<1>3. /\ Word(a) = IF a >= B(4) \div 2 THEN a - B(4) + B(8) ELSE a
      /\ Word(b) = IF b >= B(4) \div 2 THEN b - B(4) + B(8) ELSE b
      /\ Word(0) = IF 0 >= B(4) \div 2 THEN 0 - B(4) + B(8) ELSE 0
  BY <1>2, WordValue
<1> DEFINE h == B(4) \div 2
<1> HIDE DEF h
<1>4. h \in Nat \ {0} /\ (Word(0) = IF 0 >= h THEN 0 - B(4) + B(8) ELSE 0)
  BY <1>1, <1>3 DEF h
<1>5. Word(0) = 0
  BY <1>4
<1> QED BY <1>1, <1>2, <1>3, <1>5

\* The same number modulo a word.
LEMMA LowOfWord ==
  ASSUME NEW x \in Int
  PROVE  Low(Word(x), 4) = Low(x, 4) /\ Low(Low(x, 8), 4) = Low(x, 4)
<1>1. 4 \in Nat \ {0}
  OBVIOUS
<1>2. Low(Sext(x, 4), 4) = Low(x, 4) /\ Low(Low(x, 8), 4) = Low(x, 4)
  BY <1>1, SextRules, LowOfWider
<1> QED BY <1>2 DEF Word

\* A truth value is a word.
LEMMA LowOfOne == \A p : One(p) \in RspWords /\ Low(One(p), 4) = One(p)
<1>1. B(4) \in Nat \ {0, 1}
  BY HalfOfSpace
<1>2. \A p : One(p) \in RspWords
  BY <1>1 DEF One, RspWords
<1> QED BY <1>2, WordOf

\* Additions and subtractions.
LEMMA AddSubLow ==
  ASSUME NEW i, i.op \in {"ADD", "ADDU", "SUB", "SUBU"}, NEW a \in RspWords, NEW b \in RspWords
  PROVE  Low(AddSub(i.op, Word(a), Word(b)), 4) = Low(RspPlainOp(i, a, b), 4)
<1> DEFINE s == a + b  d == a - b
<1>1. a \in Nat /\ b \in Nat /\ s \in Int /\ d \in Int
  BY WordOf
<1>2. Low(Word(a), 4) = a /\ Low(Word(b), 4) = b
  BY WordOf
<1>3. AddSub(i.op, Word(a), Word(b)) = IF i.op \in {"ADD", "ADDU"} THEN Word(s) ELSE Word(d)
  BY <1>2 DEF AddSub
<1>4. RspPlainOp(i, a, b) = IF i.op \in {"ADD", "ADDU"} THEN s ELSE d
  BY DEF RspPlainOp
<1> HIDE DEF s, d
<1> QED BY <1>1, <1>3, <1>4, LowOfWord

\* Bitwise operations on extended words.
LEMMA BitsLow ==
  ASSUME NEW x \in Nat, NEW y \in Nat
  PROVE  /\ Low(x & y, 4) = Low(x, 4) & Low(y, 4)
         /\ Low(x | y, 4) = Low(x, 4) | Low(y, 4)
         /\ Low(x ^^ y, 4) = Low(x, 4) ^^ Low(y, 4)
<1> DEFINE w == 4 * ByteBits
<1>1. w \in Nat /\ B(4) = Pow2[w]
  BY IsaAssumption DEF B
<1> HIDE DEF w
<1> QED BY <1>1, BitsOfRemainder DEF Low

\* The complement of an extended word.
LEMMA ComplementLow ==
  ASSUME NEW x \in Nat
  PROVE  Low(B(8) - 1 - x, 4) = B(4) - 1 - Low(x, 4)
<1> DEFINE d == B(4)  r == x % d
<1>1. d \in Nat \ {0} /\ B(8) = d * d
  <2>1. B(4 + 4) = B(4) * B(4)
    BY Units
  <2> QED BY <2>1, UnitAt
<1> HIDE DEF d
<1>2. r \in 0 .. d - 1 /\ \E q \in Int : x \div d = q /\ x = q * d + r
  <2>1. x \in Int
    OBVIOUS
  <2> QED BY <1>1, <2>1, DividedBy, Zenon
<1>3. \E q \in Int : x = q * d + r
  BY <1>2
<1>4. PICK q \in Int : x = q * d + r
  BY <1>3
<1> HIDE DEF r
<1> DEFINE y == B(8) - 1 - x  k == d - 1 - q  s == d - 1 - r
<1>5. y \in Int /\ k \in Int /\ s \in 0 .. d - 1
  <2>1. B(8) \in Int
    BY UnitAt
  <2> QED BY <1>1, <1>2, <2>1
<1>6. y = k * d + s
  <2> DEFINE dd == d * d  qd == q * d
  <2>1. k * d = dd - d - qd
    BY <1>1
  <2>2. B(8) = dd /\ x = qd + r /\ dd \in Int /\ qd \in Int /\ r \in Int /\ d \in Int
    BY <1>1, <1>2, <1>4
  <2> HIDE DEF dd, qd
  <2>3. y = dd - 1 - qd - r /\ s = d - 1 - r
    BY <2>2
  <2> HIDE DEF k, y, s
  <2> QED BY <2>1, <2>2, <2>3
<1> HIDE DEF y, k, s
<1>7. y % d = s
  BY <1>1, <1>5, <1>6, RemainderIs
<1> QED BY <1>7 DEF Low, y, s, r, d

\* Logic operations.
LEMMA LogicLow ==
  ASSUME NEW i, i.op \in LogicOps, NEW a \in RspWords, NEW b \in RspWords
  PROVE  Low(Logic(i.op, Word(a), Word(b)), 4) = Low(RspPlainOp(i, a, b), 4)
<1> DEFINE x == Word(a)  y == Word(b)
<1>1. x \in Nat /\ y \in Nat /\ Low(x, 4) = a /\ Low(y, 4) = b
  BY WordOf
<1> HIDE DEF x, y
<1>2. Low(x & y, 4) = a & b /\ Low(x | y, 4) = a | b /\ Low(x ^^ y, 4) = a ^^ b
  BY <1>1, BitsLow
<1>3. a & b \in RspWords /\ a | b \in RspWords /\ a ^^ b \in RspWords
  BY WordBitsRange
<1>4. Low(a & b, 4) = a & b /\ Low(a | b, 4) = a | b /\ Low(a ^^ b, 4) = a ^^ b
  BY <1>3, WordOf
<1>5. Low(Complement(x | y), 4) = Low(B(4) - 1 - (a | b), 4)
  <2> DEFINE o == x | y  c == a | b  n == B(4) - 1 - c
  <2>1. o \in Nat
    BY <1>1, BitsAreNat
  <2>2. Low(o, 4) = c /\ c \in RspWords
    BY <1>2, <1>3
  <2> HIDE DEF o, c
  <2>3. Low(Complement(o), 4) = B(4) - 1 - c
    BY <2>1, <2>2, ComplementLow DEF Complement
  <2>4. n \in RspWords
    <3>1. B(4) \in Nat
      BY UnitAt
    <3> QED BY <2>2, <3>1 DEF RspWords
  <2> HIDE DEF n
  <2>5. Low(n, 4) = n
    BY <2>4, WordOf
  <2> QED BY <2>3, <2>5 DEF o, c, n
<1>6. /\ i.op = "AND" => Logic(i.op, x, y) = x & y /\ RspPlainOp(i, a, b) = a & b
      /\ i.op = "OR" => Logic(i.op, x, y) = x | y /\ RspPlainOp(i, a, b) = a | b
      /\ i.op = "XOR" => Logic(i.op, x, y) = x ^^ y /\ RspPlainOp(i, a, b) = a ^^ b
      /\ i.op = "NOR" => Logic(i.op, x, y) = Complement(x | y) /\ RspPlainOp(i, a, b) = B(4) - 1 - (a | b)
  BY DEF Logic, RspPlainOp
<1> QED BY <1>2, <1>4, <1>5, <1>6, Zenon DEF LogicOps, x, y

\* Comparisons.
LEMMA LessLow ==
  ASSUME NEW i, i.op \in LessOps, NEW a \in RspWords, NEW b \in RspWords
  PROVE  Low(SetLess(i.op, Word(a), Word(b)), 4) = Low(RspPlainOp(i, a, b), 4)
<1>1. Sign(Word(a), 8) = Sign(a, 4) /\ Sign(Word(b), 8) = Sign(b, 4) /\ (Word(a) < Word(b) <=> a < b)
  BY WordOf, WordOrder
<1>2. SetLess(i.op, Word(a), Word(b)) = One(IF i.op = "SLT" THEN Sign(a, 4) < Sign(b, 4) ELSE a < b)
  BY <1>1 DEF SetLess, LessOps
<1>3. RspPlainOp(i, a, b) = One(IF i.op = "SLT" THEN Sign(a, 4) < Sign(b, 4) ELSE a < b)
  BY DEF RspPlainOp, LessOps
<1> QED BY <1>2, <1>3

\* Shifts.
LEMMA ShiftLow ==
  ASSUME NEW op \in ShiftOps \cup ShiftVOps, NEW b \in RspWords, NEW s \in Nat
  PROVE  Low(Shift32(op, Word(b), s), 4) = Low(RspShifted(op, b, s), 4)
<1> DEFINE p == Pow2[s]  x == Word(b)  y == Sign(b, 4)
<1>1. p \in Nat \ {0} /\ x \in Nat /\ b \in Nat /\ Low(x, 4) = b /\ Sign(x, 8) = y
  BY WordOf, Pow2Type
<1>2. y \in Int
  BY <1>1, Parts4
<1>3. /\ op \in {"SLL", "SLLV"} => Shift32(op, x, s) = Word(x * p) /\ RspShifted(op, b, s) = b * p
      /\ op \in {"SRL", "SRLV"} => Shift32(op, x, s) = Word(b \div p) /\ RspShifted(op, b, s) = b \div p
      /\ op \in {"SRA", "SRAV"} => Shift32(op, x, s) = Word(y \div p) /\ RspShifted(op, b, s) = y \div p
  BY <1>1 DEF Shift32, RspShifted
<1> HIDE DEF p, x, y
<1>4. x * p \in Int /\ b * p \in Int /\ b \div p \in Int /\ y \div p \in Int
  BY <1>1, <1>2
<1>5. Low(x * p, 4) = Low(b * p, 4)
  <2>1. x \in Int /\ p \in Int /\ 4 \in Nat
    BY <1>1
  <2>2. Low(Low(x, 4) * p, 4) = Low(x * p, 4)
    BY <2>1, LowOfSum
  <2> QED BY <1>1, <2>2
<1>6. Low(Word(x * p), 4) = Low(b * p, 4) /\ Low(Word(b \div p), 4) = Low(b \div p, 4) /\ Low(Word(y \div p), 4) = Low(y \div p, 4)
  BY <1>4, <1>5, LowOfWord
<1>7. op \in {"SLL", "SLLV"} \/ op \in {"SRL", "SRLV"} \/ op \in {"SRA", "SRAV"}
  BY DEF ShiftOps, ShiftVOps
<1> QED BY <1>3, <1>6, <1>7, Zenon DEF x

\* The amount of a variable shift is in the word's last bits.
LEMMA AmountLow ==
  ASSUME NEW a \in RspWords
  PROVE  Word(a) % WordBits = a % WordBits /\ a % WordBits \in Nat
<1> DEFINE x == Word(a)  d == WordBits  e == B(4)
<1>1. d \in Nat \ {0} /\ e \in Nat \ {0} /\ x \in Nat /\ a \in Nat /\ x % e = a /\ e % d = 0
  BY IsaAssumption, RspCoreAssumption, WordOf, UnitAt DEF WordBits, Low
<1> HIDE DEF x, d, e
<1>2. Congruent(x, a, d)
  <2>0. x \in Int /\ e \in Int
    BY <1>1
  <2>1. x % e \in 0 .. e - 1 /\ \E q \in Int : x \div e = q /\ x = q * e + (x % e)
    BY <1>1, <2>0, DividedBy, Zenon
  <2>2. \E q \in Int : x = q * e + a
    BY <1>1, <2>1
  <2>3. e % d \in 0 .. d - 1 /\ \E q \in Int : e \div d = q /\ e = q * d + (e % d)
    BY <1>1, <2>0, DividedBy, Zenon
  <2>4. \E q \in Int : e = q * d
    BY <1>1, <2>3
  <2>5. PICK k \in Int : x = k * e + a
    BY <2>2
  <2>6. PICK j \in Int : e = j * d
    BY <2>4
  <2> DEFINE c == k * j
  <2>7. c \in Int /\ x = a + c * d
    BY <1>1, <2>5, <2>6
  <2> HIDE DEF c
  <2> QED BY <2>7 DEF Congruent
<1>3. x \in Int /\ a \in Int /\ a % d \in Nat
  BY <1>1
<1> QED BY <1>1, <1>2, <1>3, SameRemainder DEF x, d

\* The low word of what a register operation of the CPU writes.
LEMMA PlainLow ==
  ASSUME NEW i, Encoded(i), i.op \in RspPlainOps, NEW m, NEW a \in RspWords, NEW b \in RspWords,
         Read(m, i.rs) = Word(a), Read(m, i.rt) = Word(b)
  PROVE  \E v : ExecuteSpecial(m, i) = Write(m, i.rd, v) /\ Low(v, 4) = Low(RspPlainOp(i, a, b), 4)
<1>0. /\ i.op \in {"ADD", "ADDU", "SUB", "SUBU"} \cup LogicOps \cup LessOps \cup ShiftOps \cup ShiftVOps
      /\ {"ADD", "ADDU", "SUB", "SUBU"} \subseteq AddOps
  BY DEF RspPlainOps, AddOps
<1>1. CASE i.op \in {"ADD", "ADDU", "SUB", "SUBU"}
  <2>1. ExecuteSpecial(m, i) = Write(m, i.rd, AddSub(i.op, Word(a), Word(b)))
    BY <1>0, <1>1, SpecialIs
  <2> QED BY <1>1, <2>1, AddSubLow
<1>2. CASE i.op \in LogicOps
  <2>1. ExecuteSpecial(m, i) = Write(m, i.rd, Logic(i.op, Word(a), Word(b)))
    BY <1>2, SpecialIs
  <2> QED BY <1>2, <2>1, LogicLow
<1>3. CASE i.op \in LessOps
  <2>1. ExecuteSpecial(m, i) = Write(m, i.rd, SetLess(i.op, Word(a), Word(b)))
    BY <1>3, SpecialIs
  <2> QED BY <1>3, <2>1, LessLow
<1>4. CASE i.op \in ShiftOps \cup ShiftVOps
  <2> DEFINE s == IF i.op \in ShiftOps THEN i.sa ELSE a % WordBits
  <2>1. i.sa \in Nat /\ a % WordBits \in Nat /\ Word(a) % WordBits = a % WordBits
    BY AmountLow DEF Encoded
  <2>2. s \in Nat
    BY <2>1
  <2>3. ShiftOps \cap ShiftVOps = {}
    BY DEF ShiftOps, ShiftVOps
  <2>4. ExecuteSpecial(m, i) = Write(m, i.rd, Shift32(i.op, Word(b), s))
    <3>1. CASE i.op \in ShiftOps
      BY <3>1, SpecialIs
    <3>2. CASE i.op \in ShiftVOps /\ i.op \notin ShiftOps
      BY <3>2, <2>1, SpecialIs
    <3> QED BY <1>4, <3>1, <3>2
  <2>5. RspPlainOp(i, a, b) = RspShifted(i.op, b, s)
    BY <1>4 DEF RspPlainOp, ShiftOps, ShiftVOps
  <2> HIDE DEF s
  <2>6. Low(Shift32(i.op, Word(b), s), 4) = Low(RspShifted(i.op, b, s), 4)
    BY <1>4, <2>2, ShiftLow
  <2> QED BY <2>4, <2>5, <2>6
<1> QED BY <1>0, <1>1, <1>2, <1>3, <1>4

\* The immediate, extended either way.
LEMMA ImmParts ==
  ASSUME NEW imm \in 0 .. B(2) - 1
  PROVE  LET s == Sign(imm, 2)  w == Low(Sign(imm, 2), 4) IN
         /\ s \in Int /\ w \in RspWords /\ Sext(imm, 2) = Word(w) /\ Sign(w, 4) = s /\ Low(Sext(imm, 2), 4) = w
         /\ Sext(imm, 2) \in Int
<1> DEFINE s == Sign(imm, 2)  w == Low(s, 4)
<1>1. imm \in Int /\ B(2) \in Nat /\ 2 \in Nat \ {0} /\ 4 \in Nat \ {0}
  BY UnitAt
<1>2. s \in -(B(2) \div 2) .. B(2) \div 2 - 1
  BY <1>1, LowRange
<1>3. B(2) \div 2 <= B(4) \div 2 /\ B(2) \div 2 \in Nat /\ B(4) \div 2 \in Nat
  <2>1. /\ B(2) <= B(4) /\ B(2) \in Nat /\ B(4) \in Nat /\ B(2) = 2 * (B(2) \div 2) /\ B(4) = 2 * (B(4) \div 2)
        /\ B(2) \div 2 \in Nat /\ B(4) \div 2 \in Nat
    BY <1>1, UnitOrder
  <2> QED BY <2>1
<1>4. s \in -(B(4) \div 2) .. B(4) \div 2 - 1 /\ s \in Int
  BY <1>2, <1>3
<1>5. Sext(imm, 2) = Low(s, 8)
  BY DEF Sext
<1> HIDE DEF s
<1>6. Sign(s, 4) = s /\ Low(w, 4) = Low(s, 4) /\ w \in RspWords /\ Low(Low(s, 8), 4) = w
  BY <1>1, <1>4, SignIs, LowOfLow, WordLow, LowOfWider
<1>7. Sign(w, 4) = s
  BY <1>6, PartsExtend
<1>8. Word(w) = Low(s, 8)
  BY <1>7 DEF Word, Sext
<1>9. Low(s, 8) \in Int
  BY <1>4, Low8Type, ValueInt
<1> QED BY <1>4, <1>5, <1>6, <1>7, <1>8, <1>9 DEF s

\* The low word of what an immediate operation of the CPU writes.
LEMMA ImmLow ==
  ASSUME NEW i, i.op \in RspImmOps, NEW imm \in 0 .. B(2) - 1, i.imm = imm, NEW a \in RspWords
  PROVE  /\ i.op # "LUI" => Low(Immediate(i.op, Word(a), imm), 4) = Low(RspImmOp(i, a), 4)
         /\ i.op = "LUI" => Low(Upper(imm), 4) = Low(RspImmOp(i, a), 4)
<1> DEFINE s == Sign(imm, 2)  w == Low(s, 4)  x == Word(a)  y == Sext(imm, 2)
<1>1. s \in Int /\ w \in RspWords /\ y = Word(w) /\ Sign(w, 4) = s /\ Low(y, 4) = w /\ y \in Int
  BY ImmParts
<1>2. x \in Nat /\ a \in Nat /\ Low(x, 4) = a /\ Sign(x, 8) = Sign(a, 4) /\ Low(a, 4) = a
  BY WordOf
<1>3. imm \in RspWords /\ imm \in Nat
  BY ImmIsWord, UnitAt
<1>4. Low(imm, 4) = imm
  BY <1>3, WordOf
<1>5. Sign(y, 8) = s /\ (x < y <=> a < w)
  BY <1>1, WordOf, WordOrder
<1>6. /\ i.op \in {"ADDI", "ADDIU"} => Immediate(i.op, x, imm) = Word(a + y) /\ RspImmOp(i, a) = a + s
      /\ i.op = "SLTI" => Immediate(i.op, x, imm) = One(Sign(a, 4) < s) /\ RspImmOp(i, a) = One(Sign(a, 4) < s)
      /\ i.op = "SLTIU" => Immediate(i.op, x, imm) = One(a < w) /\ RspImmOp(i, a) = One(a < w)
      /\ i.op = "ANDI" => Immediate(i.op, x, imm) = x & imm /\ RspImmOp(i, a) = a & imm
      /\ i.op = "ORI" => Immediate(i.op, x, imm) = x | imm /\ RspImmOp(i, a) = a | imm
      /\ i.op = "XORI" => Immediate(i.op, x, imm) = x ^^ imm /\ RspImmOp(i, a) = a ^^ imm
      /\ i.op = "LUI" => RspImmOp(i, a) = imm * B(2)
  <2>1. i.op \in {"ADDI", "ADDIU"} => Immediate(i.op, x, imm) = Word(Low(x, 4) + y) /\ RspImmOp(i, a) = a + s
    BY DEF Immediate, RspImmOp
  <2>2. i.op = "SLTI" => Immediate(i.op, x, imm) = One(Sign(x, 8) < Sign(y, 8)) /\ RspImmOp(i, a) = One(Sign(a, 4) < s)
    BY DEF Immediate, RspImmOp, SetLess
  <2>3. i.op = "SLTIU" => Immediate(i.op, x, imm) = One(x < y) /\ RspImmOp(i, a) = One(a < w)
    BY DEF Immediate, RspImmOp, SetLess
  <2>4. /\ i.op = "ANDI" => Immediate(i.op, x, imm) = x & imm /\ RspImmOp(i, a) = a & imm
        /\ i.op = "ORI" => Immediate(i.op, x, imm) = x | imm /\ RspImmOp(i, a) = a | imm
        /\ i.op = "XORI" => Immediate(i.op, x, imm) = x ^^ imm /\ RspImmOp(i, a) = a ^^ imm
        /\ i.op = "LUI" => RspImmOp(i, a) = imm * B(2)
    BY DEF Immediate, RspImmOp
  <2> HIDE DEF s, w, x, y
  <2>5. One(x < y) = One(a < w)
    BY <1>5 DEF One
  <2> QED BY <1>2, <1>5, <2>1, <2>2, <2>3, <2>4, <2>5
<1> HIDE DEF s, x, y
<1>7. Low(Word(a + y), 4) = Low(a + s, 4)
  <2>1. a + y \in Int /\ a \in Int /\ y + a \in Int /\ s + a \in Int /\ 4 \in Nat
    BY <1>1, <1>2
  <2>2. Low(Word(a + y), 4) = Low(a + y, 4)
    BY <2>1, LowOfWord
  <2>3. Low(Low(y, 4) + a, 4) = Low(y + a, 4) /\ Low(Low(s, 4) + a, 4) = Low(s + a, 4)
    BY <1>1, <2>1, LowOfSum
  <2>4. a + y = y + a /\ a + s = s + a
    BY <1>1, <1>2
  <2>5. Low(y + a, 4) = Low(s + a, 4)
    BY <1>1, <2>3 DEF w
  <2> QED BY <2>2, <2>4, <2>5
<1>8. Low(x & imm, 4) = Low(a & imm, 4) /\ Low(x | imm, 4) = Low(a | imm, 4) /\ Low(x ^^ imm, 4) = Low(a ^^ imm, 4)
  <2>1. Low(x & imm, 4) = a & imm /\ Low(x | imm, 4) = a | imm /\ Low(x ^^ imm, 4) = a ^^ imm
    BY <1>2, <1>3, <1>4, BitsLow
  <2>2. a & imm \in RspWords /\ a | imm \in RspWords /\ a ^^ imm \in RspWords
    BY <1>3, WordBitsRange
  <2>3. Low(a & imm, 4) = a & imm /\ Low(a | imm, 4) = a | imm /\ Low(a ^^ imm, 4) = a ^^ imm
    BY <2>2, WordOf
  <2> QED BY <2>1, <2>3
<1>9. Low(Upper(imm), 4) = Low(imm * B(2), 4)
  <2> DEFINE u == imm * B(2)
  <2>1. u \in Int
    BY <1>3, UnitAt
  <2>2. Upper(imm) = Word(u)
    BY UpperAgrees DEF Cdqe, Word
  <2> HIDE DEF u
  <2>3. Low(Word(u), 4) = Low(u, 4)
    BY <2>1, LowOfWord
  <2> QED BY <2>2, <2>3 DEF u
<1>10. i.op \in {"ADDI", "ADDIU"} \/ i.op = "SLTI" \/ i.op = "SLTIU" \/ i.op = "ANDI" \/ i.op = "ORI" \/ i.op = "XORI" \/ i.op = "LUI"
  BY DEF RspImmOps
<1>11. i.op # "LUI" => Low(Immediate(i.op, x, imm), 4) = Low(RspImmOp(i, a), 4)
  BY <1>6, <1>7, <1>8, <1>10, Zenon
<1> QED BY <1>6, <1>9, <1>11 DEF x

\* Both units take the same branches.
LEMMA TakenAlike ==
  ASSUME NEW m, NEW i, i.op \in RspBranchOps, NEW a \in RspWords, NEW b \in RspWords,
         Read(m, i.rs) = Word(a), Read(m, i.rt) = Word(b)
  PROVE  (Taken(m, i) <=> RspTaken(i, a, b)) /\ i.op \notin LikelyOps /\ i.op \in AnyBranch
<1>1. Sign(Word(a), 8) = Sign(a, 4) /\ (Word(a) = Word(b) <=> a = b)
  BY WordOf, WordOrder
<1> USE DEF RspBranchOps, RspZeroOps, LikelyOps, AnyBranch, ZeroOps, EqualOps
<1>2. i.op \notin LikelyOps /\ i.op \in AnyBranch
  OBVIOUS
<1>3. i.op \in RspZeroOps => (Taken(m, i) <=> RspTaken(i, a, b))
  <2>1. i.op \in RspZeroOps => i.op \in ZeroOps
    OBVIOUS
  <2>2. i.op \in RspZeroOps => (Taken(m, i) <=> Zeros(i.op, Word(a)))
    BY <2>1 DEF Taken
  <2>3. i.op \in RspZeroOps => (Zeros(i.op, Word(a)) <=> RspTaken(i, a, b))
    BY <1>1 DEF Zeros, RspTaken
  <2> QED BY <2>2, <2>3
<1>4. i.op \in {"BEQ", "BNE"} => (Taken(m, i) <=> RspTaken(i, a, b))
  <2>1. i.op \in {"BEQ", "BNE"} => (Taken(m, i) <=> Equals(i.op, Word(a), Word(b)))
    BY DEF Taken
  <2>2. i.op \in {"BEQ", "BNE"} => (Equals(i.op, Word(a), Word(b)) <=> RspTaken(i, a, b))
    BY <1>1 DEF Equals, RspTaken
  <2> QED BY <2>1, <2>2
<1>5. i.op \in RspZeroOps \cup {"BEQ", "BNE"}
  OBVIOUS
<1> HIDE DEF RspBranchOps, RspZeroOps, LikelyOps, AnyBranch, ZeroOps, EqualOps
<1> QED BY <1>2, <1>3, <1>4, <1>5

(***************************************************************************)
(* Both units at once                                                      *)
(***************************************************************************)

\* The CPU's registers hold the RSP's, extended.
LEMMA CpuWithIs ==
  ASSUME NEW gpr \in [1 .. LastReg -> RspWords]
  PROVE  /\ CpuWith(gpr).gpr = [r \in 1 .. LastReg |-> Word(gpr[r])]
         /\ DOMAIN CpuWith(gpr) = {"gpr", "hi", "lo", "ram", "dmem", "reg", "c0", "ll", "next", "exc"}
         /\ \A m, r : m.gpr = gpr /\ r \in 0 .. LastReg => Read(CpuWith(gpr), r) = Word(RspReg(m, r))
<1> DEFINE c == CpuWith(gpr)
<1>1. c.gpr = [r \in 1 .. LastReg |-> Word(gpr[r])] /\ DOMAIN c = {"gpr", "hi", "lo", "ram", "dmem", "reg", "c0", "ll", "next", "exc"}
  BY DEF CpuWith, Start
<1> HIDE DEF c
<1>2. Word(0) = 0
  <2>1. 0 \in RspWords
    BY UnitAt DEF RspWords
  <2> QED BY <2>1, WordOrder
<1>3. ASSUME NEW m, NEW r, m.gpr = gpr, r \in 0 .. LastReg
      PROVE  Read(c, r) = Word(RspReg(m, r))
  BY <1>1, <1>2, <1>3 DEF Read, RspReg
<1> QED BY <1>1, <1>3 DEF c

\* Writing one register on both units.
LEMMA RegistersAlike ==
  ASSUME NEW m \in RspMachine, NEW r \in 0 .. LastReg, NEW p, NEW v, Low(v, 4) = Low(p, 4)
  PROVE  SetRspReg(m, r, p).gpr = [k \in 1 .. LastReg |-> Low(Write(CpuWith(m.gpr), r, v).gpr[k], 4)]
<1> DEFINE c == CpuWith(m.gpr)  l == Low(p, 4)
<1>1. m.gpr \in [1 .. LastReg -> RspWords]
  BY DEF RspMachine
<1>2. c.gpr = [k \in 1 .. LastReg |-> Word(m.gpr[k])] /\ DOMAIN c = {"gpr", "hi", "lo", "ram", "dmem", "reg", "c0", "ll", "next", "exc"}
  BY <1>1, CpuWithIs
<1>3. \A k \in 1 .. LastReg : Low(c.gpr[k], 4) = m.gpr[k]
  <2> SUFFICES ASSUME NEW k \in 1 .. LastReg PROVE Low(c.gpr[k], 4) = m.gpr[k]
    OBVIOUS
  <2>1. m.gpr[k] \in RspWords /\ c.gpr[k] = Word(m.gpr[k])
    BY <1>1, <1>2
  <2> QED BY <2>1, WordOf
<1> HIDE DEF c, l
<1>4. CASE r = 0
  <2>1. SetRspReg(m, r, p) = m /\ Write(c, r, v) = c
    BY <1>4 DEF SetRspReg, Write
  <2>2. m.gpr = [k \in 1 .. LastReg |-> Low(c.gpr[k], 4)]
    BY <1>1, <1>3
  <2> QED BY <2>1, <2>2 DEF c
<1>5. CASE r # 0
  <2>1. SetRspReg(m, r, p) = [m EXCEPT !.gpr[r] = l] /\ Write(c, r, v) = [c EXCEPT !.gpr[r] = v] /\ r \in 1 .. LastReg
    BY <1>5 DEF SetRspReg, Write, l
  <2>2. [m EXCEPT !.gpr[r] = l].gpr = [m.gpr EXCEPT ![r] = l]
    BY DEF RspMachine
  <2>3. [c EXCEPT !.gpr[r] = v].gpr = [c.gpr EXCEPT ![r] = v]
    BY <1>2
  <2>4. Low(v, 4) = l
    BY DEF l
  <2> DEFINE f == m.gpr  g == c.gpr
  <2>5. f \in [1 .. LastReg -> RspWords] /\ DOMAIN g = 1 .. LastReg /\ \A k \in 1 .. LastReg : Low(g[k], 4) = f[k]
    BY <1>1, <1>2, <1>3
  <2>6. \A k \in 1 .. LastReg : [g EXCEPT ![r] = v][k] = (IF k = r THEN v ELSE g[k])
    <3> HIDE DEF g
    <3> QED BY <2>5
  <2>7. [f EXCEPT ![r] = l] = [k \in 1 .. LastReg |-> Low([g EXCEPT ![r] = v][k], 4)]
    <3> DEFINE h == [g EXCEPT ![r] = v]
    <3>1. \A k \in 1 .. LastReg : Low(h[k], 4) = (IF k = r THEN l ELSE f[k])
      <4> HIDE DEF f, g
      <4> QED BY <2>4, <2>5, <2>6
    <3> HIDE DEF f, g, h
    <3>2. [f EXCEPT ![r] = l] = [k \in 1 .. LastReg |-> Low(h[k], 4)]
      BY <2>5, <3>1
    <3> QED BY <3>2 DEF h
  <2> QED BY <2>1, <2>2, <2>3, <2>7 DEF c
<1> QED BY <1>4, <1>5

\* Where a branch of the CPU goes.
LEMMA BranchNext ==
  ASSUME NEW gpr, NEW i, i.op \in AnyBranch, i.op \notin LikelyOps
  PROVE  Execute(CpuWith(gpr), i).next = IF Taken(CpuWith(gpr), i) THEN <<"offset", Sign(i.imm, 2)>> ELSE "on"
<1> DEFINE c == CpuWith(gpr)  x == Branched(c, i)
           n == IF Taken(c, i) THEN <<"offset", Sign(i.imm, 2)>> ELSE "on"
<1>1. DOMAIN c = {"gpr", "hi", "lo", "ram", "dmem", "reg", "c0", "ll", "next", "exc"}
  BY DEF CpuWith, Start
<1> HIDE DEF c
<1>2. x = [c EXCEPT !.next = n]
  BY DEF Branched, Branch
<1> HIDE DEF n
<1>3. DOMAIN x = DOMAIN c /\ x.next = n
  BY <1>1, <1>2
<1> HIDE DEF x
<1>4. \A r, v : Write(x, r, v).next = x.next
  <2> SUFFICES ASSUME NEW r, NEW v PROVE Write(x, r, v).next = x.next
    OBVIOUS
  <2>1. [x EXCEPT !.gpr[r] = v].next = x.next
    BY <1>1, <1>3
  <2> QED BY <2>1 DEF Write
<1>5. Execute(c, i) = IF i.op \in {"BLTZAL", "BGEZAL"} THEN Link(x, RA) ELSE x
  BY ExecuteIs DEF x
<1>6. Execute(c, i).next = n
  BY <1>3, <1>4, <1>5 DEF Link
<1> QED BY <1>6 DEF n, c

\* One instruction on both units.
LEMMA AluAlike ==
  ASSUME NEW m \in RspMachine, NEW i, Encoded(i), i.op \in RspPlainOps \cup RspImmOps \cup RspBranchOps
  PROVE  IF i.op \in RspBranchOps
         THEN Execute(CpuWith(m.gpr), i).next = IF RspTaken(i, RspReg(m, i.rs), RspReg(m, i.rt)) THEN <<"offset", Sign(i.imm, 2)>> ELSE "on"
         ELSE RspExecute(m, i).gpr = [k \in 1 .. LastReg |-> Low(Execute(CpuWith(m.gpr), i).gpr[k], 4)]
<1> DEFINE c == CpuWith(m.gpr)  a == RspReg(m, i.rs)  b == RspReg(m, i.rt)
<1>1. a \in RspWords /\ b \in RspWords
  BY RspRegType DEF Encoded
<1>2. Read(c, i.rs) = Word(a) /\ Read(c, i.rt) = Word(b)
  <2>1. m.gpr \in [1 .. LastReg -> RspWords]
    BY DEF RspMachine
  <2>2. \A n, r : n.gpr = m.gpr /\ r \in 0 .. LastReg => Read(CpuWith(m.gpr), r) = Word(RspReg(n, r))
    BY <2>1, CpuWithIs
  <2>3. \A r \in 0 .. LastReg : Read(CpuWith(m.gpr), r) = Word(RspReg(m, r))
    BY <2>2
  <2> QED BY <2>3 DEF Encoded
<1>3. i.rt \in 0 .. LastReg /\ i.rd \in 0 .. LastReg
  BY DEF Encoded
<1>4. CASE i.op \in RspBranchOps
  <2> HIDE DEF a, b
  <2>1. (Taken(c, i) <=> RspTaken(i, a, b)) /\ i.op \notin LikelyOps /\ i.op \in AnyBranch
    BY <1>1, <1>2, <1>4, TakenAlike
  <2>2. Execute(c, i).next = IF Taken(c, i) THEN <<"offset", Sign(i.imm, 2)>> ELSE "on"
    BY <2>1, BranchNext
  <2> HIDE DEF c
  <2> QED BY <1>4, <2>1, <2>2 DEF a, b, c
<1>5. CASE i.op \in RspPlainOps /\ i.op \notin RspBranchOps
  <2> DEFINE p == RspPlainOp(i, a, b)
  <2>1. i.op \in SpecialOps
    BY <1>5 DEF RspPlainOps, SpecialOps, AddOps
  <2>2. Execute(c, i) = ExecuteSpecial(c, i)
    BY <2>1, ExecuteIs
  <2>3. RspExecute(m, i) = SetRspReg(m, i.rd, p)
    BY <1>5, RspExecuteIs
  <2>4. \E v : ExecuteSpecial(c, i) = Write(c, i.rd, v) /\ Low(v, 4) = Low(p, 4)
    <3> HIDE DEF a, b, c
    <3> QED BY <1>1, <1>2, <1>5, PlainLow
  <2>5. PICK v : ExecuteSpecial(c, i) = Write(c, i.rd, v) /\ Low(v, 4) = Low(p, 4)
    BY <2>4
  <2> HIDE DEF p
  <2>6. SetRspReg(m, i.rd, p).gpr = [k \in 1 .. LastReg |-> Low(Write(c, i.rd, v).gpr[k], 4)]
    BY <1>3, <2>5, RegistersAlike
  <2> QED BY <1>5, <2>2, <2>3, <2>5, <2>6
<1>6. CASE i.op \in RspImmOps /\ i.op \notin RspBranchOps
  <2> DEFINE p == RspImmOp(i, a)  imm == i.imm
             v == IF i.op = "LUI" THEN Upper(imm) ELSE Immediate(i.op, Word(a), imm)
  <2>1. imm \in 0 .. B(2) - 1 /\ RspExecute(m, i) = SetRspReg(m, i.rt, p)
    BY <1>6, RspExecuteIs DEF Encoded
  <2>2. Low(v, 4) = Low(p, 4)
    <3> HIDE DEF a, imm
    <3>1. i.imm = imm
      BY DEF imm
    <3> QED BY <1>1, <1>6, <2>1, <3>1, ImmLow
  <2>3. Execute(c, i) = Write(c, i.rt, v)
    <3>1. i.op = "LUI" \/ i.op \in ImmOps
      BY <1>6 DEF RspImmOps, ImmOps
    <3>2. "LUI" \notin ImmOps
      BY DEF ImmOps
    <3> QED BY <1>2, <3>1, <3>2, ExecuteIs
  <2> HIDE DEF p, v
  <2>4. SetRspReg(m, i.rt, p).gpr = [k \in 1 .. LastReg |-> Low(Write(c, i.rt, v).gpr[k], 4)]
    BY <1>3, <2>2, RegistersAlike
  <2> QED BY <1>6, <2>1, <2>3, <2>4
<1> QED BY <1>4, <1>5, <1>6

\* The RSP's scalar unit computes the low word of what the CPU computes, and takes the same
\* branches by the same offset, in every state of the RSP and for every instruction they share.
THEOREM RspComputesAsTheCpu == RspCoreSpec => []RspAluIsCpuAlu
<1>1. RspInv => RspAluIsCpuAlu
  <2> SUFFICES ASSUME RspInv,
                      NEW i \in {j \in Instruction : j.op \in RspPlainOps \cup RspImmOps \cup RspBranchOps}
      PROVE  IF i.op \in RspBranchOps
             THEN Execute(CpuWith(rsp.gpr), i).next = IF RspTaken(i, RspReg(rsp, i.rs), RspReg(rsp, i.rt)) THEN <<"offset", Sign(i.imm, 2)>> ELSE "on"
             ELSE RspExecute(rsp, i).gpr = [k \in 1 .. LastReg |-> Low(Execute(CpuWith(rsp.gpr), i).gpr[k], 4)]
    BY DEF RspAluIsCpuAlu
  <2>1. Encoded(i)
    BY IsaAssumption
  <2>2. rsp \in RspMachine
    BY DEF RspInv, DecodedMachines
  <2> QED BY <2>1, <2>2, AluAlike
<1> QED BY <1>1, RspInvariant, PTL
==============================================================================

---------------------------- MODULE TimingProofs -----------------------------
(***************************************************************************)
(* Theorems about Scheduler for every number of queue cells and named      *)
(* slots, every callback set and every bound.                              *)
(*                                                                         *)
(* NothingOverdue is not inductive alone: that the loop ends only when     *)
(* nothing is due needs the minimum rules of dispatch_one_due, and those   *)
(* need deadlines to be integers, so the argument carries SchedTypeOK, and *)
(* a minimum of every set of deadlines to exist (LeastNatural).            *)
(*                                                                         *)
(* Theorems about Slice and Fields: every timer is served in time, the     *)
(* interrupt of COUNT and COMPARE as well, and a field raises the VI       *)
(* interrupt once.                                                         *)
(*                                                                         *)
(* TimersKeepTime and CpuTimerInTime hold for every batch, block, warp and *)
(* delay. What an armed timer's machine time and scheduler time disagree   *)
(* by (Lag) is fixed when it is armed: passing time, flushing a batch and  *)
(* warping leave it alone, so batches do not add up. COUNT stands at       *)
(* COMPARE only with the interrupt pending once an instruction has run, so *)
(* that a warp, bounded by the next meeting, cannot pass it.               *)
(*                                                                         *)
(* FieldInterrupts holds for every set of values the guest writes to       *)
(* V_SYNC and V_INTR. A field counts what it sets: after n half-lines it   *)
(* has set the interrupt once if V_INTR names one of them (SetBy), and     *)
(* V_CURRENT still holds the last one when the field's end compares it     *)
(* again.                                                                  *)
(***************************************************************************)
EXTENDS Scheduler, Slice, Fields, WellFoundedInduction, TLAPS

USE SchedulerAssumption

\* Every operation of the scheduler keeps its state well formed; in
\* particular no two pending events share a queue cell.
THEOREM SchedTypeCorrect == SchedSpec => []SchedTypeOK
<1> USE DEF SchedTypeOK, Event, NamedEvent, EmptySlot, NamedId
<1>1. SchedInit => SchedTypeOK
  <2>1. EmptySlot \in NamedEvent
    OBVIOUS
  <2>2. SchedInit => named \in [NamedId -> NamedEvent]
    BY <2>1 DEF SchedInit
  <2>3. SchedInit => ticking \in BOOLEAN
    BY DEF SchedInit
  <2>4. SchedInit => current_time \in 0 .. MaxTime
    BY DEF SchedInit
  <2>5. SchedInit => event_queue \subseteq Event /\ \A e, f \in event_queue : e.id = f.id => e = f
    BY DEF SchedInit
  <2>6. QED
    BY <2>2, <2>3, <2>4, <2>5, Zenon
<1>2. SchedTypeOK /\ [SchedNext]_schedVars => SchedTypeOK'
  <2> SUFFICES ASSUME SchedTypeOK, [SchedNext]_schedVars
               PROVE  SchedTypeOK'
    OBVIOUS
  <2>1. ASSUME NEW d \in 0 .. MaxDelay, NEW c \in Callback, SetTimer(d, c)
        PROVE  SchedTypeOK'
    BY <2>1 DEF SetTimer, PushTo, FreeCell
  <2>2. ASSUME NEW i \in NamedId, NEW d \in 0 .. MaxDelay, NEW c \in Callback,
               ScheduleNamed(i, d, c)
        PROVE  SchedTypeOK'
    BY <2>2 DEF ScheduleNamed
  <2>3. ASSUME NEW i \in NamedId, CancelNamed(i)
        PROVE  SchedTypeOK'
    BY <2>3 DEF CancelNamed
  <2>4. ASSUME NEW n \in 0 .. MaxTick, TickBegin(n)
        PROVE  SchedTypeOK'
    BY <2>4 DEF TickBegin
  <2>5. ASSUME NEW e \in event_queue, DispatchQueued(e)
        PROVE  SchedTypeOK'
    BY <2>5 DEF DispatchQueued
  <2>6. ASSUME NEW i \in NamedId, DispatchNamed(i)
        PROVE  SchedTypeOK'
    BY <2>6 DEF DispatchNamed, Fired
  <2>7. CASE TickEnd
    BY <2>7 DEF TickEnd
  <2>8. CASE Restart
    BY <2>8 DEF Restart
  <2>9. CASE UNCHANGED schedVars
    BY <2>9 DEF schedVars
  <2>10. QED
    BY <2>1, <2>2, <2>3, <2>4, <2>5, <2>6, <2>7, <2>8, <2>9 DEF SchedNext
<1>3. QED
  BY <1>1, <1>2, PTL DEF SchedSpec

-----------------------------------------------------------------------------
(***************************************************************************)
(* The minima that dispatch_one_due computes exist.                        *)
(***************************************************************************)

\* A non-empty set of naturals has a least element.
LEMMA LeastNatural ==
  ASSUME NEW T, T \subseteq Nat, T # {}
  PROVE  \E x \in T : \A y \in T : x <= y
<1> DEFINE R == OpToRel(<, Nat)
<1>1. IsWellFoundedOn(R, Nat)
  BY NatLessThanWellFounded
<1>2. PICK x \in T : \A y \in T : ~(<<y, x>> \in R)
  <2> HIDE DEF R
  <2> QED BY <1>1, WFMin
<1>3. ASSUME NEW y \in T
      PROVE  x <= y
  <2>1. CASE y < x
    <3>1. <<y, x>> \in R
      BY <2>1 DEF OpToRel
    <3> QED BY <1>2, <3>1
  <2>2. CASE ~(y < x)
    BY <2>2
  <2> QED BY <2>1, <2>2
<1> QED BY <1>3

\* A queue that holds an event has a top.
LEMMA QueueHasTop ==
  ASSUME SchedTypeOK, event_queue # {}
  PROVE  \E e \in event_queue : e \in QueueTop
<1> DEFINE D == {e.at : e \in event_queue}
<1>1. D \subseteq Nat /\ D # {}
  BY DEF SchedTypeOK, Event
<1>2. PICK m \in D : \A t \in D : m <= t
  <2> HIDE DEF D
  <2> QED BY <1>1, LeastNatural
<1>3. PICK e \in event_queue : e.at = m
  OBVIOUS
<1>4. \A f \in event_queue : e.at <= f.at
  BY <1>2, <1>3
<1> QED BY <1>4 DEF QueueTop

\* When a named slot is armed, exactly the loop's choice exists: an armed
\* slot of least deadline, the lowest numbered among those.
LEMMA ArmedHasBest ==
  ASSUME SchedTypeOK, Armed # {}
  PROVE  \E i \in Armed : i \in BestNamed
<1> DEFINE D == {named[i].at : i \in Armed}
<1>1. D \subseteq Nat /\ D # {}
  BY DEF SchedTypeOK, NamedEvent, Armed
<1>2. PICK m \in D : \A t \in D : m <= t
  <2> HIDE DEF D
  <2> QED BY <1>1, LeastNatural
<1> DEFINE S == {i \in Armed : named[i].at = m}
<1>3. S \subseteq Nat /\ S # {}
  BY DEF Armed, NamedId
<1>4. PICK i \in S : \A j \in S : i <= j
  <2> HIDE DEF S
  <2> QED BY <1>3, LeastNatural
<1>5. ASSUME NEW j \in Armed
      PROVE  \/ named[i].at < named[j].at
             \/ named[i].at = named[j].at /\ i <= j
  <2>1. named[i].at = m /\ named[j].at \in Nat /\ m \in Nat /\ m <= named[j].at
    BY <1>1, <1>2
  <2>2. CASE named[j].at = m
    BY <1>4, <2>1, <2>2
  <2>3. CASE named[j].at # m
    BY <2>1, <2>3
  <2> QED BY <2>2, <2>3
<1> QED BY <1>5 DEF BestNamed

\* dispatch_one_due returns false only when no deadline has been reached.
LEMMA LoopEndsClean ==
  ASSUME SchedTypeOK, TickEnd
  PROVE  \A t \in Deadlines : t > current_time
<1> USE DEF SchedTypeOK, Event, NamedEvent
<1>1. /\ ticking
      /\ \A e \in event_queue : ~QueueDue(e)
      /\ \A i \in NamedId : ~NamedDue(i)
  BY DEF TickEnd
<1>2. current_time \in Nat
  OBVIOUS
<1>3. /\ \A e \in event_queue : e.at \in Nat
      /\ \A i \in Armed : named[i].at \in Nat
  BY DEF Armed
<1>4. ASSUME NEW e \in QueueTop, QueueFirst(e)
      PROVE  \A t \in Deadlines : t > current_time
  <2>1. e \in event_queue /\ e.at > current_time
    BY <1>1, <1>2, <1>3, <1>4 DEF QueueDue, QueueTop
  <2>2. \A f \in event_queue : e.at <= f.at
    BY DEF QueueTop
  <2>3. \A i \in Armed : e.at <= named[i].at
    BY <1>4 DEF QueueFirst
  <2> QED BY <1>2, <1>3, <2>1, <2>2, <2>3 DEF Deadlines
<1>5. ASSUME \A e \in QueueTop : ~QueueFirst(e), Armed # {}
      PROVE  \A t \in Deadlines : t > current_time
  <2>1. PICK b \in Armed : b \in BestNamed
    BY <1>5, ArmedHasBest
  <2>2. named[b].at > current_time
    BY <1>1, <1>2, <1>3, <1>5, <2>1 DEF NamedDue, Armed
  <2>3. \A i \in Armed : named[b].at <= named[i].at
    BY <1>3, <2>1 DEF BestNamed
  <2>4. ASSUME NEW e \in event_queue
        PROVE  e.at > current_time
    <3>1. PICK f \in event_queue : f \in QueueTop
      BY QueueHasTop
    <3>2. PICK i \in Armed : ~(f.at <= named[i].at)
      BY <1>5, <3>1 DEF QueueFirst
    <3>3. f.at <= e.at
      BY <3>1 DEF QueueTop
    <3> QED BY <1>2, <1>3, <2>2, <2>3, <3>2, <3>3
  <2> QED BY <1>2, <1>3, <2>2, <2>3, <2>4 DEF Deadlines
<1>6. ASSUME \A e \in QueueTop : ~QueueFirst(e), Armed = {}
      PROVE  \A t \in Deadlines : t > current_time
  <2>1. event_queue = {}
    BY <1>6, QueueHasTop DEF QueueFirst
  <2> QED BY <1>6, <2>1 DEF Deadlines
<1> QED BY <1>4, <1>5, <1>6

-----------------------------------------------------------------------------
(***************************************************************************)
(* No event is overdue when tick() returns.                                *)
(***************************************************************************)

\* Outside tick() every armed deadline is now or later: the property that
\* lets devices treat "my event is pending" as "my deadline is ahead".
THEOREM SchedNothingOverdue == SchedSpec => []NothingOverdue
<1> DEFINE Inv == SchedTypeOK /\ NothingOverdue
<1>1. SchedInit => NothingOverdue
  BY DEF SchedInit, NothingOverdue, Deadlines, Armed, EmptySlot
<1>2. Inv /\ SchedTypeOK' /\ [SchedNext]_schedVars => NothingOverdue'
  <2> SUFFICES ASSUME SchedTypeOK, NothingOverdue, SchedTypeOK',
                      [SchedNext]_schedVars, ~ticking',
                      NEW t \in Deadlines'
               PROVE  t >= current_time'
    BY DEF NothingOverdue
  <2>0. ~ticking => \A u \in Deadlines : u >= current_time
    BY DEF NothingOverdue
  <2>1. ASSUME NEW d \in 0 .. MaxDelay, NEW c \in Callback, SetTimer(d, c)
        PROVE  t >= current_time'
    BY <2>0, <2>1 DEF SetTimer, PushTo, SchedTypeOK, Deadlines, Armed
  <2>2. ASSUME NEW i \in NamedId, NEW d \in 0 .. MaxDelay, NEW c \in Callback,
               ScheduleNamed(i, d, c)
        PROVE  t >= current_time'
    BY <2>0, <2>2 DEF ScheduleNamed, SchedTypeOK, Deadlines, Armed
  <2>3. ASSUME NEW i \in NamedId, CancelNamed(i)
        PROVE  t >= current_time'
    BY <2>0, <2>3 DEF CancelNamed, EmptySlot, SchedTypeOK, Deadlines, Armed
  <2>4. ASSUME NEW n \in 0 .. MaxTick, TickBegin(n)
        PROVE  FALSE
    BY <2>4 DEF TickBegin
  <2>5. ASSUME NEW e \in event_queue, DispatchQueued(e)
        PROVE  FALSE
    BY <2>5 DEF DispatchQueued, QueueDue
  <2>6. ASSUME NEW i \in NamedId, DispatchNamed(i)
        PROVE  FALSE
    BY <2>6 DEF DispatchNamed, NamedDue
  <2>7. CASE TickEnd
    <3>1. \A u \in Deadlines : u > current_time
      BY <2>7, LoopEndsClean
    <3>2. Deadlines' = Deadlines /\ current_time' = current_time
      BY <2>7 DEF TickEnd, Deadlines, Armed
    <3>3. Deadlines \subseteq Nat /\ current_time \in Nat
      BY DEF SchedTypeOK, Event, NamedEvent, Deadlines, Armed
    <3> QED BY <3>1, <3>2, <3>3
  <2>8. CASE Restart
    BY <2>8 DEF Restart, EmptySlot, Deadlines, Armed
  <2>9. CASE UNCHANGED schedVars
    BY <2>0, <2>9 DEF schedVars, Deadlines, Armed
  <2>10. QED
    BY <2>1, <2>2, <2>3, <2>4, <2>5, <2>6, <2>7, <2>8, <2>9 DEF SchedNext
<1>3. QED
  BY <1>1, <1>2, SchedTypeCorrect, PTL DEF SchedSpec

-----------------------------------------------------------------------------
(***************************************************************************)
(* Idle skip.                                                              *)
(***************************************************************************)

\* cycles_until_next_event() is a lower bound of what lies ahead.
LEMMA NextEventIsLeast ==
  ASSUME SchedTypeOK, NEW t \in Deadlines
  PROVE  \/ /\ CyclesUntilNextEvent \in Nat
            /\ CyclesUntilNextEvent + current_time <= t
         \/ CyclesUntilNextEvent = 0
<1>1. Deadlines \subseteq Nat /\ current_time \in Nat
  BY DEF SchedTypeOK, Event, NamedEvent, Deadlines, Armed
<1>2. /\ Earliest(Deadlines) \in Deadlines
      /\ \A u \in Deadlines : Earliest(Deadlines) <= u
  <2>1. \E v \in Deadlines : \A u \in Deadlines : v <= u
    BY <1>1, LeastNatural
  <2> QED BY <2>1 DEF Earliest
<1> DEFINE m == Earliest(Deadlines)
<1>3. CyclesUntilNextEvent = IF m <= current_time THEN 0 ELSE m - current_time
  BY DEF CyclesUntilNextEvent
<1>4. m \in Nat /\ t \in Nat /\ m <= t
  BY <1>1, <1>2
<1> HIDE DEF m
<1> QED BY <1>1, <1>3, <1>4

\* A step of fewer cycles than c stays short of what is c cycles ahead.
LEMMA ShortOfDeadline ==
  ASSUME NEW now \in Nat, NEW later \in Nat, NEW c \in Nat, NEW t \in Nat,
         later - now \in 1 .. c - 1, c + now <= t
  PROVE  later < t
  OBVIOUS

\* A tick shorter than cycles_until_next_event() reaches no deadline, so idle
\* skip may warp the clock by it without dispatching anything.
THEOREM SchedIdleWarpIsSilent == SchedSpec => IdleWarpIsSilent
<1>1. SchedTypeOK /\ [SchedNext]_schedVars
        => [current_time' - current_time \in 1 .. CyclesUntilNextEvent - 1
              => \A t \in Deadlines' : t > current_time']_schedVars
  <2> SUFFICES ASSUME SchedTypeOK, [SchedNext]_schedVars,
                      current_time' - current_time \in 1 .. CyclesUntilNextEvent - 1,
                      NEW t \in Deadlines'
               PROVE  t > current_time'
    OBVIOUS
  <2>1. current_time \in Nat
    BY DEF SchedTypeOK
  <2>2. PICK n \in 0 .. MaxTick : TickBegin(n)
    BY <2>1
    DEF SchedNext, schedVars, SetTimer, ScheduleNamed, CancelNamed,
        DispatchQueued, DispatchNamed, TickEnd, Restart
  <2>3. /\ current_time' \in Nat
        /\ Deadlines' = Deadlines
    BY <2>1, <2>2 DEF TickBegin, Deadlines, Armed
  <2>4. Deadlines \subseteq Nat
    BY DEF SchedTypeOK, Event, NamedEvent, Deadlines, Armed
  <2> DEFINE c == CyclesUntilNextEvent
  <2> HIDE DEF c
  <2>a. current_time' - current_time \in 1 .. c - 1
    BY DEF c
  <2>5. CASE c = 0
    BY <2>a, <2>1, <2>3, <2>5
  <2>6. CASE c \in Nat /\ c + current_time <= t
    <3>1. t \in Nat
      BY <2>3, <2>4
    <3> QED BY <2>a, <2>1, <2>3, <2>6, <3>1, ShortOfDeadline
  <2> QED BY <2>3, <2>5, <2>6, NextEventIsLeast DEF c
<1> QED BY <1>1, SchedTypeCorrect, PTL DEF SchedSpec, IdleWarpIsSilent

-----------------------------------------------------------------------------
(***************************************************************************)
(* The queue and the named slots implement TimerService.                   *)
(***************************************************************************)

\* Every behaviour of the scheduler is one of TimerService: a step of the
\* queue or of a named slot is a step of the one set of timers.
THEOREM SchedulerImplementsTimerService == SchedSpec => ImplementsTimerService
<1>1. SchedInit => Timers!Init
  BY DEF SchedInit, Timers!Init, AllTimers, Armed, EmptySlot
<1>2. SchedTypeOK /\ [SchedNext]_schedVars => [Timers!Next]_Timers!vars
  <2> SUFFICES ASSUME SchedTypeOK, [SchedNext]_schedVars
               PROVE  Timers!Next \/ UNCHANGED Timers!vars
    OBVIOUS
  <2>a. \A e : /\ QueueTimer(e).key = <<"queue", e.id>>
               /\ QueueTimer(e).at = e.at
    BY DEF QueueTimer
  <2>b. \A i, s : /\ NamedTimer(i, s).key = <<"named", i>>
                  /\ NamedTimer(i, s).at = s.at
    BY DEF NamedTimer
  <2>1. ASSUME NEW d \in 0 .. MaxDelay, NEW c \in Callback, SetTimer(d, c)
        PROVE  Timers!Next
    <3>1. PICK i \in FreeCell(event_queue) :
            event_queue' = event_queue
              \cup {[id |-> i, at |-> current_time + d, cb |-> c]}
      BY <2>1 DEF SetTimer, PushTo
    <3> DEFINE E == [id |-> i, at |-> current_time + d, cb |-> c]
               T == [key |-> <<"queue", i>>, at |-> current_time + d, cb |-> c]
    <3>2. Armed' = Armed /\ named' = named
      BY <2>1 DEF SetTimer, Armed
    <3>3. QueueTimer(E) = T
      BY DEF QueueTimer
    <3>4. AllTimers' = AllTimers \cup {T}
      <4> HIDE DEF E, T
      <4>1. event_queue' = event_queue \cup {E}
        BY <3>1 DEF E
      <4> QED BY <4>1, <3>2, <3>3 DEF AllTimers
    <3>5. \A t \in AllTimers : t.key # <<"queue", i>>
      BY <2>a, <2>b DEF FreeCell, AllTimers
    <3>6. Timers!Arm(<<"queue", i>>, d, c)
      BY <2>1, <3>4, <3>5 DEF SetTimer, Timers!Arm, Timers!Without
    <3>7. <<"queue", i>> \in TimerKey
      BY DEF FreeCell, TimerKey
    <3> QED BY <3>6, <3>7 DEF Timers!Next
  <2>2. ASSUME NEW i \in NamedId, NEW d \in 0 .. MaxDelay, NEW c \in Callback,
               ScheduleNamed(i, d, c)
        PROVE  Timers!Next
    <3> DEFINE S == [enabled |-> TRUE, at |-> current_time + d, cb |-> c]
               T == [key |-> <<"named", i>>, at |-> current_time + d, cb |-> c]
    <3>1. /\ \A j \in NamedId : j # i => named'[j] = named[j]
          /\ named'[i] = S
          /\ event_queue' = event_queue
      BY <2>2 DEF ScheduleNamed, SchedTypeOK
    <3>2. S.enabled
      OBVIOUS
    <3>3. Armed' = Armed \cup {i}
      <4> HIDE DEF S
      <4> QED BY <3>1, <3>2 DEF Armed
    <3>4. NamedTimer(i, S) = T
      BY DEF NamedTimer
    <3>5. AllTimers' = Timers!Without(<<"named", i>>) \cup {T}
      <4> HIDE DEF S, T
      <4> QED BY <2>a, <2>b, <3>1, <3>3, <3>4
              DEF AllTimers, Timers!Without, Armed
    <3>6. Timers!Arm(<<"named", i>>, d, c)
      BY <2>2, <3>5 DEF ScheduleNamed, Timers!Arm
    <3> QED BY <3>6 DEF Timers!Next, TimerKey
  <2>3. ASSUME NEW i \in NamedId, CancelNamed(i)
        PROVE  Timers!Next
    <3>1. /\ \A j \in NamedId : j # i => named'[j] = named[j]
          /\ ~named'[i].enabled
          /\ event_queue' = event_queue
      BY <2>3 DEF CancelNamed, SchedTypeOK, EmptySlot
    <3>2. AllTimers' = Timers!Without(<<"named", i>>)
      BY <2>a, <2>b, <3>1 DEF AllTimers, Timers!Without, Armed
    <3>3. Timers!Disarm(<<"named", i>>)
      BY <2>3, <3>2 DEF CancelNamed, Timers!Disarm
    <3> QED BY <3>3 DEF Timers!Next, TimerKey
  <2>4. ASSUME NEW n \in 0 .. MaxTick, TickBegin(n)
        PROVE  Timers!Next
    <3>1. Timers!Advance(n)
      BY <2>4 DEF TickBegin, Timers!Advance, AllTimers, Armed
    <3> QED BY <3>1 DEF Timers!Next
  <2>5. ASSUME NEW e \in event_queue, DispatchQueued(e)
        PROVE  Timers!Next
    <3>1. event_queue' = event_queue \ {e} /\ Armed' = Armed /\ named' = named
      BY <2>5 DEF DispatchQueued, Armed
    <3>2. \A f \in event_queue : QueueTimer(f) = QueueTimer(e) => f = e
      BY <2>a DEF SchedTypeOK
    <3>3. AllTimers' = AllTimers \ {QueueTimer(e)}
      BY <2>a, <2>b, <3>1, <3>2 DEF AllTimers
    <3>4. /\ \A f \in event_queue : e.at <= f.at
          /\ \A j \in Armed : e.at <= named[j].at
      BY <2>5 DEF DispatchQueued, QueueDue, QueueTop, QueueFirst
    <3>5. /\ QueueTimer(e) \in AllTimers
          /\ \A u \in AllTimers : QueueTimer(e).at <= u.at
      <4>1. QueueTimer(e) \in AllTimers
        BY <2>5 DEF AllTimers, DispatchQueued, QueueDue, QueueTop
      <4>2. QueueTimer(e).at = e.at
        BY <2>a
      <4>3. ASSUME NEW u \in AllTimers
            PROVE  e.at <= u.at
        <5>1. CASE \E f \in event_queue : u = QueueTimer(f)
          BY <5>1, <2>a, <3>4
        <5>2. CASE \E j \in Armed : u = NamedTimer(j, named[j])
          BY <5>2, <2>b, <3>4
        <5> QED BY <5>1, <5>2 DEF AllTimers
      <4> QED BY <4>1, <4>2, <4>3
    <3>6. Timers!Expire(QueueTimer(e))
      BY <2>5, <2>a, <3>3, <3>5 DEF DispatchQueued, QueueDue, Timers!Expire
    <3> QED BY <3>5, <3>6 DEF Timers!Next
  <2>6. ASSUME NEW i \in NamedId, DispatchNamed(i)
        PROVE  Timers!Next
    <3> DEFINE T == NamedTimer(i, named[i])
    <3>1. i \in BestNamed /\ i \in Armed
      BY <2>6 DEF DispatchNamed, NamedDue, BestNamed
    <3>2. /\ \A j \in NamedId : j # i => named'[j] = named[j]
          /\ ~named'[i].enabled
          /\ event_queue' = event_queue
      BY <2>6 DEF DispatchNamed, Fired, SchedTypeOK
    <3>3. AllTimers' = AllTimers \ {T}
      BY <2>a, <2>b, <3>2 DEF AllTimers, Armed
    <3>4. \A j \in Armed : named[i].at <= named[j].at
      BY <3>1 DEF BestNamed, SchedTypeOK, NamedEvent, Armed
    <3>5. \A f \in event_queue : named[i].at <= f.at
      <4> SUFFICES ASSUME NEW f \in event_queue
                   PROVE  named[i].at <= f.at
        OBVIOUS
      <4>1. PICK e \in event_queue : e \in QueueTop
        BY QueueHasTop
      <4>2. PICK j \in Armed : ~(e.at <= named[j].at)
        BY <2>6, <4>1 DEF DispatchNamed, NamedDue, QueueFirst
      <4>3. e.at <= f.at
        BY <4>1 DEF QueueTop
      <4>4. /\ named[i].at \in Nat /\ named[j].at \in Nat
            /\ e.at \in Nat /\ f.at \in Nat
        BY DEF SchedTypeOK, Event, NamedEvent, Armed
      <4> QED BY <3>4, <4>2, <4>3, <4>4
    <3>6. T \in AllTimers /\ \A u \in AllTimers : T.at <= u.at
      <4>1. T \in AllTimers
        BY <3>1 DEF AllTimers
      <4>2. T.at = named[i].at
        BY <2>b
      <4>3. ASSUME NEW u \in AllTimers
            PROVE  named[i].at <= u.at
        <5>1. CASE \E f \in event_queue : u = QueueTimer(f)
          BY <5>1, <2>a, <3>5
        <5>2. CASE \E j \in Armed : u = NamedTimer(j, named[j])
          BY <5>2, <2>b, <3>4
        <5> QED BY <5>1, <5>2 DEF AllTimers
      <4> HIDE DEF T
      <4> QED BY <4>1, <4>2, <4>3
    <3>7. Timers!Expire(T)
      BY <2>6, <2>b, <3>3, <3>6 DEF DispatchNamed, NamedDue, Timers!Expire
    <3> QED BY <3>6, <3>7 DEF Timers!Next
  <2>7. CASE TickEnd
    <3>1. \A t \in AllTimers : t.at > current_time
      BY <2>7, <2>a, <2>b, LoopEndsClean DEF Deadlines, AllTimers
    <3>2. Timers!Rest
      BY <2>7, <3>1 DEF TickEnd, Timers!Rest, AllTimers, Armed
    <3> QED BY <3>2 DEF Timers!Next
  <2>8. CASE Restart
    <3>1. AllTimers' = {}
      BY <2>8 DEF Restart, EmptySlot, AllTimers, Armed
    <3>2. Timers!Restart
      BY <2>8, <3>1 DEF Restart, Timers!Restart
    <3> QED BY <3>2 DEF Timers!Next
  <2>9. CASE UNCHANGED schedVars
    BY <2>9 DEF schedVars, Timers!vars, AllTimers, Armed
  <2>10. QED
    BY <2>1, <2>2, <2>3, <2>4, <2>5, <2>6, <2>7, <2>8, <2>9 DEF SchedNext
<1>3. QED
  BY <1>1, <1>2, SchedTypeCorrect, PTL
  DEF SchedSpec, ImplementsTimerService, Timers!Spec

HIDE SchedulerAssumption
USE SliceAssumption

Clock == [total : Nat, budget : Nat, pending : Nat, left : Nat, idle : BOOLEAN,
          due : Nat \cup {NoTimer}, want : Int, error : Int,
          toCompare : 0 .. CountMod - 1, ip7 : BOOLEAN, late : Nat]

\* By how much the scheduler will be late with the timer, its batch counted.
Lag(c) == c.want - (c.due - c.pending)

\* The last timer was at most k early or late, and so will be the armed one.
Timed(c, k) ==
    /\ -k <= c.error /\ c.error <= k
    /\ c.due # NoTimer => 0 <= Lag(c) /\ Lag(c) <= k /\ -k <= c.want

\* COUNT passed COMPARE by at most a block, and not unnoticed.
Counted(c) == c.late <= BlockMax /\ (c.late > 0 => c.ip7)
Noticed(c) == c.toCompare = 0 => c.ip7

Slack == IF engine = "interp" THEN AdvanceEvery ELSE AdvanceEvery + BlockMax

SliceInv ==
    /\ engine \in {"interp", "jit"}
    /\ clk \in Clock /\ clk.pending < AdvanceEvery /\ ~clk.idle
    /\ Timed(clk, Slack) /\ Counted(clk)

-----------------------------------------------------------------------------
(***************************************************************************)
(* What the operators do to a clock.                                       *)
(***************************************************************************)

LEMMA TickClock ==
  ASSUME NEW c \in Clock, NEW n \in Nat
  PROVE  /\ Tick(c, n) \in Clock
         /\ Tick(c, n).pending = c.pending /\ Tick(c, n).idle = c.idle
         /\ Tick(c, n).toCompare = c.toCompare /\ Tick(c, n).ip7 = c.ip7 /\ Tick(c, n).late = c.late
         /\ Tick(c, n).total = c.total /\ Tick(c, n).budget = c.budget
<1>1. CASE c.due = NoTimer
  BY <1>1 DEF Tick
<1>2. CASE c.due # NoTimer /\ c.due > n
  <2>1. c.due - n \in Nat
    BY <1>2 DEF Clock
  <2>2. PICK m \in Nat : m = c.due - n
    BY <2>1
  <2>3. Tick(c, n) = [c EXCEPT !.due = m]
    BY <1>2, <2>2 DEF Tick, Clock
  <2>4. QED
    BY <2>3 DEF Clock
<1>3. CASE c.due # NoTimer /\ ~(c.due > n)
  <2>1. PICK e \in Int : e = -c.want
    BY DEF Clock
  <2>2. Tick(c, n) = [c EXCEPT !.due = NoTimer, !.want = 0, !.error = e]
    BY <1>3, <2>1 DEF Tick
  <2> DEFINE d == [c EXCEPT !.due = NoTimer]
             f == [d EXCEPT !.want = 0]
  <2>3. /\ d \in Clock /\ d.pending = c.pending /\ d.idle = c.idle /\ d.toCompare = c.toCompare
        /\ d.ip7 = c.ip7 /\ d.late = c.late /\ d.total = c.total /\ d.budget = c.budget
    BY DEF Clock
  <2> HIDE DEF d
  <2>4. /\ f \in Clock /\ f.pending = d.pending /\ f.idle = d.idle /\ f.toCompare = d.toCompare
        /\ f.ip7 = d.ip7 /\ f.late = d.late /\ f.total = d.total /\ f.budget = d.budget
    BY <2>3 DEF Clock
  <2>5. Tick(c, n) = [f EXCEPT !.error = e]
    BY <2>2 DEF d, f
  <2> HIDE DEF f
  <2>6. QED
    BY <2>3, <2>4, <2>5 DEF Clock
<1>4. QED
  BY <1>1, <1>2, <1>3

LEMMA TickTimer ==
  ASSUME NEW c \in Clock, NEW n \in Nat
  PROVE  /\ c.due = NoTimer => Tick(c, n) = c
         /\ c.due # NoTimer /\ c.due > n =>
                Tick(c, n).due = c.due - n /\ Tick(c, n).want = c.want /\ Tick(c, n).error = c.error
         /\ c.due # NoTimer /\ ~(c.due > n) => Tick(c, n).due = NoTimer /\ Tick(c, n).error = -c.want
BY DEF Tick, Clock

LEMMA PassClock ==
  ASSUME NEW c \in Clock, NEW n \in Nat
  PROVE  /\ Pass(c, n) \in Clock
         /\ Pass(c, n).want = IF c.due = NoTimer THEN c.want ELSE c.want - n
         /\ Pass(c, n).pending = c.pending /\ Pass(c, n).due = c.due /\ Pass(c, n).error = c.error
         /\ Pass(c, n).idle = c.idle /\ Pass(c, n).toCompare = c.toCompare
         /\ Pass(c, n).ip7 = c.ip7 /\ Pass(c, n).late = c.late
BY DEF Pass, Clock

LEMMA ConsumeClock ==
  ASSUME NEW c \in Clock, NEW n \in Nat
  PROVE  /\ Consume(c, n) \in Clock
         /\ Consume(c, n).pending = c.pending /\ Consume(c, n).due = c.due
         /\ Consume(c, n).want = c.want /\ Consume(c, n).error = c.error
         /\ Consume(c, n).idle = c.idle /\ Consume(c, n).toCompare = c.toCompare
         /\ Consume(c, n).ip7 = c.ip7 /\ Consume(c, n).late = c.late
         /\ Consume(c, n).total = c.total
BY DEF Consume, Clock

LEMMA Remainders ==
  ASSUME NEW n \in Int
  PROVE  /\ n % CountMod \in 0 .. CountMod - 1
         /\ n \in 0 .. CountMod - 1 => n % CountMod = n
OBVIOUS

LEMMA AddCountClock ==
  ASSUME NEW c \in Clock, NEW n \in Nat
  PROVE  /\ AddCount(c, n) \in Clock
         /\ AddCount(c, n).pending = c.pending /\ AddCount(c, n).due = c.due
         /\ AddCount(c, n).want = c.want /\ AddCount(c, n).error = c.error
         /\ AddCount(c, n).idle = c.idle /\ AddCount(c, n).total = c.total
         /\ AddCount(c, n).ip7 = (c.ip7 \/ c.toCompare <= n)
         /\ AddCount(c, n).toCompare = (c.toCompare - n) % CountMod
         /\ AddCount(c, n).late = IF ~c.ip7 /\ c.toCompare <= n THEN n - c.toCompare ELSE 0
<1>1. c.toCompare \in 0 .. CountMod - 1 /\ (c.toCompare - n) % CountMod \in 0 .. CountMod - 1
  BY Remainders DEF Clock
<1>2. (IF ~c.ip7 /\ c.toCompare <= n THEN n - c.toCompare ELSE 0) \in Nat
  BY <1>1
<1>3. (c.ip7 \/ c.toCompare <= n) \in BOOLEAN
  OBVIOUS
<1>4. QED
  BY <1>1, <1>2, <1>3 DEF AddCount, Clock

\* COUNT that advances notices COMPARE at both ends of the step.
LEMMA AddCountNotices ==
  ASSUME NEW c \in Clock, NEW n \in Nat, n > 0 \/ Noticed(c)
  PROVE  Noticed(AddCount(c, n)) /\ (AddCount(c, n).late > 0 => AddCount(c, n).ip7)
<1>1. c.toCompare \in 0 .. CountMod - 1
  BY DEF Clock
<1>2. CASE c.toCompare <= n
  BY <1>2, AddCountClock DEF Noticed
<1>3. CASE ~(c.toCompare <= n)
  <2>1. (c.toCompare - n) % CountMod = c.toCompare - n
    BY <1>1, <1>3, Remainders
  <2>2. AddCount(c, n).toCompare = c.toCompare - n
    BY <2>1, AddCountClock
  <2>3. AddCount(c, n).late = 0
    BY <1>3, AddCountClock
  <2>4. c.toCompare - n # 0
    BY <1>1, <1>3
  <2>5. QED
    BY <2>2, <2>3, <2>4 DEF Noticed
<1>4. QED
  BY <1>2, <1>3

-----------------------------------------------------------------------------
(***************************************************************************)
(* Flushing and warping keep a clock's promises.                           *)
(***************************************************************************)

LEMMA FlushClock ==
  ASSUME NEW c \in Clock, NEW k \in Nat, Timed(c, k)
  PROVE  /\ Flush(c) \in Clock /\ Flush(c).pending = 0 /\ Timed(Flush(c), k)
         /\ Flush(c).idle = c.idle /\ Flush(c).toCompare = c.toCompare
         /\ Flush(c).ip7 = c.ip7 /\ Flush(c).late = c.late
<1>1. CASE c.pending = 0
  BY <1>1 DEF Flush
<1>2. CASE c.pending # 0
  <2> DEFINE t == Tick(c, c.pending)
  <2>1. Flush(c) = [t EXCEPT !.pending = 0] /\ c.pending \in Nat
    BY <1>2 DEF Flush, Clock
  <2>2. /\ t \in Clock /\ t.idle = c.idle
        /\ t.toCompare = c.toCompare /\ t.ip7 = c.ip7 /\ t.late = c.late
    BY <2>1, TickClock
  <2>3. /\ c.due = NoTimer => t = c
        /\ c.due # NoTimer /\ c.due > c.pending =>
               t.due = c.due - c.pending /\ t.want = c.want /\ t.error = c.error
        /\ c.due # NoTimer /\ ~(c.due > c.pending) => t.due = NoTimer /\ t.error = -c.want
    BY <2>1, TickTimer
  <2> HIDE DEF t
  <2>4. /\ Flush(c) \in Clock /\ Flush(c).pending = 0
        /\ Flush(c).idle = c.idle /\ Flush(c).toCompare = c.toCompare
        /\ Flush(c).ip7 = c.ip7 /\ Flush(c).late = c.late
        /\ Flush(c).due = t.due /\ Flush(c).want = t.want /\ Flush(c).error = t.error
    BY <2>1, <2>2 DEF Clock
  <2>5. c.want \in Int /\ c.error \in Int /\ (c.due = NoTimer \/ c.due \in Nat)
    BY DEF Clock
  <2>6. Timed(Flush(c), k)
    <3>1. CASE c.due = NoTimer
      BY <2>3, <2>4, <3>1 DEF Timed
    <3>2. CASE c.due # NoTimer /\ c.due > c.pending
      BY <2>1, <2>3, <2>4, <2>5, <3>2 DEF Timed, Lag
    <3>3. CASE c.due # NoTimer /\ ~(c.due > c.pending)
      BY <2>1, <2>3, <2>4, <2>5, <3>3 DEF Timed, Lag
    <3>4. QED
      BY <3>1, <3>2, <3>3
  <2>7. QED
    BY <2>4, <2>6
<1>3. QED
  BY <1>1, <1>2

\* A warp ends before the timer is overdue and before COUNT passes COMPARE.
LEMMA WarpBounded ==
  ASSUME NEW c \in Clock
  PROVE  /\ Warp(c) \in Nat
         /\ c.due # NoTimer => Warp(c) <= c.due
         /\ c.toCompare # 0 => Warp(c) <= c.toCompare
<1>1. c.toCompare \in Nat /\ c.left \in Nat /\ (c.due = NoTimer \/ c.due \in Nat)
  BY DEF Clock
<1> DEFINE quiet == Lesser(UntilEvent(c), UntilCompare(c))
           skip == IF c.left > 0 THEN Lesser(quiet, c.left) ELSE quiet
<1>2. UntilEvent(c) \in Nat /\ (c.due # NoTimer => UntilEvent(c) = c.due)
  BY <1>1 DEF UntilEvent
<1>3. UntilCompare(c) \in Nat /\ (c.toCompare # 0 => UntilCompare(c) = c.toCompare)
  BY <1>1 DEF UntilCompare
<1>4. quiet \in Nat /\ quiet <= UntilEvent(c) /\ quiet <= UntilCompare(c)
  BY <1>2, <1>3 DEF Lesser
<1> HIDE DEF quiet
<1>5. skip \in Nat /\ skip <= quiet
  BY <1>1, <1>4 DEF Lesser
<1>6. Warp(c) = IF skip < MinWarp \/ skip = Infinite THEN 0 ELSE Lesser(skip, MaxWarp)
  BY DEF Warp, quiet
<1> HIDE DEF skip
<1>7. Warp(c) \in Nat /\ Warp(c) <= skip
  BY <1>5, <1>6 DEF Lesser
<1>8. QED
  BY <1>1, <1>2, <1>3, <1>4, <1>5, <1>7

\* The machine goes n cycles on at once: COUNT, the scheduler and the timer together.
LEMMA WarpKeeps ==
  ASSUME NEW f \in Clock, NEW k \in Nat, NEW n \in Nat, Timed(f, k), Noticed(f),
         f.pending = 0, f.due # NoTimer => n <= f.due, f.toCompare # 0 => n <= f.toCompare
  PROVE  LET w == Tick(AddCount(Pass(f, n), n), n)
         IN  w \in Clock /\ w.pending = 0 /\ w.idle = f.idle /\ Timed(w, k) /\ Counted(w)
<1> DEFINE p == Pass(f, n)
           a == AddCount(p, n)
           w == Tick(a, n)
<1>1. /\ p \in Clock /\ p.want = IF f.due = NoTimer THEN f.want ELSE f.want - n
      /\ p.pending = 0 /\ p.due = f.due /\ p.error = f.error /\ p.idle = f.idle
      /\ p.toCompare = f.toCompare /\ p.ip7 = f.ip7
  BY PassClock
<1> HIDE DEF p
<1>2. /\ a \in Clock /\ a.pending = 0 /\ a.due = f.due /\ a.want = p.want
      /\ a.error = f.error /\ a.idle = f.idle
  BY <1>1, AddCountClock
<1>3. a.late = IF ~p.ip7 /\ p.toCompare <= n THEN n - p.toCompare ELSE 0
  BY <1>1, AddCountClock
<1> HIDE DEF a
<1>4. a.late = 0
  BY <1>1, <1>3 DEF Noticed, Clock
<1>5. /\ w \in Clock /\ w.pending = 0 /\ w.idle = f.idle /\ w.late = 0
  BY <1>2, <1>4, TickClock
<1>6. /\ a.due = NoTimer => w = a
      /\ a.due # NoTimer /\ a.due > n =>
             w.due = a.due - n /\ w.want = a.want /\ w.error = a.error
      /\ a.due # NoTimer /\ ~(a.due > n) => w.due = NoTimer /\ w.error = -a.want
  BY <1>2, TickTimer
<1> HIDE DEF w
<1>7. f.want \in Int /\ f.error \in Int /\ (f.due = NoTimer \/ f.due \in Nat)
  BY DEF Clock
<1>8. Timed(w, k)
  <2>1. CASE f.due = NoTimer
    BY <1>2, <1>6, <2>1 DEF Timed
  <2>2. CASE f.due # NoTimer /\ f.due > n
    BY <1>1, <1>2, <1>5, <1>6, <1>7, <2>2 DEF Timed, Lag
  <2>3. CASE f.due # NoTimer /\ ~(f.due > n)
    BY <1>1, <1>2, <1>5, <1>6, <1>7, <2>3 DEF Timed, Lag
  <2>4. QED
    BY <2>1, <2>2, <2>3
<1>9. Counted(w)
  BY <1>5 DEF Counted
<1>10. QED
  BY <1>5, <1>8, <1>9 DEF p, a, w

\* What is due at a clock that was flushed is dispatched.
LEMMA TickNowKeeps ==
  ASSUME NEW c \in Clock, NEW k \in Nat, Timed(c, k), c.pending = 0
  PROVE  Timed(Tick(c, 0), k)
<1> DEFINE t == Tick(c, 0)
<1>1. t \in Clock /\ t.pending = 0
  <2>1. 0 \in Nat
    OBVIOUS
  <2>2. QED
    BY <2>1, TickClock, Zenon
<1>2. /\ c.due = NoTimer => t = c
      /\ c.due # NoTimer /\ c.due > 0 => t.due = c.due - 0 /\ t.want = c.want /\ t.error = c.error
      /\ c.due # NoTimer /\ ~(c.due > 0) => t.due = NoTimer /\ t.error = -c.want
  <2>1. 0 \in Nat
    OBVIOUS
  <2>2. QED
    BY <2>1, TickTimer, Zenon
<1> HIDE DEF t
<1>3. c.want \in Int /\ c.error \in Int /\ (c.due = NoTimer \/ c.due \in Nat)
  BY DEF Clock
<1>4. CASE c.due = NoTimer
  BY <1>2, <1>4 DEF Timed, t
<1>5. CASE c.due # NoTimer /\ c.due > 0
  BY <1>1, <1>2, <1>3, <1>5 DEF Timed, Lag, t
<1>6. CASE c.due # NoTimer /\ ~(c.due > 0)
  BY <1>1, <1>2, <1>3, <1>6 DEF Timed, Lag, t
<1>7. QED
  BY <1>4, <1>5, <1>6

LEMMA ApplyIdleKeeps ==
  ASSUME NEW c \in Clock, NEW k \in Nat, Timed(c, k), Counted(c), c.idle => Noticed(c),
         c.pending < AdvanceEvery
  PROVE  /\ ApplyIdle(c) \in Clock /\ ~ApplyIdle(c).idle /\ ApplyIdle(c).pending < AdvanceEvery
         /\ Timed(ApplyIdle(c), k) /\ Counted(ApplyIdle(c))
<1>1. CASE ~c.idle
  BY <1>1 DEF ApplyIdle
<1>2. CASE c.idle
  <2> DEFINE g == Flush(c)
             f == [g EXCEPT !.idle = FALSE]
             n == Warp(f)
             w == Tick(AddCount(Pass(f, n), n), n)
             d == Consume(w, n)
  <2>1. /\ g \in Clock /\ g.pending = 0 /\ Timed(g, k) /\ g.toCompare = c.toCompare
        /\ g.ip7 = c.ip7 /\ g.late = c.late
    BY FlushClock
  <2> HIDE DEF g
  <2>2. /\ f \in Clock /\ f.pending = 0 /\ ~f.idle /\ f.toCompare = c.toCompare /\ f.ip7 = c.ip7
        /\ f.late = c.late /\ f.due = g.due /\ f.want = g.want /\ f.error = g.error
    BY <2>1 DEF Clock
  <2>3. ApplyIdle(c) = IF n = 0 THEN f ELSE [d EXCEPT !.total = @ + n]
    BY <1>2 DEF ApplyIdle, g
  <2> HIDE DEF f
  <2>4. Timed(f, k) /\ Counted(f) /\ Noticed(f)
    BY <1>2, <2>1, <2>2 DEF Timed, Lag, Counted, Noticed
  <2>5. /\ n \in Nat /\ (f.due # NoTimer => n <= f.due) /\ (f.toCompare # 0 => n <= f.toCompare)
    BY <2>2, WarpBounded
  <2> HIDE DEF n
  <2>6. w \in Clock /\ w.pending = 0 /\ w.idle = f.idle /\ Timed(w, k) /\ Counted(w)
    BY <2>2, <2>4, <2>5, WarpKeeps
  <2> HIDE DEF w
  <2>7. /\ d \in Clock /\ d.pending = 0 /\ d.idle = f.idle /\ d.due = w.due /\ d.want = w.want
        /\ d.error = w.error /\ d.late = w.late /\ d.ip7 = w.ip7
    BY <2>5, <2>6, ConsumeClock
  <2> HIDE DEF d
  <2> DEFINE r == [d EXCEPT !.total = @ + n]
  <2>8. /\ r \in Clock /\ r.pending = 0 /\ r.idle = f.idle /\ r.due = w.due /\ r.want = w.want
        /\ r.error = w.error /\ r.late = w.late /\ r.ip7 = w.ip7
    BY <2>5, <2>7 DEF Clock
  <2>9. ApplyIdle(c) = IF n = 0 THEN f ELSE r
    BY <2>3
  <2> HIDE DEF r
  <2>10. Timed(r, k) /\ Counted(r)
    BY <2>6, <2>8 DEF Timed, Lag, Counted
  <2>11. QED
    BY <2>2, <2>4, <2>8, <2>9, <2>10
<1>3. c.idle \in BOOLEAN
  BY DEF Clock
<1>4. QED
  BY <1>1, <1>2, <1>3

\* Credit of cycles that passed: c is the clock before its n cycles count as pending.
LEMMA CreditKeeps ==
  ASSUME NEW c \in Clock, NEW k \in Nat, NEW n \in Nat,
         Timed([c EXCEPT !.pending = @ + n], k), Counted(c), c.idle => Noticed(c)
  PROVE  /\ Credit(c, n) \in Clock /\ ~Credit(c, n).idle /\ Credit(c, n).pending < AdvanceEvery
         /\ Timed(Credit(c, n), k) /\ Counted(Credit(c, n))
<1> DEFINE b == [c EXCEPT !.total = @ + n, !.pending = @ + n]
           d == Consume(b, n)
           e == IF d.pending >= AdvanceEvery THEN Flush(d) ELSE d
<1>1. /\ b \in Clock /\ b.pending = c.pending + n /\ b.due = c.due /\ b.want = c.want
      /\ b.error = c.error /\ b.idle = c.idle /\ b.toCompare = c.toCompare
      /\ b.ip7 = c.ip7 /\ b.late = c.late
  <2>1. PICK m \in Nat : m = c.total + n
    BY DEF Clock
  <2>2. PICK j \in Nat : j = c.pending + n
    BY DEF Clock
  <2> DEFINE h == [c EXCEPT !.total = m]
  <2>3. /\ h \in Clock /\ h.pending = c.pending /\ h.due = c.due /\ h.want = c.want
        /\ h.error = c.error /\ h.idle = c.idle /\ h.toCompare = c.toCompare
        /\ h.ip7 = c.ip7 /\ h.late = c.late
    BY DEF Clock
  <2>4. b = [h EXCEPT !.pending = j]
    BY <2>1, <2>2
  <2> HIDE DEF b, h
  <2>5. QED
    BY <2>2, <2>3, <2>4 DEF Clock
<1>2. Timed(b, k)
  <2> DEFINE q == [c EXCEPT !.pending = @ + n]
  <2>1. q.pending = c.pending + n /\ q.due = c.due /\ q.want = c.want /\ q.error = c.error
    BY DEF Clock
  <2>2. Timed(q, k)
    OBVIOUS
  <2> HIDE DEF q, b
  <2>3. QED
    BY <1>1, <2>1, <2>2 DEF Timed, Lag
<1>3. Credit(c, n) = ApplyIdle(e)
  BY DEF Credit
<1> HIDE DEF b
<1>4. /\ d \in Clock /\ d.pending = b.pending /\ d.due = b.due /\ d.want = b.want
      /\ d.error = b.error /\ d.idle = c.idle /\ d.toCompare = c.toCompare
      /\ d.ip7 = c.ip7 /\ d.late = c.late
  BY <1>1, ConsumeClock
<1> HIDE DEF d
<1>5. Timed(d, k)
  BY <1>2, <1>4 DEF Timed, Lag
<1>6. /\ e \in Clock /\ e.pending < AdvanceEvery /\ Timed(e, k) /\ e.idle = c.idle
      /\ e.toCompare = c.toCompare /\ e.ip7 = c.ip7 /\ e.late = c.late
  <2>1. CASE d.pending >= AdvanceEvery
    BY <1>4, <1>5, <2>1, FlushClock
  <2>2. CASE ~(d.pending >= AdvanceEvery)
    <3>1. d.pending \in Nat
      BY <1>4 DEF Clock
    <3>2. QED
      BY <1>4, <1>5, <2>2, <3>1
  <2>3. QED
    BY <2>1, <2>2
<1> HIDE DEF e
<1>7. Counted(e) /\ (e.idle => Noticed(e))
  BY <1>6 DEF Counted, Noticed
<1>8. QED
  BY <1>3, <1>6, <1>7, ApplyIdleKeeps

-----------------------------------------------------------------------------
(***************************************************************************)
(* What instructions do to a clock.                                        *)
(***************************************************************************)

LEMMA ArmsClock ==
  ASSUME NEW c \in Clock, NEW n \in Nat, NEW spent \in 0 .. n - 1, NEW b \in Arms(c, spent, n)
  PROVE  /\ b \in Clock /\ b.pending = c.pending /\ b.error = c.error
         /\ \/ b.due = c.due /\ b.want = c.want
            \/ c.due = NoTimer /\ b.due \in Nat /\ b.want = b.due + spent
<1>1. CASE b = c
  BY <1>1
<1>2. CASE b # c
  <2>1. PICK d \in Delay : c.due = NoTimer /\ b = [c EXCEPT !.due = d, !.want = d + spent]
    BY <1>2 DEF Arms
  <2>2. Delay \subseteq Nat
    BY SliceAssumption DEF SliceAssumption
  <2>3. d \in Nat
    BY <2>2
  <2>4. spent \in Nat
    OBVIOUS
  <2>5. d \in Nat /\ spent \in Nat
    BY <2>3, <2>4
  <2>6. PICK w \in Int : w = d + spent
    BY <2>5
  <2> DEFINE h == [c EXCEPT !.due = d]
  <2>7. h \in Clock /\ h.pending = c.pending /\ h.error = c.error /\ h.due = d
    BY <2>5 DEF Clock
  <2>8. b = [h EXCEPT !.want = w]
    BY <2>1, <2>6
  <2> HIDE DEF h
  <2>9. b \in Clock /\ b.pending = c.pending /\ b.error = c.error /\ b.due = d /\ b.want = w
    BY <2>6, <2>7, <2>8 DEF Clock
  <2>10. QED
    BY <2>1, <2>5, <2>6, <2>9
<1>3. QED
  BY <1>1, <1>2

LEMMA WritesCompareClock ==
  ASSUME NEW c \in Clock, NEW b \in WritesCompare(c)
  PROVE  /\ b \in Clock /\ b.pending = c.pending /\ b.error = c.error
         /\ b.due = c.due /\ b.want = c.want
<1>1. CASE b = c
  BY <1>1
<1>2. CASE b # c
  <2>1. PICK d \in CompareAt : b = [c EXCEPT !.toCompare = d, !.ip7 = FALSE, !.late = 0]
    BY <1>2 DEF WritesCompare
  <2>2. d \in 0 .. CountMod - 1
    OBVIOUS
  <2> DEFINE h == [c EXCEPT !.toCompare = d]
             g == [h EXCEPT !.ip7 = FALSE]
  <2>3. h \in Clock /\ h.pending = c.pending /\ h.error = c.error /\ h.due = c.due /\ h.want = c.want
    BY <2>2 DEF Clock
  <2> HIDE DEF h
  <2>4. g \in Clock /\ g.pending = c.pending /\ g.error = c.error /\ g.due = c.due /\ g.want = c.want
    BY <2>3 DEF Clock
  <2>5. b = [g EXCEPT !.late = 0]
    BY <2>1 DEF g, h
  <2> HIDE DEF g
  <2>6. QED
    BY <2>4, <2>5 DEF Clock
<1>3. QED
  BY <1>1, <1>2

LEMMA IdlesClock ==
  ASSUME NEW c \in Clock, NEW b \in Idles(c)
  PROVE  /\ b \in Clock /\ b.pending = c.pending /\ b.error = c.error
         /\ b.due = c.due /\ b.want = c.want
BY DEF Idles, Clock

\* A timer the instructions leave alone is n cycles nearer; one they arm lags by what
\* was pending and by the cycles executed before.
LEMMA ExecutedClock ==
  ASSUME NEW c \in Clock, NEW n \in Nat, NEW x \in Executed(c, n)
  PROVE  /\ x \in Clock /\ x.pending = c.pending /\ x.error = c.error
         /\ \/ x.due = NoTimer
            \/ c.due # NoTimer /\ x.due = c.due /\ x.want = c.want - n
            \/ /\ c.due = NoTimer /\ x.due \in Nat
               /\ \E spent \in 0 .. n - 1 : x.want = x.due + spent - n
<1> DEFINE armed == UNION {Arms(c, spent, n) : spent \in 0 .. n - 1}
           After(b) == UNION {{Pass(e, n) : e \in Idles(d)} : d \in WritesCompare(b)}
<1>1. PICK b \in armed : x \in After(b)
  <2>1. x \in UNION {After(b) : b \in armed}
    BY DEF Executed
  <2> HIDE DEF armed, After
  <2>2. QED
    BY <2>1
<1>2. PICK spent \in 0 .. n - 1 : b \in Arms(c, spent, n)
  OBVIOUS
<1>3. PICK d \in WritesCompare(b) : x \in {Pass(e, n) : e \in Idles(d)}
  BY <1>1
<1>4. PICK e \in Idles(d) : x = Pass(e, n)
  BY <1>3
<1>5. /\ b \in Clock /\ b.pending = c.pending /\ b.error = c.error
      /\ \/ b.due = c.due /\ b.want = c.want
         \/ c.due = NoTimer /\ b.due \in Nat /\ b.want = b.due + spent
  BY <1>2, ArmsClock
<1>6. d \in Clock /\ d.pending = b.pending /\ d.error = b.error /\ d.due = b.due /\ d.want = b.want
  BY <1>5, WritesCompareClock
<1>7. e \in Clock /\ e.pending = d.pending /\ e.error = d.error /\ e.due = d.due /\ e.want = d.want
  BY <1>6, IdlesClock
<1>8. /\ x \in Clock /\ x.pending = e.pending /\ x.error = e.error /\ x.due = e.due
      /\ x.want = IF e.due = NoTimer THEN e.want ELSE e.want - n
  BY <1>4, <1>7, PassClock
<1>9. x \in Clock /\ x.pending = c.pending /\ x.error = c.error /\ x.due = b.due
  BY <1>5, <1>6, <1>7, <1>8
<1>10. x.due # NoTimer => x.want = b.want - n
  BY <1>6, <1>7, <1>8
<1>11. CASE x.due = NoTimer
  BY <1>9, <1>11
<1>12. CASE x.due # NoTimer /\ b.due = c.due /\ b.want = c.want
  BY <1>9, <1>10, <1>12
<1>13. CASE x.due # NoTimer /\ c.due = NoTimer /\ b.due \in Nat /\ b.want = b.due + spent
  <2>1. x.want = x.due + spent - n
    BY <1>9, <1>10, <1>13
  <2>2. QED
    BY <1>9, <1>13, <2>1
<1>14. QED
  BY <1>5, <1>11, <1>12, <1>13

\* Instructions, then COUNT, then the credit: one step of either engine.
LEMMA StepKeeps ==
  ASSUME NEW c \in Clock, NEW k \in Nat, NEW n \in Nat, n > 0, n <= BlockMax,
         NEW x \in Executed(c, n), Timed(c, k), c.pending < AdvanceEvery,
         AdvanceEvery + n <= k + 1,
         c.due # NoTimer => c.want - n >= -k
  PROVE  LET d == Credit(AddCount(x, n), n)
         IN  d \in Clock /\ ~d.idle /\ d.pending < AdvanceEvery /\ Timed(d, k) /\ Counted(d)
<1> DEFINE a == AddCount(x, n)
           q == [a EXCEPT !.pending = @ + n]
<1>1. /\ x \in Clock /\ x.pending = c.pending /\ x.error = c.error
      /\ \/ x.due = NoTimer
         \/ c.due # NoTimer /\ x.due = c.due /\ x.want = c.want - n
         \/ /\ c.due = NoTimer /\ x.due \in Nat
            /\ \E spent \in 0 .. n - 1 : x.want = x.due + spent - n
  BY ExecutedClock
<1>2. /\ a \in Clock /\ a.pending = x.pending /\ a.error = x.error
      /\ a.due = x.due /\ a.want = x.want
  BY <1>1, AddCountClock
<1>3. Noticed(a) /\ (a.late > 0 => a.ip7)
  BY <1>1, AddCountNotices
<1>4. a.late <= BlockMax
  <2>1. a.late = IF ~x.ip7 /\ x.toCompare <= n THEN n - x.toCompare ELSE 0
    BY <1>1, AddCountClock
  <2>2. x.toCompare \in Nat
    BY <1>1 DEF Clock
  <2>3. QED
    BY <2>1, <2>2
<1> HIDE DEF a
<1>5. q.pending = c.pending + n /\ q.due = x.due /\ q.want = x.want /\ q.error = c.error
  BY <1>1, <1>2 DEF Clock
<1> HIDE DEF q
<1>6. /\ c.pending \in Nat /\ c.want \in Int /\ c.error \in Int
      /\ (c.due = NoTimer \/ c.due \in Nat)
  BY DEF Clock
<1>7. Timed(q, k)
  <2>1. CASE x.due = NoTimer
    BY <1>5, <2>1 DEF Timed
  <2>2. CASE c.due # NoTimer /\ x.due = c.due /\ x.want = c.want - n
    BY <1>5, <1>6, <2>2 DEF Timed, Lag
  <2>3. ASSUME c.due = NoTimer, x.due \in Nat, NEW spent \in 0 .. n - 1, x.want = x.due + spent - n
        PROVE  Timed(q, k)
    BY <1>5, <1>6, <2>3 DEF Timed, Lag
  <2>4. QED
    BY <1>1, <2>1, <2>2, <2>3
<1>8. Counted(a)
  BY <1>3, <1>4 DEF Counted
<1>9. QED
  BY <1>2, <1>3, <1>7, <1>8, CreditKeeps DEF a, q

-----------------------------------------------------------------------------
(***************************************************************************)
(* The actions, and the theorem.                                           *)
(***************************************************************************)

\* What every action must leave behind.
Kept(c, k) == c \in Clock /\ c.pending < AdvanceEvery /\ ~c.idle /\ Timed(c, k) /\ Counted(c)

LEMMA SlackIsNatural ==
  ASSUME engine \in {"interp", "jit"}
  PROVE  /\ Slack \in Nat /\ AdvanceEvery \in Nat /\ BlockMax \in Nat
         /\ AdvanceEvery > 0 /\ BlockMax > 0 /\ AdvanceEvery <= Slack
         /\ engine = "jit" => Slack = AdvanceEvery + BlockMax
BY DEF Slack

\* A flushed clock keeps its promises.
LEMMA FlushKept ==
  ASSUME NEW c \in Clock, NEW k \in Nat, Timed(c, k), Counted(c), ~c.idle
  PROVE  Kept(Flush(c), k)
<1>1. AdvanceEvery > 0
  OBVIOUS
<1>2. QED
  BY <1>1, FlushClock DEF Kept, Counted

\* Fewer cycles are pending than make a batch, so that one more leaves no timer too late.
LEMMA OneCycle ==
  ASSUME SliceInv
  PROVE  clk.due # NoTimer => clk.want - 1 >= -AdvanceEvery
<1>1. clk.pending \in Nat /\ clk.want \in Int /\ (clk.due = NoTimer \/ clk.due \in Nat)
  BY DEF SliceInv, Clock
<1>2. AdvanceEvery \in Nat /\ clk.pending < AdvanceEvery
  BY SlackIsNatural DEF SliceInv
<1>3. QED
  BY <1>1, <1>2 DEF SliceInv, Timed, Lag

\* One interpreted instruction, in either engine.
LEMMA OneStepKeeps ==
  ASSUME SliceInv, NEW x \in Executed(clk, 1)
  PROVE  Kept(Credit(AddCount(x, 1), 1), Slack)
<1>1. Slack \in Nat /\ AdvanceEvery <= Slack /\ AdvanceEvery \in Nat
  BY SlackIsNatural DEF SliceInv
<1>2. clk \in Clock /\ clk.pending < AdvanceEvery /\ Timed(clk, Slack)
  BY DEF SliceInv
<1>3. clk.due # NoTimer => clk.want - 1 >= -Slack
  <2>1. clk.want \in Int
    BY <1>2 DEF Clock
  <2>2. QED
    BY <1>1, <2>1, OneCycle
<1>4. PICK n \in Nat : n = 1
  OBVIOUS
<1>5. n > 0 /\ n <= BlockMax /\ AdvanceEvery + n <= Slack + 1
  BY <1>1, <1>4
<1>6. QED
  BY <1>1, <1>2, <1>3, <1>4, <1>5, StepKeeps DEF Kept

LEMMA InterpStepKeeps ==
  ASSUME SliceInv, InterpStep
  PROVE  Kept(clk', Slack)
BY OneStepKeeps DEF InterpStep

\* A cycle that COUNT does not see: an exception taken before anything is executed.
LEMMA UncountedKeeps ==
  ASSUME SliceInv
  PROVE  Kept(Credit(Pass(clk, 1), 1), Slack)
<1>1. PICK n \in Nat : n = 1
  OBVIOUS
<1> DEFINE p == Pass(clk, n)
           q == [p EXCEPT !.pending = @ + n]
           d == Credit(p, n)
<1>2. Slack \in Nat /\ AdvanceEvery <= Slack /\ AdvanceEvery \in Nat
  BY SlackIsNatural DEF SliceInv
<1>3. /\ p \in Clock /\ p.want = IF clk.due = NoTimer THEN clk.want ELSE clk.want - n
      /\ p.pending = clk.pending /\ p.due = clk.due /\ p.error = clk.error
      /\ p.idle = clk.idle /\ p.ip7 = clk.ip7 /\ p.late = clk.late
  BY PassClock DEF SliceInv
<1> HIDE DEF p
<1>4. q.pending = clk.pending + n /\ q.due = p.due /\ q.want = p.want /\ q.error = p.error
  BY <1>3 DEF Clock
<1> HIDE DEF q
<1>5. /\ clk.pending \in Nat /\ clk.want \in Int /\ clk.error \in Int
      /\ (clk.due = NoTimer \/ clk.due \in Nat)
  BY DEF SliceInv, Clock
<1>6. clk.due # NoTimer => clk.want - n >= -Slack
  BY <1>1, <1>2, <1>5, OneCycle
<1>7. Timed(q, Slack)
  BY <1>2, <1>3, <1>4, <1>5, <1>6 DEF SliceInv, Timed, Lag
<1>8. Counted(p) /\ ~p.idle
  BY <1>3 DEF SliceInv, Counted
<1>9. d \in Clock /\ ~d.idle /\ d.pending < AdvanceEvery /\ Timed(d, Slack) /\ Counted(d)
  BY <1>2, <1>3, <1>7, <1>8, CreditKeeps DEF q
<1> HIDE DEF d
<1>10. Kept(d, Slack)
  BY <1>9 DEF Kept
<1>11. QED
  BY <1>1, <1>10 DEF d, p

LEMMA FallbackKeeps ==
  ASSUME SliceInv, Fallback
  PROVE  Kept(clk', Slack)
BY OneStepKeeps, UncountedKeeps DEF Fallback

\* A block is entered only when nothing is overdue, so that it is late by its own length.
LEMMA NotOverdue ==
  ASSUME SliceInv, UntilEvent(clk) > clk.pending, NEW n \in 1 .. BlockMax, engine = "jit"
  PROVE  clk.due # NoTimer => clk.want - n >= -Slack
<1>1. clk.pending \in Nat /\ clk.want \in Int /\ (clk.due = NoTimer \/ clk.due \in Nat)
  BY DEF SliceInv, Clock
<1>2. clk.due # NoTimer => clk.due > clk.pending /\ 0 <= Lag(clk)
  BY DEF SliceInv, UntilEvent, Timed
<1>3. Slack = AdvanceEvery + BlockMax /\ AdvanceEvery \in Nat /\ BlockMax \in Nat
  BY SlackIsNatural
<1>4. QED
  BY <1>1, <1>2, <1>3 DEF Lag

LEMMA BlockStepKeeps ==
  ASSUME SliceInv, BlockStep
  PROVE  Kept(clk', Slack)
<1>1. engine = "jit" /\ UntilEvent(clk) > clk.pending
  BY DEF BlockStep
<1>2. PICK n \in 1 .. BlockMax : \E x \in Executed(clk, n) :
          LET d == Credit(AddCount(x, n), n) IN clk' = d \/ clk' = Flush([d EXCEPT !.budget = d.total])
  BY DEF BlockStep
<1>3. PICK x \in Executed(clk, n) :
          LET d == Credit(AddCount(x, n), n) IN clk' = d \/ clk' = Flush([d EXCEPT !.budget = d.total])
  BY <1>2
<1> DEFINE d == Credit(AddCount(x, n), n)
           f == [d EXCEPT !.budget = d.total]
<1>4. /\ Slack \in Nat /\ Slack = AdvanceEvery + BlockMax /\ AdvanceEvery \in Nat
      /\ n \in Nat /\ n > 0 /\ n <= BlockMax /\ AdvanceEvery + n <= Slack + 1
  BY <1>1, SlackIsNatural
<1>5. clk \in Clock /\ clk.pending < AdvanceEvery /\ Timed(clk, Slack)
  BY DEF SliceInv
<1>6. clk.due # NoTimer => clk.want - n >= -Slack
  BY <1>1, NotOverdue
<1>7. d \in Clock /\ ~d.idle /\ d.pending < AdvanceEvery /\ Timed(d, Slack) /\ Counted(d)
  BY <1>4, <1>5, <1>6, StepKeeps
<1>8. clk' = d \/ clk' = Flush(f)
  BY <1>3
<1> HIDE DEF d
<1>9. /\ f \in Clock /\ f.pending = d.pending /\ f.due = d.due /\ f.want = d.want
      /\ f.error = d.error /\ f.idle = d.idle /\ f.late = d.late /\ f.ip7 = d.ip7
  BY <1>7 DEF Clock
<1> HIDE DEF f
<1>10. Timed(f, Slack) /\ Counted(f)
  BY <1>7, <1>9 DEF Timed, Lag, Counted
<1>11. Kept(Flush(f), Slack)
  BY <1>4, <1>7, <1>9, <1>10, FlushKept
<1>12. QED
  BY <1>7, <1>8, <1>11 DEF Kept

LEMMA ServiceKeeps ==
  ASSUME SliceInv, Service
  PROVE  Kept(clk', Slack)
<1> DEFINE d == Credit(Pass(clk, 1), 1)
<1>1. clk' = Flush(d)
  BY DEF Service
<1>2. Kept(d, Slack)
  BY UncountedKeeps
<1> HIDE DEF d
<1>3. Slack \in Nat
  BY SlackIsNatural DEF SliceInv
<1>4. QED
  BY <1>1, <1>2, <1>3, FlushKept DEF Kept

LEMMA FlushDueKeeps ==
  ASSUME SliceInv, FlushDue
  PROVE  Kept(clk', Slack)
<1> DEFINE f == Flush(clk)
<1>1. Slack \in Nat /\ clk \in Clock /\ Timed(clk, Slack) /\ Counted(clk) /\ ~clk.idle
  BY SlackIsNatural DEF SliceInv
<1>2. /\ f \in Clock /\ f.pending = 0 /\ Timed(f, Slack) /\ f.idle = clk.idle
      /\ f.ip7 = clk.ip7 /\ f.late = clk.late
  BY <1>1, FlushClock
<1>3. clk' = Tick(f, 0)
  BY DEF FlushDue
<1> HIDE DEF f
<1>4. Timed(Tick(f, 0), Slack)
  BY <1>1, <1>2, TickNowKeeps
<1>5. PICK n \in Nat : n = 0
  OBVIOUS
<1>6. /\ Tick(f, n) \in Clock /\ Tick(f, n).pending = 0 /\ Tick(f, n).idle = f.idle
      /\ Tick(f, n).ip7 = f.ip7 /\ Tick(f, n).late = f.late
  BY <1>2, TickClock
<1>7. AdvanceEvery > 0
  OBVIOUS
<1>8. QED
  BY <1>1, <1>2, <1>3, <1>4, <1>5, <1>6, <1>7 DEF Kept, Counted

LEMMA BeginKeeps ==
  ASSUME SliceInv, Begin
  PROVE  Kept(clk', Slack)
<1>1. PICK b \in Budget : clk' = [clk EXCEPT !.total = 0, !.budget = b, !.left = b, !.idle = FALSE]
  BY DEF Begin
<1>2. b \in Nat /\ clk \in Clock /\ clk.idle = FALSE
  BY DEF SliceInv, Clock
<1> DEFINE g == [clk EXCEPT !.total = 0]
           h == [g EXCEPT !.budget = b]
           f == [h EXCEPT !.left = b]
<1>3. /\ g \in Clock /\ g.pending = clk.pending /\ g.due = clk.due /\ g.want = clk.want
      /\ g.error = clk.error /\ g.late = clk.late /\ g.ip7 = clk.ip7
  BY <1>2 DEF Clock
<1> HIDE DEF g
<1>4. /\ h \in Clock /\ h.pending = g.pending /\ h.due = g.due /\ h.want = g.want
      /\ h.error = g.error /\ h.late = g.late /\ h.ip7 = g.ip7
  BY <1>2, <1>3 DEF Clock
<1> HIDE DEF h
<1>5. /\ f \in Clock /\ f.pending = h.pending /\ f.due = h.due /\ f.want = h.want
      /\ f.error = h.error /\ f.late = h.late /\ f.ip7 = h.ip7
  BY <1>2, <1>4 DEF Clock
<1>6. clk' = [f EXCEPT !.idle = FALSE]
  BY <1>1 DEF f, g, h
<1> HIDE DEF f
<1>7. /\ clk' \in Clock /\ clk'.pending = f.pending /\ clk'.due = f.due /\ clk'.want = f.want
      /\ clk'.error = f.error /\ clk'.late = f.late /\ clk'.ip7 = f.ip7 /\ clk'.idle = FALSE
  BY <1>5, <1>6 DEF Clock
<1>8. QED
  BY <1>3, <1>4, <1>5, <1>7 DEF SliceInv, Kept, Timed, Lag, Counted

\* A slice leaves nothing pending.
LEMMA EndKeeps ==
  ASSUME SliceInv, End
  PROVE  Kept(clk', Slack)
<1>1. Slack \in Nat /\ clk \in Clock /\ Timed(clk, Slack) /\ Counted(clk) /\ ~clk.idle
  BY SlackIsNatural DEF SliceInv
<1>2. clk' = Flush(clk)
  BY <1>1 DEF End, ApplyIdle
<1>3. QED
  BY <1>1, <1>2, FlushKept

LEMMA SliceInvInductive ==
  /\ SliceInit => SliceInv
  /\ SliceInv /\ [SliceNext]_sliceVars => SliceInv'
<1>1. SliceInit => SliceInv
  <2> SUFFICES ASSUME SliceInit PROVE SliceInv
    OBVIOUS
  <2>1. clk \in Clock
    BY DEF SliceInit, Clock
  <2>2. /\ clk.pending = 0 /\ clk.idle = FALSE /\ clk.due = NoTimer /\ clk.error = 0 /\ clk.late = 0
    BY DEF SliceInit
  <2>3. Slack \in Nat
    BY SlackIsNatural DEF SliceInit
  <2>4. QED
    BY <2>1, <2>2, <2>3 DEF SliceInit, SliceInv, Timed, Counted
<1>2. ASSUME SliceInv, [SliceNext]_sliceVars
      PROVE  SliceInv'
  <2>1. CASE SliceNext
    <3>1. engine' = engine
      BY <2>1 DEF SliceNext, Begin, InterpStep, FlushDue, Fallback, BlockStep, Service, End
    <3>2. Kept(clk', Slack)
      BY <1>2, <2>1, BeginKeeps, InterpStepKeeps, FlushDueKeeps, FallbackKeeps, BlockStepKeeps, ServiceKeeps,
         EndKeeps DEF SliceNext
    <3>3. QED
      BY <1>2, <3>1, <3>2 DEF SliceInv, Kept, Slack, Timed, Lag, Counted
  <2>2. CASE UNCHANGED sliceVars
    BY <1>2, <2>2 DEF sliceVars, SliceInv, Slack, Timed, Lag, Counted
  <2>3. QED
    BY <1>2, <2>1, <2>2
<1>3. QED
  BY <1>1, <1>2

\* A device timer fires within a batch and a block of the time it was armed for, however
\* many batches, blocks and idle warps lie between. (cpu/cached_interp.cpp,
\* cpu/jit/jit.cpp, cpu/idle_skip.cpp)
THEOREM SliceKeepsTime == SliceSpec => []TimersKeepTime
<1>1. SliceInv => TimersKeepTime
  BY DEF SliceInv, Timed, Slack, TimersKeepTime
<1>2. QED
  BY <1>1, SliceInvInductive, PTL DEF SliceSpec

\* COUNT does not pass COMPARE unnoticed, nor by more than a block.
\* (cpu/cpu.cpp add_count, cpu/idle_skip.cpp)
THEOREM CompareNoticed == SliceSpec => []CpuTimerInTime
<1>1. SliceInv => CpuTimerInTime
  BY DEF SliceInv, Counted, CpuTimerInTime
<1>2. QED
  BY <1>1, SliceInvInductive, PTL DEF SliceSpec

-----------------------------------------------------------------------------
(***************************************************************************)
(* The half-lines of a field.                                              *)
(***************************************************************************)
HIDE SliceAssumption
USE FieldsAssumption

\* How often the first n half-lines of a field set the interrupt.
SetBy(n) == IF viIntr % 2 = 0 /\ viIntr \div 2 < n THEN 1 ELSE 0

FieldsTypes ==
    /\ halfLines \in Nat \ {0} /\ viIntr \in Nat
    /\ field \in {0, 1} /\ line \in Nat /\ viCurrent \in Nat /\ raised \in Nat
    /\ at \in {"lines", "running", "shown"}

FieldsInv ==
    /\ FieldsTypes
    /\ at = "lines" /\ ~touched =>
          /\ line <= halfLines /\ raised = SetBy(line)
          /\ line > 0 => viCurrent = 2 * (line - 1) + field
    /\ at = "running" /\ ~touched =>
          /\ line < halfLines /\ raised = SetBy(line + 1)
          /\ viCurrent = 2 * line + field
    /\ FieldInterrupts

\* V_CURRENT without its field bit.
LEMMA WithoutField ==
  ASSUME NEW n \in Nat, NEW f \in {0, 1}
  PROVE  (2 * n + f) - ((2 * n + f) % 2) = 2 * n
OBVIOUS

\* V_INTR names half-line n.
LEMMA NamesLine ==
  ASSUME NEW n \in Nat, NEW v \in Nat
  PROVE  2 * n = v <=> v % 2 = 0 /\ v \div 2 = n
OBVIOUS

\* What the compare of half-line n of a field does.
LEMMA ComparesLine ==
  ASSUME FieldsTypes, NEW n \in Nat, Compare(2 * n + field)
  PROVE  raised' = IF viIntr % 2 = 0 /\ viIntr \div 2 = n THEN raised + 1 ELSE raised
<1>1. (2 * n + field) - ((2 * n + field) % 2) = 2 * n
  BY WithoutField DEF FieldsTypes
<1>2. 2 * n = viIntr <=> viIntr % 2 = 0 /\ viIntr \div 2 = n
  BY NamesLine DEF FieldsTypes
<1>3. QED
  BY <1>1, <1>2 DEF Compare

LEMMA HalfLineCounts ==
  ASSUME FieldsInv, HalfLine
  PROVE  FieldsInv'
<1>1. raised' = IF viIntr % 2 = 0 /\ viIntr \div 2 = line THEN raised + 1 ELSE raised
  BY ComparesLine DEF HalfLine, FieldsInv, FieldsTypes
<1>2. FieldsTypes'
  BY <1>1 DEF HalfLine, FieldsInv, FieldsTypes, registers
<1>3. line + 1 \in Nat /\ line < halfLines
  BY DEF HalfLine, FieldsInv, FieldsTypes
<1>4. ~touched' => raised' = SetBy(line + 1)'
  BY <1>1 DEF HalfLine, FieldsInv, FieldsTypes, SetBy, registers
<1>5. QED
  BY <1>2, <1>3, <1>4 DEF HalfLine, FieldsInv, FieldInterrupts, registers

LEMMA EndFieldCounts ==
  ASSUME FieldsInv, EndField
  PROVE  FieldsInv'
<1>1. FieldsTypes'
  BY DEF EndField, Compare, FieldsInv, FieldsTypes, registers
<1>2. ASSUME ~touched
      PROVE  FieldInterrupts'
  <2>1. line = halfLines /\ line - 1 \in Nat /\ viCurrent = 2 * (line - 1) + field
    BY <1>2 DEF EndField, FieldsInv, FieldsTypes
  <2>2. raised' = IF viIntr % 2 = 0 /\ viIntr \div 2 = line - 1 THEN raised + 1 ELSE raised
    BY <2>1, ComparesLine DEF EndField, FieldsInv
  <2>3. raised = SetBy(line)
    BY <1>2 DEF EndField, FieldsInv
  <2>4. QED
    BY <2>1, <2>2, <2>3 DEF EndField, FieldsInv, FieldsTypes, FieldInterrupts, SetBy, registers
<1>3. QED
  BY <1>1, <1>2 DEF EndField, FieldsInv, FieldInterrupts

\* A field whose registers the guest leaves alone sets the VI interrupt once, twice at
\* its last half-line, and not at all when V_INTR names no half-line of it.
\* (n64_system/n64_system.cpp step)
THEOREM FieldsCorrect == FieldsSpec => []FieldInterrupts
<1>1. FieldsInit => FieldsInv
  <2> SUFFICES ASSUME FieldsInit PROVE FieldsInv
    OBVIOUS
  <2>1. FieldsTypes
    BY DEF FieldsInit, FieldsTypes, HalfLinesOf
  <2>2. QED
    BY <2>1 DEF FieldsInit, FieldsInv, FieldsTypes, FieldInterrupts, SetBy
<1>2. FieldsInv /\ [FieldsNext]_fieldVars => FieldsInv'
  <2> SUFFICES ASSUME FieldsInv, [FieldsNext]_fieldVars
               PROVE  FieldsInv'
    OBVIOUS
  <2>1. CASE HalfLine
    BY <2>1, HalfLineCounts
  <2>2. CASE NextLine
    BY <2>2 DEF NextLine, FieldsInv, FieldsTypes, FieldInterrupts, SetBy, registers
  <2>3. CASE EndField
    BY <2>3, EndFieldCounts
  <2>4. CASE NextField
    BY <2>4 DEF NextField, FieldsInv, FieldsTypes, FieldInterrupts, SetBy, registers
  <2>5. CASE AckVi
    BY <2>5 DEF AckVi, FieldsInv, FieldsTypes, FieldInterrupts, SetBy, registers
  <2>6. ASSUME NEW v \in VSync, WriteVSync(v)
        PROVE  FieldsInv'
    BY <2>6 DEF WriteVSync, HalfLinesOf, FieldsInv, FieldsTypes, FieldInterrupts, SetBy
  <2>7. ASSUME NEW v \in VIntr, WriteVIntr(v)
        PROVE  FieldsInv'
    BY <2>7 DEF WriteVIntr, FieldsInv, FieldsTypes, FieldInterrupts, SetBy
  <2>8. ASSUME NEW s \in BOOLEAN, WriteCtrl(s)
        PROVE  FieldsInv'
    BY <2>8 DEF WriteCtrl, FieldsInv, FieldsTypes, FieldInterrupts, SetBy
  <2>9. CASE UNCHANGED fieldVars
    BY <2>9 DEF fieldVars, FieldsInv, FieldsTypes, FieldInterrupts, SetBy
  <2>10. QED
    BY <2>1, <2>2, <2>3, <2>4, <2>5, <2>6, <2>7, <2>8, <2>9 DEF FieldsNext
<1>3. FieldsInv => FieldInterrupts
  BY DEF FieldsInv
<1>4. QED
  BY <1>1, <1>2, <1>3, PTL DEF FieldsSpec
==============================================================================

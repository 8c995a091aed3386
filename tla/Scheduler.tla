------------------------------ MODULE Scheduler ------------------------------
(***************************************************************************)
(* The machine-wide event scheduler (src/n64_system/scheduler.cpp).        *)
(*                                                                         *)
(* It keeps a clock in guest CPU cycles, a priority queue of one-shot      *)
(* events ordered by deadline only (events of equal deadline come out in   *)
(* an order the heap decides), and two named slots that can be re-armed    *)
(* and cancelled.  tick() moves the clock and then dispatches every due    *)
(* event; a callback may arm further ones while tick() is still looping.   *)
(***************************************************************************)
EXTENDS Integers

CONSTANTS EventId,     \* storage cells of the queue: bounds the events pending
          Callback,    \* the functions an Event may carry
          NoCallback,  \* an empty std::function
          NamedCount,  \* NamedEventId::Count
          MaxDelay,    \* bound on the cycles given to SetTimer, ScheduleNamed
          MaxTick,     \* bound on the cycles of one tick
          MaxTime      \* tick aborts the process past this time

ASSUME SchedulerAssumption ==
  /\ NoCallback \notin Callback
  /\ NamedCount \in Nat
  /\ MaxDelay \in Nat
  /\ MaxTick \in Nat
  /\ MaxTime \in Nat

VARIABLES current_time,
          event_queue,   \* pending one-shot events
          named,         \* the named slots
          ticking        \* TRUE while tick() is inside its dispatch loop

schedVars == <<current_time, event_queue, named, ticking>>

NamedId == 0 .. NamedCount - 1

Event == [id : EventId, at : Nat, cb : Callback]

NamedEvent == [enabled : BOOLEAN, at : Nat, cb : Callback \cup {NoCallback}]

EmptySlot == [enabled |-> FALSE, at |-> 0, cb |-> NoCallback]

SchedTypeOK ==
  /\ current_time \in 0 .. MaxTime
  /\ event_queue \subseteq Event
  /\ \A e, f \in event_queue : e.id = f.id => e = f
  /\ named \in [NamedId -> NamedEvent]
  /\ ticking \in BOOLEAN

SchedInit ==
  /\ current_time = 0
  /\ event_queue = {}
  /\ named = [i \in NamedId |-> EmptySlot]
  /\ ticking = FALSE

-----------------------------------------------------------------------------
(***************************************************************************)
(* Arming and cancelling.  PushTo is written on a queue value so that a    *)
(* device's callback can pop its event and push another in one step.       *)
(***************************************************************************)

FreeCell(q) == EventId \ {e.id : e \in q}

PushTo(q, cycles, cb) ==
  {q \cup {[id |-> i, at |-> current_time + cycles, cb |-> cb]} :
     i \in FreeCell(q)}

SetTimer(cycles, cb) ==
  /\ event_queue' \in PushTo(event_queue, cycles, cb)
  /\ UNCHANGED <<current_time, named, ticking>>

ScheduleNamed(i, cycles, cb) ==
  /\ named' = [named EXCEPT ![i] = [enabled |-> TRUE,
                                    at |-> current_time + cycles,
                                    cb |-> cb]]
  /\ UNCHANGED <<current_time, event_queue, ticking>>

CancelNamed(i) ==
  /\ named' = [named EXCEPT ![i] = EmptySlot]
  /\ UNCHANGED <<current_time, event_queue, ticking>>

-----------------------------------------------------------------------------
(***************************************************************************)
(* The dispatch loop.  The queue's top is any event of least deadline; the *)
(* best named slot is the lowest numbered one of least deadline; the queue *)
(* wins a tie between the two.                                             *)
(***************************************************************************)

Armed == {i \in NamedId : named[i].enabled}

QueueTop == {e \in event_queue : \A f \in event_queue : e.at <= f.at}

MutBestIsFirst == {i \in Armed : \A j \in Armed : i <= j}

BestNamed ==
  {i \in Armed : \A j \in Armed : \/ named[i].at < named[j].at
                                  \/ named[i].at = named[j].at /\ i <= j}

MutQueueAlwaysFirst(e) == TRUE

QueueFirst(e) == \A i \in Armed : e.at <= named[i].at

\* tick() begins: the clock moves and the dispatch loop is entered.
TickBegin(cycles) ==
  /\ ~ticking
  /\ current_time + cycles <= MaxTime
  /\ current_time' = current_time + cycles
  /\ ticking' = TRUE
  /\ UNCHANGED <<event_queue, named>>

\* One event leaves the queue; its callback is what the devices do next.
QueueDue(e) ==
  /\ ticking
  /\ e \in QueueTop
  /\ QueueFirst(e)
  /\ e.at <= current_time

NamedDue(i) ==
  /\ ticking
  /\ i \in BestNamed
  /\ \A e \in QueueTop : ~QueueFirst(e)
  /\ named[i].at <= current_time

DispatchQueued(e) ==
  /\ QueueDue(e)
  /\ event_queue' = event_queue \ {e}
  /\ UNCHANGED <<current_time, named, ticking>>

\* The slot is disabled before its callback runs; `at` keeps its old value.
Fired(slot) == [slot EXCEPT !.enabled = FALSE, !.cb = NoCallback]

DispatchNamed(i) ==
  /\ NamedDue(i)
  /\ named' = [named EXCEPT ![i] = Fired(@)]
  /\ UNCHANGED <<current_time, event_queue, ticking>>

\* dispatch_one_due() returns false and tick() returns.
TickEnd ==
  /\ ticking
  /\ \A e \in event_queue : ~QueueDue(e)
  /\ \A i \in NamedId : ~NamedDue(i)
  /\ ticking' = FALSE
  /\ UNCHANGED <<current_time, event_queue, named>>

MutRestartKeepsQueue ==
  /\ ~ticking
  /\ current_time' = 0
  /\ named' = [i \in NamedId |-> EmptySlot]
  /\ UNCHANGED <<event_queue, ticking>>

\* init(), called by reset_all when a game is started.
Restart ==
  /\ ~ticking
  /\ current_time' = 0
  /\ event_queue' = {}
  /\ named' = [i \in NamedId |-> EmptySlot]
  /\ UNCHANGED ticking

-----------------------------------------------------------------------------
(***************************************************************************)
(* cycles_until_next_event(): how far idle_skip may warp.  UINT64_MAX (no  *)
(* event) is Forever.                                                      *)
(***************************************************************************)

Forever == MaxTime + MaxDelay + 1

Deadlines == {e.at : e \in event_queue} \cup {named[i].at : i \in Armed}

Earliest(S) == CHOOSE t \in S : \A u \in S : t <= u

MutNextEventQueueOnly ==
  LET D == {e.at : e \in event_queue} IN
  IF D = {} THEN Forever
  ELSE IF Earliest(D) <= current_time THEN 0
  ELSE Earliest(D) - current_time

CyclesUntilNextEvent ==
  IF Deadlines = {} THEN Forever
  ELSE IF Earliest(Deadlines) <= current_time THEN 0
  ELSE Earliest(Deadlines) - current_time

-----------------------------------------------------------------------------
(***************************************************************************)
(* The component by itself, under every client: the CPU and the callbacks  *)
(* arm and cancel at any moment, inside a tick or between ticks.           *)
(***************************************************************************)

SchedNext ==
  \/ \E d \in 0 .. MaxDelay, c \in Callback : SetTimer(d, c)
  \/ \E i \in NamedId, d \in 0 .. MaxDelay, c \in Callback :
       ScheduleNamed(i, d, c)
  \/ \E i \in NamedId : CancelNamed(i)
  \/ \E n \in 0 .. MaxTick : TickBegin(n)
  \/ \E e \in event_queue : DispatchQueued(e)
  \/ \E i \in NamedId : DispatchNamed(i)
  \/ TickEnd
  \/ Restart

SchedSpec == SchedInit /\ [][SchedNext]_schedVars

-----------------------------------------------------------------------------
(***************************************************************************)
(* Properties.                                                             *)
(***************************************************************************)

\* Between two ticks no armed event lies in the past: whatever a callback
\* armed while tick() was looping, the loop of dispatch_one_due() has run
\* everything that was due before the CPU continues.
NothingOverdue ==
  ~ticking => \A t \in Deadlines : t >= current_time

\* What idle_skip relies on: a tick shorter than cycles_until_next_event()
\* reaches no deadline, queued or named.
IdleWarpIsSilent ==
  [][current_time' - current_time \in 1 .. CyclesUntilNextEvent - 1
       => \A t \in Deadlines' : t > current_time']_schedVars

\* The queue and the named slots together are one ordered timer service.
TimerKey == ({"queue"} \X EventId) \cup ({"named"} \X NamedId)

QueueTimer(e) == [key |-> <<"queue", e.id>>, at |-> e.at, cb |-> e.cb]

NamedTimer(i, slot) == [key |-> <<"named", i>>, at |-> slot.at, cb |-> slot.cb]

AllTimers == {QueueTimer(e) : e \in event_queue}
               \cup {NamedTimer(i, named[i]) : i \in Armed}

Timers == INSTANCE TimerService
            WITH Key <- TimerKey, now <- current_time,
                 timers <- AllTimers, expiring <- ticking

\* The two mechanisms implement TimerService: one clock, deadline order
\* across both, nothing lost, nothing fired early or twice.
ImplementsTimerService == Timers!Spec

=============================================================================

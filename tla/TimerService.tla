---------------------------- MODULE TimerService ----------------------------
(***************************************************************************)
(* What the rest of the emulator may assume of the scheduler.  There is a  *)
(* clock and a set of armed timers, at most one per key.  Time moves in    *)
(* jumps; after a jump every timer whose deadline has been reached expires *)
(* before anything else may move the clock, and timers expire in deadline  *)
(* order.  It says nothing of heaps, of named slots, or of who wins a tie. *)
(***************************************************************************)
EXTENDS Integers

CONSTANTS Key,       \* identities of timers
          Callback,  \* what a timer runs when it expires
          MaxDelay,  \* bound on the delay of one arming
          MaxTick,   \* bound on one jump of the clock
          MaxTime    \* the clock never passes this value

VARIABLES now,       \* the clock
          timers,    \* armed timers: at most one per key
          expiring   \* TRUE between a clock jump and the end of its expiries

vars == <<now, timers, expiring>>

Timer == [key : Key, at : Nat, cb : Callback]

TypeOK ==
  /\ now \in 0 .. MaxTime
  /\ timers \subseteq Timer
  /\ expiring \in BOOLEAN

Init ==
  /\ now = 0
  /\ timers = {}
  /\ expiring = FALSE

Without(k) == {t \in timers : t.key # k}

Arm(k, delay, cb) ==
  /\ timers' = Without(k) \cup {[key |-> k, at |-> now + delay, cb |-> cb]}
  /\ UNCHANGED <<now, expiring>>

Disarm(k) ==
  /\ timers' = Without(k)
  /\ UNCHANGED <<now, expiring>>

Advance(n) ==
  /\ ~expiring
  /\ now + n <= MaxTime
  /\ now' = now + n
  /\ expiring' = TRUE
  /\ UNCHANGED timers

Expire(t) ==
  /\ expiring
  /\ t.at <= now
  /\ \A u \in timers : t.at <= u.at
  /\ timers' = timers \ {t}
  /\ UNCHANGED <<now, expiring>>

Rest ==
  /\ expiring
  /\ \A t \in timers : t.at > now
  /\ expiring' = FALSE
  /\ UNCHANGED <<now, timers>>

Restart ==
  /\ ~expiring
  /\ now' = 0
  /\ timers' = {}
  /\ UNCHANGED expiring

Next ==
  \/ \E k \in Key, delay \in 0 .. MaxDelay, cb \in Callback :
       Arm(k, delay, cb)
  \/ \E k \in Key : Disarm(k)
  \/ \E n \in 0 .. MaxTick : Advance(n)
  \/ \E t \in timers : Expire(t)
  \/ Rest
  \/ Restart

Spec == Init /\ [][Next]_vars

=============================================================================

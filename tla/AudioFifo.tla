------------------------------ MODULE AudioFifo ------------------------------
(***************************************************************************)
(* What a game may rely on when it feeds the Audio Interface: one buffer   *)
(* plays, at most one waits, a third is refused, buffers play once each in *)
(* the order they were submitted.  The hardware's carry bug is part of the *)
(* promise: a buffer that starts after one that ended exactly on a page    *)
(* boundary plays from one page further on.                                *)
(***************************************************************************)
EXTENDS Integers

CONSTANTS Address, Length, PageSize, None

VARIABLES playing,   \* the buffer being played, or None
          waiting,   \* the buffer that plays next, or None
          carry      \* the last buffer ended on a page boundary, and no
                     \* buffer has started since

vars == <<playing, waiting, carry>>

Buffer == [addr : Nat, len : Nat]

TypeOK ==
  /\ playing \in Buffer \cup {None}
  /\ waiting \in Buffer \cup {None}
  /\ carry \in BOOLEAN

Init ==
  /\ playing = None
  /\ waiting = None
  /\ carry = FALSE

EndsOnPage(b) == (b.addr + b.len) % PageSize = 0

Shifted(b, shift) == IF shift THEN [b EXCEPT !.addr = @ + PageSize] ELSE b

SubmitIdle(b) ==
  /\ playing = None
  /\ playing' = Shifted(b, carry)
  /\ carry' = FALSE
  /\ UNCHANGED waiting

SubmitBusy(b) ==
  /\ playing # None
  /\ waiting = None
  /\ waiting' = b
  /\ UNCHANGED <<playing, carry>>

FinishLast ==
  /\ playing # None
  /\ waiting = None
  /\ playing' = None
  /\ carry' = EndsOnPage(playing)
  /\ UNCHANGED waiting

FinishAndStart ==
  /\ playing # None
  /\ waiting # None
  /\ playing' = Shifted(waiting, EndsOnPage(playing))
  /\ waiting' = None
  /\ carry' = FALSE

PowerOff ==
  /\ playing' = None
  /\ waiting' = None
  /\ carry' = FALSE

Next ==
  \/ \E a \in Address, l \in Length :
       LET b == [addr |-> a, len |-> l] IN SubmitIdle(b) \/ SubmitBusy(b)
  \/ FinishLast
  \/ FinishAndStart
  \/ PowerOff

Spec == Init /\ [][Next]_vars

=============================================================================

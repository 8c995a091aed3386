------------------------------ MODULE MipsFlow ------------------------------
(* The control flow a MIPS program sees: where the next instruction is taken from, *)
(* and where an exception handler returns to. A branch is one step with its slot   *)
(* still to run; an exception in the slot goes back to the branch. An untaken      *)
(* likely branch leaves no slot behind.                                            *)
EXTENDS Naturals

CONSTANTS Words,    \* number of instruction words
          Refill,   \* the vector of a first TLB miss
          General,  \* the vector of everything else
          None

VARIABLES at,     \* the word to be executed next
          slot,   \* None, or where control goes after `at`, the slot of a branch
          exl, saved

flowVars == <<at, slot, exl, saved>>
Place == 0 .. Words - 1
After(w) == (w + 1) % Words
Before(w) == (w + Words - 1) % Words

FlowInit == at = 0 /\ slot = None /\ exl = FALSE /\ saved = 0

Go(w, s) == at' = w /\ slot' = s

Execute == Go(IF slot = None THEN After(at) ELSE slot, None) /\ UNCHANGED <<exl, saved>>

\* Where the slot leads to is the target, or the word after the slot.
Branch ==
    /\ slot = None
    /\ \E t \in Place : Go(After(at), t)
    /\ UNCHANGED <<exl, saved>>

SkipSlot == slot = None /\ Go(After(After(at)), None) /\ UNCHANGED <<exl, saved>>

Exception(vector) ==
    /\ exl => vector = General
    /\ saved' = IF exl THEN saved ELSE IF slot = None THEN at ELSE Before(at)
    /\ exl' = TRUE
    /\ Go(vector, None)

Return == slot = None /\ Go(saved, None) /\ exl' = FALSE /\ UNCHANGED saved

FlowNext == Execute \/ Branch \/ SkipSlot \/ Return \/ \E v \in {Refill, General} : Exception(v)

FlowSpec == FlowInit /\ [][FlowNext]_flowVars
=============================================================================

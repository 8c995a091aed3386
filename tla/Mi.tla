--------------------------------- MODULE Mi ---------------------------------
(***************************************************************************)
(* The MIPS Interface (src/mmio/mi.cpp) and check_interrupt                *)
(* (src/n64_system/interrupt.cpp).                                         *)
(*                                                                         *)
(* Six devices share one CPU interrupt line, Cause.IP2.  A device that     *)
(* changes its bit of MI_INTERRUPT writes the bit and then calls           *)
(* check_interrupt, which recomputes IP2; nothing else keeps the two in    *)
(* step.  Registers are sets of the device lines whose bit is 1.           *)
(***************************************************************************)

VARIABLES intr,   \* reg_intr
          mask,   \* reg_intr_mask
          ip2     \* cpu.cop0.reg.cause.ip2

miVars == <<intr, mask, ip2>>

Line == {"sp", "si", "ai", "vi", "pi", "dp"}

MiTypeOK ==
  /\ intr \subseteq Line
  /\ mask \subseteq Line
  /\ ip2 \in BOOLEAN

MiInit ==
  /\ intr = {}
  /\ mask = {}
  /\ ip2 = FALSE

MutCheckIgnoresMask(pending, enabled) == ip2' = (pending # {})

\* check_interrupt(), on the values the registers have just been given.
CheckInterrupt(pending, enabled) == ip2' = (pending \cap enabled # {})

MutRaiseOverwrites(l) ==
  /\ intr' = {l}
  /\ CheckInterrupt({l}, mask)
  /\ UNCHANGED mask

\* A device raises its line ...
Raise(l) ==
  /\ intr' = intr \cup {l}
  /\ CheckInterrupt(intr \cup {l}, mask)
  /\ UNCHANGED mask

\* ... and lowers it.
Ack(l) ==
  /\ intr' = intr \ {l}
  /\ CheckInterrupt(intr \ {l}, mask)
  /\ UNCHANGED mask

\* Write to MI_MASK.  For each line the clear bit is tested before the set
\* bit, so setting wins when both are 1.
WriteMask(clear, set) ==
  /\ mask' = (mask \ clear) \cup set
  /\ CheckInterrupt(intr, (mask \ clear) \cup set)
  /\ UNCHANGED intr

\* reset_all: MI::reset leaves both registers as the last game left them,
\* Cop0::reset clears every pending bit of Cause.
MiReset ==
  /\ ip2' = FALSE
  /\ UNCHANGED <<intr, mask>>

-----------------------------------------------------------------------------

\* The CPU's interrupt line agrees with MI: it is up exactly when some
\* device line is pending and enabled.  Each of the handlers that write
\* MI_INTERRUPT or MI_MASK must have called check_interrupt last.
Ip2Coherent == ip2 <=> (intr \cap mask # {})

=============================================================================

----------------------------- MODULE MC_RspTask -----------------------------
(***************************************************************************)
(* Model checking instance of RspTask: turns of up to two instructions,    *)
(* the ways libultra starts, stops and steps the RSP, and an RSP program   *)
(* that signals, halts itself and interrupts the CPU.                      *)
(***************************************************************************)
EXTENDS RspTask

CpuWrites ==
  { {"clear_halt", "clear_broke", "clear_sstep", "set_intr_on_break"},
    {"clear_halt", "set_sstep"},
    {"set_halt"},
    {"clear_intr", "clear_signal_0"},
    {"clear_halt", "set_halt"} }

RspWrites ==
  { {"set_signal_0"}, {"set_halt", "set_intr"} }

=============================================================================

-------------------------------- MODULE MC_Pi --------------------------------
(***************************************************************************)
(* Model checking instance of Pi: up to two overlapping transfers, aligned *)
(* and misaligned addresses, lengths below, at and above the 7-byte limit  *)
(* of the shortening rule, so that delays of 0, 1 and 2 cycles occur.      *)
(***************************************************************************)
EXTENDS Pi
=============================================================================

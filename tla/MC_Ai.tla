-------------------------------- MODULE MC_Ai --------------------------------
(***************************************************************************)
(* Model checking instance of Ai.  A page of 16 bytes and buffers of 8 and *)
(* 16 bytes make buffers that end on and off a page boundary; the clock    *)
(* ratio 2 with rates 0 (the default), 1 and 2 gives several durations.    *)
(***************************************************************************)
EXTENDS Ai
=============================================================================

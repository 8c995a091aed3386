---------------------------- MODULE MC_Scheduler ----------------------------
(***************************************************************************)
(* Model checking instance of Scheduler: two queue cells, the two named    *)
(* slots of NamedEventId, two callbacks.  The queue cells are              *)
(* interchangeable, so they are a symmetry set where only safety is        *)
(* checked.                                                                *)
(***************************************************************************)
EXTENDS Scheduler, TLC

CellSymmetry == Permutations(EventId)

=============================================================================

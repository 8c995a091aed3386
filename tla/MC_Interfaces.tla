---------------------------- MODULE MC_Interfaces ----------------------------
(* Model checking instance of Interfaces.  A behaviour is one of all devices with *)
(* aligned PI transfers of one length, or of PI alone with every address and      *)
(* length the constants give: the product of both is out of reach.                *)
EXTENDS Interfaces, TLC

VARIABLE part

CellSymmetry == Permutations(EventId)

\* A game that enables the PI and AI lines together and disables PI again.
MaskWrites == { <<{}, {"pi", "ai"}>>, <<{"pi"}, {}>> }

Aligned == pi_dram_addr' % 8 = 0 /\ {pi_rd_len', pi_wr_len'} \subseteq {8, 127}

PartsInit == Init /\ part \in {"all", "pi"}
PartsNext ==
  /\ UNCHANGED part
  /\ \/ part = "all" /\ (SessionNext \/ PowerCycle) /\ Aligned
     \/ part = "pi" /\ PiNext /\ UNCHANGED aiVars
PartsSpec == PartsInit /\ [][PartsNext]_<<vars, part>>
=============================================================================

-------------------------------- MODULE MC_Cpu --------------------------------
(* Model checking instances of the CPU's parts. They share no state at the level   *)
(* they are modelled at, so a behaviour runs one of them.                          *)
EXTENDS MC_CodeCache, CpuFlow, SoftTlb, Slice, Fields

VARIABLE part

\* Small and large pages, read-only and invalid ones, in RDRAM and not.
Lo(p, v, d) == [pfn |-> p, v |-> v, d |-> d]
W(f, a, b, g) == [field |-> f, lo |-> <<a, b>>, global |-> g]
Settings == {W(1, Lo(1, TRUE, FALSE), Lo(8, TRUE, TRUE), FALSE),
             W(2, Lo(5, TRUE, TRUE), Lo(1, FALSE, TRUE), TRUE)}

allVars == <<part, vars, cpuVars, tlbVars, sliceVars, fieldVars>>

CpuPartsInit ==
    /\ part \in {"code", "flow", "tlb", "slice", "fields"}
    /\ Init /\ CpuInit /\ TlbInit /\ SliceInit /\ FieldsInit
    /\ part = "slice" \/ engine = "interp"
    /\ part = "fields" \/ halfLines = 1

CpuPartsNext ==
    /\ UNCHANGED part
    /\ \/ part = "code" /\ Next /\ UNCHANGED <<cpuVars, tlbVars, sliceVars, fieldVars>>
       \/ part = "flow" /\ CpuNext /\ UNCHANGED <<vars, tlbVars, sliceVars, fieldVars>>
       \/ part = "tlb" /\ TlbNext /\ UNCHANGED <<vars, cpuVars, sliceVars, fieldVars>>
       \/ part = "slice" /\ SliceNext /\ UNCHANGED <<vars, cpuVars, tlbVars, fieldVars>>
       \/ part = "fields" /\ FieldsNext /\ UNCHANGED <<vars, cpuVars, tlbVars, sliceVars>>

CpuPartsSpec == CpuPartsInit /\ [][CpuPartsNext]_allVars
=============================================================================

-------------------------------- MODULE Fields --------------------------------
(* The main loop's fields and half-lines and the registers of VI that steer them    *)
(* (n64_system/n64_system.cpp step, mmio/vi.cpp). The guest may write the registers *)
(* while the CPU runs a half-line. V_CURRENT counts two per half-line; bit 0 is the *)
(* field. Registers that only describe the picture are left out.                    *)
EXTENDS Naturals

CONSTANTS VSync,   \* values the guest writes to V_SYNC
          VIntr    \* values the guest writes to V_INTR

ASSUME FieldsAssumption == VSync \subseteq 0 .. 1023 /\ VIntr \subseteq 0 .. 1023

VARIABLES halfLines, serrate, viIntr,
          field, line, viCurrent,
          at,       \* where step() is: lines, inside a half-line, or past the last one
          viLine,   \* MI's VI interrupt
          raised,    \* history: how often this field set the interrupt,
          touched   \* and whether the guest wrote V_SYNC, V_INTR or VI_CTRL in it

fieldVars == <<halfLines, serrate, viIntr, field, line, viCurrent, at, viLine, raised, touched>>
registers == <<halfLines, serrate, viIntr>>

\* update_halfline_timing: half-lines of a field, at least one.
HalfLinesOf(vsync) == IF vsync \div 2 = 0 THEN 1 ELSE vsync \div 2

FieldsInit ==
    /\ \E v \in VSync : halfLines = HalfLinesOf(v)
    /\ serrate = FALSE /\ viIntr = 1023
    /\ field = 0 /\ line = 0 /\ viCurrent = 0
    /\ at = "lines" /\ viLine = FALSE /\ raised = 0 /\ touched = FALSE

MutCompare(current) ==
    IF current = viIntr
    THEN viLine' = TRUE /\ raised' = raised + 1
    ELSE UNCHANGED <<viLine, raised>>

\* V_CURRENT without its field bit against V_INTR.
Compare(current) ==
    IF current - (current % 2) = viIntr
    THEN viLine' = TRUE /\ raised' = raised + 1
    ELSE UNCHANGED <<viLine, raised>>

HalfLine ==
    /\ at = "lines" /\ line < halfLines
    /\ viCurrent' = 2 * line + field
    /\ Compare(2 * line + field)
    /\ at' = "running"
    /\ UNCHANGED <<registers, field, line, touched>>

\* The CPU has used up the half-line's cycles.
NextLine ==
    /\ at = "running"
    /\ line' = line + 1 /\ at' = "lines"
    /\ UNCHANGED <<registers, field, viCurrent, viLine, raised, touched>>

\* After the last half-line its compare is made again; then the field is shown.
EndField ==
    /\ at = "lines" /\ line >= halfLines
    /\ Compare(viCurrent)
    /\ at' = "shown"
    /\ UNCHANGED <<registers, field, line, viCurrent, touched>>

NextField ==
    /\ at = "shown"
    /\ field' = IF serrate /\ field = 0 THEN 1 ELSE 0
    /\ line' = 0 /\ at' = "lines"
    /\ raised' = 0 /\ touched' = FALSE
    /\ UNCHANGED <<registers, viCurrent, viLine>>

\* Register writes of the guest.
WriteVSync(v) ==
    /\ at = "running" /\ halfLines' = HalfLinesOf(v) /\ touched' = TRUE
    /\ UNCHANGED <<serrate, viIntr, field, line, viCurrent, at, viLine, raised>>

WriteVIntr(v) ==
    /\ at = "running" /\ viIntr' = v /\ touched' = TRUE
    /\ UNCHANGED <<halfLines, serrate, field, line, viCurrent, at, viLine, raised>>

WriteCtrl(s) ==
    /\ at = "running" /\ serrate' = s /\ touched' = TRUE
    /\ UNCHANGED <<halfLines, viIntr, field, line, viCurrent, at, viLine, raised>>

AckVi ==
    /\ at = "running" /\ viLine' = FALSE
    /\ UNCHANGED <<registers, field, line, viCurrent, at, raised, touched>>

FieldsNext ==
    \/ HalfLine \/ NextLine \/ EndField \/ NextField \/ AckVi
    \/ \E v \in VSync : WriteVSync(v)
    \/ \E v \in VIntr : WriteVIntr(v)
    \/ \E s \in BOOLEAN : WriteCtrl(s)

FieldsSpec == FieldsInit /\ [][FieldsNext]_fieldVars

----------------------------------------------------------------------------
(* Properties.                                                              *)

\* A field whose registers the guest leaves alone sets the VI interrupt at V_INTR, in
\* interlaced modes too, and not at all if V_INTR names no half-line. Only the last
\* half-line sets it twice, its compare being made again at the end of the field.
\* (n64_system/n64_system.cpp step)
FieldInterrupts ==
    at = "shown" /\ ~touched =>
        raised = IF viIntr % 2 = 1 \/ viIntr \div 2 >= halfLines THEN 0
                 ELSE IF viIntr \div 2 = halfLines - 1 THEN 2 ELSE 1
=============================================================================

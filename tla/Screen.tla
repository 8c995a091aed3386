------------------------------- MODULE Screen -------------------------------
(* At the end of a field present_field (present.cpp) shows the framebuffer that   *)
(* VI_ORIGIN points at, unless nothing seems to have changed: the RDP took no     *)
(* commands and the CPU wrote nothing near the picture (rdp_core.cpp), and the    *)
(* origin is the one shown last.  Frame interpolation, which never skips, is off. *)
EXTENDS Integers

CONSTANTS
    Memory,          \* addresses that hooked stores and DMA write
    InlineStores,    \* addresses that the dynarec's own stores write
    ViValues,        \* register -> the values a game gives it
    ResetVi,         \* the registers after VI::reset
    BlankOrigin,     \* the origin that, like 0, shows nothing: 0x280 in the code
    MarkedLines,     \* lines in which a write counts as one to the picture, 480
    OncePerField,    \* VI_ORIGIN changes at most once between two fields
    SettledMode,     \* the other registers change before the first picture only
    FramesFail       \* begin_frame may find no swapchain image

VARIABLE screen
\* screen.drawn and screen.written remember what changed since the last scan-out,
\* screen.scanned the registers it was made with.

\* Of the registers a scan-out reads ORIGIN, STATUS.type and WIDTH stand for
\* themselves, lines for the lines of the picture (V_VIDEO and Y_SCALE), other for the
\* remaining ones, VI_CURRENT as it is at the end of a field.
ViRegisters == {"origin", "type", "width", "lines", "other"}
Vi == [origin : Nat, type : 0 .. 3, width : Nat, lines : Nat, other : Nat]

ASSUME ScreenAssumption ==
    /\ Memory \cup InlineStores \subseteq Nat
    /\ ViValues \in [ViRegisters -> SUBSET Nat] /\ ViValues["type"] \subseteq 0 .. 3
    /\ ResetVi \in Vi /\ ResetVi.origin = 0
    /\ BlankOrigin \in Nat /\ MarkedLines \in Nat
    /\ {OncePerField, SettledMode, FramesFail} \subseteq BOOLEAN

PixelBytes(vi) == IF vi.type = 3 THEN 4 ELSE 2
ShowsNothing(vi) == vi.origin \in {0, BlankOrigin}
Lines(vi, n) == vi.origin .. vi.origin + vi.width * n * PixelBytes(vi) - 1
\* What the VI reads, the first two types being blank.
Picture(vi) == IF vi.type < 2 THEN {} ELSE Lines(vi, vi.lines)

MutWatched(vi) == IF ShowsNothing(vi) \/ vi.type < 2 \/ vi.width = 0 THEN {}
                 ELSE Lines(vi, MarkedLines) \ {vi.origin}
\* maybe_mark_vi_fb_dirty: the addresses whose writes set g_cpu_fb_dirty.
Watched(vi) == IF ShowsNothing(vi) \/ vi.type < 2 \/ vi.width = 0 THEN {} ELSE Lines(vi, MarkedLines)

NewCommands == screen' = [screen EXCEPT !.rdpDirty = TRUE, !.drawn = TRUE]

\* on_rdram_write, for one address; the interpreter, the dynarec's helpers and DMA call it.
WriteMemory(a) ==
    screen' = [screen EXCEPT !.cpuDirty = @ \/ a \in Watched(screen.vi), !.written = @ \cup {a}]
\* emit_rdram_access and the soft TLB's way store without it.
StoreInline(a) == screen' = [screen EXCEPT !.written = @ \cup {a}]

\* No register marks anything.
WriteVi(register, value) ==
    /\ OncePerField /\ register = "origin" => ~screen.moved
    /\ SettledMode /\ register # "origin" => ~screen.presented
    /\ screen' = [screen EXCEPT !.vi[register] = value, !.moved = @ \/ register = "origin"]

Duplicate == ~screen.rdpDirty /\ ~screen.cpuDirty /\ screen.presented /\ screen.vi.origin = screen.last
Clean(s) == [s EXCEPT !.rdpDirty = FALSE, !.cpuDirty = FALSE]

\* frame: whether the swapchain has an image to draw to.  A forced field that shows
\* nothing is drawn blank.
PresentField(force, frame) ==
    LET ended == [screen EXCEPT !.moved = FALSE]
        kept == IF ShowsNothing(screen.vi) THEN ended
                ELSE [ended EXCEPT !.presented = TRUE, !.last = screen.vi.origin]
    IN screen' = IF ~force /\ (Duplicate \/ ShowsNothing(screen.vi)) THEN ended
                 ELSE IF ~frame THEN Clean(ended)
                 ELSE [Clean(kept) EXCEPT !.scanned = screen.vi, !.drawn = FALSE, !.written = {}]

ScreenInit ==
    screen = [vi |-> ResetVi, rdpDirty |-> TRUE, cpuDirty |-> TRUE, presented |-> FALSE, last |-> 0,
              moved |-> FALSE, drawn |-> FALSE, written |-> {}, scanned |-> ResetVi]
\* fini_video and init_video, with a reset of the VI (a new game) or without (reinit_rdp).
NextPicture(vi) ==
    screen' = [screen EXCEPT !.vi = vi, !.rdpDirty = TRUE, !.cpuDirty = TRUE, !.presented = FALSE,
                             !.last = 0, !.drawn = TRUE]

ScreenNext ==
    \/ NewCommands
    \/ \E a \in Memory : WriteMemory(a)
    \/ \E a \in InlineStores : StoreInline(a)
    \/ \E register \in ViRegisters : \E value \in ViValues[register] : WriteVi(register, value)
    \/ \E force \in BOOLEAN, frame \in IF FramesFail THEN BOOLEAN ELSE {TRUE} : PresentField(force, frame)
    \/ \E vi \in {screen.vi, ResetVi} : NextPicture(vi)

ScreenSpec == ScreenInit /\ [][ScreenNext]_screen

-----------------------------------------------------------------------------
(* A field that is not presented because it looks like the last one would have    *)
(* shown the same picture: every register the scan-out reads is as it was then,   *)
(* and nothing has been drawn or written in the picture since.                    *)
SkippedIsShown ==
    Duplicate => /\ ~screen.drawn
                 /\ screen.scanned = screen.vi
                 /\ Picture(screen.vi) \cap screen.written = {}
=============================================================================

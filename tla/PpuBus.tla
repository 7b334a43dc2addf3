------------------------------- MODULE PpuBus -------------------------------
(***************************************************************************)
(* What the picture unit hears of the bus: the registers its timing reads  *)
(* and the events bus/ppu_event_bridge.spade makes of a register write.    *)
(* LCDC keeps its enable bit, STAT its four interrupt sources, LYC its     *)
(* line; the registers that only colour pixels are left out.               *)
(***************************************************************************)
EXTENDS Integers

CONSTANTS
    OAM_LAST_DOT, TRANSFER_LAST_DOT, LINE_LAST_DOT,   \* 79, 251, 455
    VISIBLE_LINES, TOTAL_LINES,                       \* 144, 154
    LycValues,      \* the values the program writes to LYC
    Selections      \* the sets of sources the program selects in STAT

ASSUME LineAssumption ==
    /\ OAM_LAST_DOT \in Nat \ {0} /\ TRANSFER_LAST_DOT \in Nat /\ LINE_LAST_DOT \in Nat
    /\ OAM_LAST_DOT < TRANSFER_LAST_DOT /\ TRANSFER_LAST_DOT < LINE_LAST_DOT
    /\ VISIBLE_LINES \in Nat \ {0, 1} /\ TOTAL_LINES \in Nat /\ VISIBLE_LINES < TOTAL_LINES

Sources == {"lyc", "mode2", "mode1", "mode0"}

ASSUME RegisterAssumption == LycValues \subseteq Nat /\ Selections \subseteq SUBSET Sources

Dots == 0 .. LINE_LAST_DOT
Lines == 0 .. TOTAL_LINES - 1
Runs == {"Disabled", "WarmupBlankFrame", "Running"}
Phases == {"LcdOff", "OamScan", "Transfer", "HBlank", "VBlank"}

NoWrite == [reg |-> "none", enable |-> FALSE, sel |-> {}, lyc |-> 0]

Writes ==
    {NoWrite}
        \cup {[NoWrite EXCEPT !.reg = "Lcdc", !.enable = on] : on \in BOOLEAN}
        \cup {[NoWrite EXCEPT !.reg = "Stat", !.sel = sel] : sel \in Selections}
        \cup {[NoWrite EXCEPT !.reg = "Lyc", !.lyc = line] : line \in LycValues}

apply_mmio_write(regs, write) ==
    [lcd_enable |-> IF write.reg = "Lcdc" THEN write.enable ELSE regs.lcd_enable,
     sel |-> IF write.reg = "Stat" THEN write.sel ELSE regs.sel,
     lyc |-> IF write.reg = "Lyc" THEN write.lyc ELSE regs.lyc]

\* The registers the skipped boot ROM leaves: LCDC 0x91, STAT 0x85, LYC 0.
SkipbootRegs == [lcd_enable |-> TRUE, sel |-> {}, lyc |-> 0]

(* The bridge: a write of LCDC that changes the enable bit against the copy  *)
(* the bridge keeps is followed by an order to switch the panel.             *)

\* A slip: the order is sent for switching on only.
OrderOnOnly(write, lcdc7_shadow) ==
    IF write.reg = "Lcdc" /\ write.enable /\ ~ lcdc7_shadow THEN "on" ELSE "none"

ForceLcdPower(write, lcdc7_shadow) ==
    IF write.reg # "Lcdc" \/ write.enable = lcdc7_shadow THEN "none"
    ELSE IF write.enable THEN "on" ELSE "off"

NextShadow(write, lcdc7_shadow) ==
    IF write.reg = "Lcdc" THEN write.enable ELSE lcdc7_shadow

\* A slip: the frame ends one line late.
LinePastLast(ly) == IF ly = TOTAL_LINES THEN 0 ELSE ly + 1

next_line(ly) == IF ly = TOTAL_LINES - 1 THEN 0 ELSE ly + 1
NextDot(dot) == IF dot = LINE_LAST_DOT THEN 0 ELSE dot + 1

visible_mode(run, phase) == IF run = "Disabled" THEN "LcdOff" ELSE phase

\* The source of the interrupt line each mode stands for.
mode_source_enabled(sel, mode) ==
    \/ mode = "HBlank" /\ "mode0" \in sel
    \/ mode = "VBlank" /\ "mode1" \in sel
    \/ mode = "OamScan" /\ "mode2" \in sel
=============================================================================

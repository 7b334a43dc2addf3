------------------------------ MODULE PpuTiming ------------------------------
(***************************************************************************)
(* The timing of the hardware picture unit (ppu/rtl/timing.spade,          *)
(* ppu/rtl/irq.spade and step_dot_with_profile in ppu/sem/step.spade).     *)
(* A transfer ends when the fetcher has output the last pixel, which here  *)
(* may be after any dot of TransferEnds; after the panel is switched on    *)
(* the first line is shorter and has no OAM scan, and the frame is blank.  *)
(***************************************************************************)
EXTENDS PpuBus

CONSTANTS
    WARMUP_HOLD_LAST_DOT,       \* 71: the warm-up line shows no mode until here
    WARMUP_TRANSFER_LAST_DOT,   \* 243
    WARMUP_LINE_LAST_DOT,       \* 443
    LCD_OFF_LAST_DOT,           \* 3: line 1 of the warm-up frame starts late
    TransferEnds                \* the dots after which the fetcher may be done

ASSUME WarmupAssumption ==
    /\ WARMUP_HOLD_LAST_DOT \in Dots /\ WARMUP_TRANSFER_LAST_DOT \in Dots
    /\ WARMUP_LINE_LAST_DOT \in Dots /\ LCD_OFF_LAST_DOT \in Dots
    /\ WARMUP_HOLD_LAST_DOT < WARMUP_TRANSFER_LAST_DOT
    /\ WARMUP_TRANSFER_LAST_DOT < WARMUP_LINE_LAST_DOT
    /\ WARMUP_LINE_LAST_DOT < LINE_LAST_DOT /\ LCD_OFF_LAST_DOT < OAM_LAST_DOT
    /\ TransferEnds # {} /\ TransferEnds \subseteq OAM_LAST_DOT + 1 .. LINE_LAST_DOT - 1

VARIABLE rtl    \* the state register and the interrupt requests of the last dot

dmg_skipboot_state ==
    [regs |-> SkipbootRegs,
     beam |-> [run |-> "Running", phase |-> "OamScan", ly |-> 0, dot |-> 0],
     lyc_match_flag |-> TRUE, line_high |-> FALSE, vblank_req |-> FALSE, stat_req |-> FALSE]

WarmupLine0(b) == b.run = "WarmupBlankFrame" /\ b.ly = 0

line_done(b) == b.dot = IF WarmupLine0(b) THEN WARMUP_LINE_LAST_DOT ELSE LINE_LAST_DOT

LcdOffOver(b) == b.dot = IF WarmupLine0(b) THEN WARMUP_HOLD_LAST_DOT ELSE LCD_OFF_LAST_DOT

transfer_complete(b, fetched) ==
    IF WarmupLine0(b) THEN b.dot = WARMUP_TRANSFER_LAST_DOT ELSE fetched

LineStart(b) == b.phase \in {"HBlank", "VBlank"} /\ line_done(b)
FrameStart(b) == b.phase = "VBlank" /\ line_done(b) /\ b.ly = TOTAL_LINES - 1

advance_phase(b, fetched) ==
    CASE b.phase = "LcdOff" ->
            IF ~ LcdOffOver(b) THEN "LcdOff" ELSE IF WarmupLine0(b) THEN "Transfer" ELSE "OamScan"
      [] b.phase = "OamScan" -> IF b.dot = OAM_LAST_DOT THEN "Transfer" ELSE "OamScan"
      [] b.phase = "Transfer" -> IF transfer_complete(b, fetched) THEN "HBlank" ELSE "Transfer"
      [] b.phase = "HBlank" ->
            IF ~ line_done(b) THEN "HBlank"
            ELSE IF b.ly = VISIBLE_LINES - 1 THEN "VBlank"
            ELSE IF WarmupLine0(b) THEN "LcdOff" ELSE "OamScan"
      [] b.phase = "VBlank" -> IF FrameStart(b) THEN "OamScan" ELSE "VBlank"

advance_timing(b, fetched) ==
    [run |-> IF FrameStart(b) THEN "Running" ELSE b.run,
     phase |-> advance_phase(b, fetched),
     ly |-> IF LineStart(b) THEN next_line(b.ly) ELSE b.ly,
     dot |-> IF LineStart(b) THEN 0 ELSE NextDot(b.dot)]

RestartedBeam(on) ==
    [run |-> IF on THEN "WarmupBlankFrame" ELSE "Disabled", phase |-> "LcdOff", ly |-> 0, dot |-> 0]

\* The comparison stays as it was while the panel is off, and is not made on
\* the late lines of the warm-up frame.
next_lyc_match_flag(s, regs, beam) ==
    CASE beam.run = "Disabled" -> s.lyc_match_flag
      [] beam.run = "WarmupBlankFrame" /\ beam.phase = "LcdOff" /\ beam.ly # 0 -> FALSE
      [] OTHER -> beam.ly = regs.lyc

stat_line_level(regs, beam, match) ==
    /\ beam.run # "Disabled" /\ regs.lcd_enable
    /\ \/ mode_source_enabled(regs.sel, visible_mode(beam.run, beam.phase))
       \/ "lyc" \in regs.sel /\ match

entered_vblank(s, beam) ==
    /\ visible_mode(s.beam.run, s.beam.phase) # "VBlank"
    /\ visible_mode(beam.run, beam.phase) = "VBlank"

dmg_mode2_vblank_entry_stat_pulse(s, regs, beam) ==
    "mode2" \in regs.sel /\ beam.ly = VISIBLE_LINES /\ entered_vblank(s, beam) /\ ~ s.line_high

step_dot(s, write, power, fetched) ==
    LET written == apply_mmio_write(s.regs, write)
        stored == IF power = "none" THEN written.lcd_enable ELSE power = "on"
        requested == IF power = "none" THEN s.regs.lcd_enable ELSE power = "on"
        regs == [written EXCEPT !.lcd_enable = stored]
        transition_taken == s.regs.lcd_enable # requested
        beam == IF transition_taken THEN RestartedBeam(requested)
                ELSE IF s.beam.run = "Disabled" THEN RestartedBeam(FALSE)
                ELSE advance_timing(s.beam, fetched)
        match == next_lyc_match_flag(s, regs, beam)
        line == stat_line_level(regs, beam, match)
        level_hold == /\ transition_taken /\ requested
                      /\ "lyc" \in regs.sel /\ s.lyc_match_flag /\ match
    IN [regs |-> regs, beam |-> beam, lyc_match_flag |-> match, line_high |-> line,
        vblank_req |-> entered_vblank(s, beam),
        stat_req |-> /\ (line /\ ~ s.line_high) \/ dmg_mode2_vblank_entry_stat_pulse(s, regs, beam)
                     /\ ~ level_hold]

\* What the fetcher may say in this dot: done after a dot of TransferEnds,
\* after the last of them at the latest.
Fetched(b) ==
    IF b.phase # "Transfer" \/ b.dot \notin TransferEnds THEN {FALSE}
    ELSE IF \A d \in TransferEnds : d <= b.dot THEN {TRUE} ELSE BOOLEAN
=============================================================================

---------------------------- MODULE PpuReference ----------------------------
(***************************************************************************)
(* The reference model of the picture unit's timing (bench/ref/ppu_ref.py):*)
(* one step is one dot, with the events of the bus.  A line is OAM scan,   *)
(* transfer and horizontal blank, each of a fixed length; the lines after  *)
(* the visible ones are vertical blank.  Switching the panel off clears    *)
(* the beam; switching it on starts a blank frame.                         *)
(*                                                                         *)
(* The reference takes any list of events; it is stepped here with those   *)
(* the bridge sends.  The sampled SCX and window bits and the evidence     *)
(* tags of a commit are left out: the timing does not read them.           *)
(***************************************************************************)
EXTENDS PpuBus

VARIABLES
    ppu,            \* PpuState and the interrupt requests of the last dot
    lcdc7_shadow    \* the bridge's copy of the enable bit

refVars == <<ppu, lcdc7_shadow>>

NoBeam == [run |-> "Disabled", phase |-> "LcdOff", ly |-> 0, dot |-> 0]

_base_reset_state ==
    [regs |-> SkipbootRegs,
     beam |-> [run |-> "Running", phase |-> "OamScan", ly |-> 0, dot |-> 0],
     line_high |-> FALSE, vblank_req |-> FALSE, stat_req |-> FALSE]

stat_line(regs, beam) ==
    /\ beam.run # "Disabled" /\ regs.lcd_enable
    /\ \/ mode_source_enabled(regs.sel, visible_mode(beam.run, beam.phase))
       \/ "lyc" \in regs.sel /\ beam.ly = regs.lyc

NextPhase(b) ==
    CASE b.phase = "LcdOff" -> "OamScan"
      [] b.phase = "OamScan" -> IF b.dot = OAM_LAST_DOT THEN "Transfer" ELSE "OamScan"
      [] b.phase = "Transfer" -> IF b.dot = TRANSFER_LAST_DOT THEN "HBlank" ELSE "Transfer"
      [] b.phase = "HBlank" ->
            IF b.dot # LINE_LAST_DOT THEN "HBlank"
            ELSE IF b.ly = VISIBLE_LINES - 1 THEN "VBlank" ELSE "OamScan"
      [] b.phase = "VBlank" ->
            IF b.dot = LINE_LAST_DOT /\ b.ly = TOTAL_LINES - 1 THEN "OamScan" ELSE "VBlank"

NextLy(b) ==
    IF b.phase \in {"HBlank", "VBlank"} /\ b.dot = LINE_LAST_DOT THEN next_line(b.ly) ELSE b.ly

FrameDone(b) == b.phase = "VBlank" /\ b.dot = LINE_LAST_DOT /\ b.ly = TOTAL_LINES - 1

_advance_timing(b) ==
    IF b.run = "Disabled" THEN NoBeam
    ELSE [run |-> IF FrameDone(b) THEN "Running" ELSE b.run,
          phase |-> NextPhase(b), ly |-> NextLy(b), dot |-> NextDot(b.dot)]

\* The registers after the write, the enable bit also after the order to
\* switch on; switching off clears it.
WrittenRegs(s, write, power) ==
    LET regs == apply_mmio_write(s.regs, write)
    IN [regs EXCEPT !.lcd_enable = (@ \/ power = "on") /\ power # "off"]

SwitchedOff(s, regs, power) == power = "off" \/ (s.beam.run # "Disabled" /\ ~ regs.lcd_enable)
SwitchedOn(s, regs, power) == power = "on" \/ (s.beam.run = "Disabled" /\ regs.lcd_enable)

\* A slip: switching off leaves the beam where it is.
BeamStaysWhenOff(s, regs, power) ==
    IF SwitchedOff(s, regs, power) THEN [s.beam EXCEPT !.run = "Disabled", !.phase = "LcdOff"]
    ELSE IF SwitchedOn(s, regs, power)
    THEN _advance_timing([s.beam EXCEPT !.run = "WarmupBlankFrame", !.phase = "LcdOff"])
    ELSE _advance_timing(s.beam)

NextBeam(s, regs, power) ==
    IF SwitchedOff(s, regs, power) THEN NoBeam
    ELSE IF SwitchedOn(s, regs, power)
    THEN _advance_timing([s.beam EXCEPT !.run = "WarmupBlankFrame", !.phase = "LcdOff"])
    ELSE _advance_timing(s.beam)

_step_dot_with_config(s, write, power) ==
    LET regs == WrittenRegs(s, write, power)
        beam == NextBeam(s, regs, power)
        line == stat_line(regs, beam)
    IN [regs |-> regs, beam |-> beam, line_high |-> line,
        vblank_req |-> /\ visible_mode(s.beam.run, s.beam.phase) # "VBlank"
                       /\ visible_mode(beam.run, beam.phase) = "VBlank",
        stat_req |-> line /\ ~ s.line_high]

RefInit == ppu = _base_reset_state /\ lcdc7_shadow = TRUE

RefDot(write) ==
    /\ ppu' = _step_dot_with_config(ppu, write, ForceLcdPower(write, lcdc7_shadow))
    /\ lcdc7_shadow' = NextShadow(write, lcdc7_shadow)

RefNext == \E write \in Writes : RefDot(write)

RefSpec == RefInit /\ [][RefNext]_refVars

RefTypeOK ==
    /\ ppu \in [regs : [lcd_enable : BOOLEAN, sel : SUBSET Sources, lyc : Nat],
                beam : [run : Runs, phase : Phases, ly : Lines, dot : Dots],
                line_high : BOOLEAN, vblank_req : BOOLEAN, stat_req : BOOLEAN]
    /\ lcdc7_shadow \in BOOLEAN

PhaseAt(ly, dot) ==
    IF ly >= VISIBLE_LINES THEN "VBlank"
    ELSE IF dot <= OAM_LAST_DOT THEN "OamScan"
    ELSE IF dot <= TRANSFER_LAST_DOT THEN "Transfer" ELSE "HBlank"

(* The phase of a panel that is on is the one its line and dot belong to,    *)
(* and a panel that is off has its beam at the start, with the bridge's copy *)
(* of the enable bit saying which.  The code keeps phase, line and dot apart *)
(* and moves the phase only where the dot equals a boundary, so one restart  *)
(* with a dot left over would shift every later line (_advance_timing,       *)
(* _step_dot_with_config).                                                   *)
PhaseMatchesBeam ==
    IF lcdc7_shadow
    THEN ppu.beam.run # "Disabled" /\ ppu.beam.phase = PhaseAt(ppu.beam.ly, ppu.beam.dot)
    ELSE ppu.beam = NoBeam
=============================================================================

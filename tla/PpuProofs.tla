----------------------------- MODULE PpuProofs -----------------------------
(***************************************************************************)
(* The picture unit.  First its timing: the reference model keeps its      *)
(* phase and its beam together, and the hardware keeps step with it, for   *)
(* every length of a line and of a frame.  Then its picture: the pipeline  *)
(* that fetches, queues and waits dot by dot draws each line of every      *)
(* ordinary scene as the reference, which looks every pixel up.            *)
(***************************************************************************)
EXTENDS PpuModels, PixelPipeline, FiniteSetTheorems, WellFoundedInduction, TLAPS

(* The inductive invariant: the order of the bridge means something only as  *)
(* long as its copy of the enable bit is the one the registers hold.         *)
BeamInv ==
    /\ RefTypeOK
    /\ ppu.regs.lcd_enable = lcdc7_shadow
    /\ PhaseMatchesBeam

Beam == [run : Runs, phase : Phases, ly : Lines, dot : Dots]

(* A beam that is on and in its phase stays on and in its phase, and so does *)
(* one that has just been switched on at the start (_advance_timing).        *)
LEMMA AdvanceKeepsPhase ==
    ASSUME NEW b \in Beam, b.run # "Disabled",
           b.phase = PhaseAt(b.ly, b.dot) \/ (b.phase = "LcdOff" /\ b.ly = 0 /\ b.dot = 0)
    PROVE  /\ _advance_timing(b) \in Beam
           /\ _advance_timing(b).run # "Disabled"
           /\ _advance_timing(b).phase = PhaseAt(_advance_timing(b).ly, _advance_timing(b).dot)
<1> DEFINE n == _advance_timing(b)
<1>1. n = [run |-> IF FrameDone(b) THEN "Running" ELSE b.run,
           phase |-> NextPhase(b), ly |-> NextLy(b), dot |-> NextDot(b.dot)]
  BY DEF _advance_timing
<1>2. b.run \in Runs /\ b.phase \in Phases /\ b.ly \in Lines /\ b.dot \in Dots
  BY DEF Beam
<1>3. NextDot(b.dot) \in Dots
  BY <1>2, LineAssumption DEF NextDot, Dots
<1>4. NextLy(b) \in Lines
  BY <1>2, LineAssumption DEF NextLy, next_line, Lines
<1>5. NextPhase(b) = PhaseAt(NextLy(b), NextDot(b.dot))
  <2>1. CASE b.phase = "LcdOff" /\ b.ly = 0 /\ b.dot = 0
    BY <2>1, LineAssumption DEF NextPhase, PhaseAt, NextLy, NextDot
  <2>2. CASE b.phase = PhaseAt(b.ly, b.dot)
    <3>1. CASE b.ly >= VISIBLE_LINES
      BY <2>2, <3>1, <1>2, LineAssumption
      DEF NextPhase, PhaseAt, NextLy, NextDot, next_line, Lines, Dots
    <3>2. CASE b.ly < VISIBLE_LINES /\ b.dot <= OAM_LAST_DOT
      BY <2>2, <3>2, <1>2, LineAssumption
      DEF NextPhase, PhaseAt, NextLy, NextDot, next_line, Lines, Dots
    <3>3. CASE b.ly < VISIBLE_LINES /\ b.dot > OAM_LAST_DOT /\ b.dot <= TRANSFER_LAST_DOT
      BY <2>2, <3>3, <1>2, LineAssumption
      DEF NextPhase, PhaseAt, NextLy, NextDot, next_line, Lines, Dots
    <3>4. CASE b.ly < VISIBLE_LINES /\ b.dot > TRANSFER_LAST_DOT
      BY <2>2, <3>4, <1>2, LineAssumption
      DEF NextPhase, PhaseAt, NextLy, NextDot, next_line, Lines, Dots
    <3> QED BY <3>1, <3>2, <3>3, <3>4, <1>2, LineAssumption DEF Lines, Dots
  <2> QED BY <2>1, <2>2
<1>6. NextPhase(b) \in Phases
  BY <1>5 DEF PhaseAt, Phases
<1>7. (IF FrameDone(b) THEN "Running" ELSE b.run) \in Runs \ {"Disabled"}
  BY <1>2 DEF Runs
<1> QED BY <1>1, <1>3, <1>4, <1>5, <1>6, <1>7 DEF Beam

(* After the skipped boot ROM the panel is on at the start of line 0.        *)
LEMMA BeamInit == RefInit => BeamInv
<1> SUFFICES ASSUME RefInit PROVE BeamInv
  OBVIOUS
<1>1. ppu = _base_reset_state /\ lcdc7_shadow = TRUE
  BY DEF RefInit
<1>2. 0 \in Lines /\ 0 \in Dots /\ PhaseAt(0, 0) = "OamScan"
  BY LineAssumption DEF Lines, Dots, PhaseAt
<1>3. RefTypeOK
  BY <1>1, <1>2 DEF RefTypeOK, _base_reset_state, SkipbootRegs, Runs, Phases
<1>4. ppu.regs.lcd_enable = lcdc7_shadow
  BY <1>1 DEF _base_reset_state, SkipbootRegs
<1>5. PhaseMatchesBeam
  BY <1>1, <1>2 DEF PhaseMatchesBeam, _base_reset_state
<1> QED BY <1>3, <1>4, <1>5 DEF BeamInv

(* Every write is well formed.                                               *)
LEMMA WriteTyped ==
    ASSUME NEW write \in Writes
    PROVE  write.enable \in BOOLEAN /\ write.sel \in SUBSET Sources /\ write.lyc \in Nat
<1>1. CASE write = NoWrite
  BY <1>1 DEF NoWrite
<1>2. CASE \E on \in BOOLEAN : write = [NoWrite EXCEPT !.reg = "Lcdc", !.enable = on]
  <2>1. PICK on \in BOOLEAN : write = [NoWrite EXCEPT !.reg = "Lcdc", !.enable = on]
    BY <1>2
  <2>2. write.enable = on /\ write.sel = {} /\ write.lyc = 0
    BY <2>1 DEF NoWrite
  <2> QED BY <2>1, <2>2
<1>3. CASE \E sel \in Selections : write = [NoWrite EXCEPT !.reg = "Stat", !.sel = sel]
  BY <1>3, RegisterAssumption DEF NoWrite
<1>4. CASE \E line \in LycValues : write = [NoWrite EXCEPT !.reg = "Lyc", !.lyc = line]
  BY <1>4, RegisterAssumption DEF NoWrite
<1> QED BY <1>1, <1>2, <1>3, <1>4 DEF Writes

(* The order of the bridge moves the enable bit of the registers with its    *)
(* own copy.                                                                 *)
LEMMA EnableFollowsShadow ==
    ASSUME BeamInv, NEW write \in Writes
    PROVE  WrittenRegs(ppu, write, ForceLcdPower(write, lcdc7_shadow)).lcd_enable
             = NextShadow(write, lcdc7_shadow)
<1> DEFINE r == apply_mmio_write(ppu.regs, write)
           power == ForceLcdPower(write, lcdc7_shadow)
<1>1. ppu.regs.lcd_enable = lcdc7_shadow /\ lcdc7_shadow \in BOOLEAN /\ write.enable \in BOOLEAN
  BY WriteTyped DEF BeamInv, RefTypeOK
<1>2. WrittenRegs(ppu, write, power).lcd_enable = ((r.lcd_enable \/ power = "on") /\ power # "off")
  BY DEF WrittenRegs, apply_mmio_write
<1>3. r.lcd_enable = NextShadow(write, lcdc7_shadow)
  BY <1>1 DEF apply_mmio_write, NextShadow
<1>4. CASE write.reg # "Lcdc" \/ write.enable = lcdc7_shadow
  <2>1. power = "none"
    BY <1>4 DEF ForceLcdPower
  <2> QED BY <2>1, <1>1, <1>2, <1>3 DEF NextShadow
<1>5. CASE write.reg = "Lcdc" /\ write.enable # lcdc7_shadow
  <2>1. power = IF write.enable THEN "on" ELSE "off"
    BY <1>5 DEF ForceLcdPower
  <2> QED BY <2>1, <1>1, <1>2, <1>3, <1>5 DEF NextShadow
<1> QED BY <1>4, <1>5

(* One dot keeps the invariant, whatever is written in it.                   *)
LEMMA BeamStep == BeamInv /\ [RefNext]_refVars => BeamInv'
<1> SUFFICES ASSUME BeamInv, [RefNext]_refVars PROVE BeamInv'
  OBVIOUS
<1>1. CASE UNCHANGED refVars
  BY <1>1 DEF BeamInv, refVars, RefTypeOK, PhaseMatchesBeam
<1>2. CASE RefNext
  <2>1. PICK write \in Writes : RefDot(write)
    BY <1>2 DEF RefNext
  <2> DEFINE power == ForceLcdPower(write, lcdc7_shadow)
             settled == WrittenRegs(ppu, write, power)
             beam == NextBeam(ppu, settled, power)
             line == stat_line(settled, beam)
  <2>2. /\ ppu' = [regs |-> settled, beam |-> beam, line_high |-> line,
                   vblank_req |-> /\ visible_mode(ppu.beam.run, ppu.beam.phase) # "VBlank"
                                  /\ visible_mode(beam.run, beam.phase) = "VBlank",
                   stat_req |-> line /\ ~ ppu.line_high]
        /\ lcdc7_shadow' = NextShadow(write, lcdc7_shadow)
    BY <2>1 DEF RefDot, _step_dot_with_config
  <2>3. settled.lcd_enable = NextShadow(write, lcdc7_shadow)
    BY EnableFollowsShadow
  <2>4. NextShadow(write, lcdc7_shadow) \in BOOLEAN
    BY WriteTyped DEF BeamInv, RefTypeOK, NextShadow
  <2>5. settled \in [lcd_enable : BOOLEAN, sel : SUBSET Sources, lyc : Nat]
    <3>1. /\ ppu.regs.sel \in SUBSET Sources /\ ppu.regs.lyc \in Nat
          /\ write.sel \in SUBSET Sources /\ write.lyc \in Nat
      BY WriteTyped DEF BeamInv, RefTypeOK
    <3>2. settled = [lcd_enable |-> settled.lcd_enable,
                     sel |-> IF write.reg = "Stat" THEN write.sel ELSE ppu.regs.sel,
                     lyc |-> IF write.reg = "Lyc" THEN write.lyc ELSE ppu.regs.lyc]
      BY DEF WrittenRegs, apply_mmio_write
    <3> HIDE DEF settled
    <3> QED BY <3>1, <3>2, <2>3, <2>4
  <2>6. ppu.beam \in Beam
    BY DEF BeamInv, RefTypeOK, Beam
  <2>7. /\ beam \in Beam
        /\ IF NextShadow(write, lcdc7_shadow)
           THEN beam.run # "Disabled" /\ beam.phase = PhaseAt(beam.ly, beam.dot)
           ELSE beam = NoBeam
    <3>1. CASE ~ NextShadow(write, lcdc7_shadow)
      <4>1. CASE lcdc7_shadow
        <5>1. SwitchedOff(ppu, settled, power)
          BY <4>1, <2>3, <3>1 DEF SwitchedOff, BeamInv, PhaseMatchesBeam
        <5>2. beam = NoBeam
          BY <5>1 DEF NextBeam
        <5> QED BY <5>2, <3>1, LineAssumption DEF NoBeam, Beam, Runs, Phases, Lines, Dots
      <4>2. CASE ~ lcdc7_shadow
        <5>1. ppu.beam = NoBeam /\ ppu.beam.run = "Disabled"
          BY <4>2 DEF BeamInv, PhaseMatchesBeam, NoBeam
        <5>2. power = "none"
          <6>1. lcdc7_shadow = FALSE
            BY <4>2 DEF BeamInv, RefTypeOK
          <6>2. write.reg = "Lcdc" => write.enable = FALSE
            BY <3>1, WriteTyped DEF NextShadow
          <6> QED BY <6>1, <6>2 DEF ForceLcdPower
        <5>3. ~ SwitchedOff(ppu, settled, power) /\ ~ SwitchedOn(ppu, settled, power)
          BY <5>1, <5>2, <2>3, <3>1 DEF SwitchedOff, SwitchedOn
        <5>4. beam = NoBeam
          BY <5>1, <5>3 DEF NextBeam, _advance_timing
        <5> QED BY <5>4, <3>1, LineAssumption DEF NoBeam, Beam, Runs, Phases, Lines, Dots
      <4> QED BY <4>1, <4>2
    <3>2. CASE NextShadow(write, lcdc7_shadow)
      <4>1. ~ SwitchedOff(ppu, settled, power)
        <5>1. power # "off"
          BY <3>2 DEF ForceLcdPower, NextShadow
        <5> QED BY <5>1, <2>3, <3>2 DEF SwitchedOff
      <4>2. CASE lcdc7_shadow
        <5>1. ppu.beam.run # "Disabled" /\ ppu.beam.phase = PhaseAt(ppu.beam.ly, ppu.beam.dot)
          BY <4>2 DEF BeamInv, PhaseMatchesBeam
        <5>2. ~ SwitchedOn(ppu, settled, power)
          BY <5>1, <3>2, <4>2 DEF SwitchedOn, ForceLcdPower, NextShadow
        <5>3. beam = _advance_timing(ppu.beam)
          BY <4>1, <5>2 DEF NextBeam
        <5> HIDE DEF beam
        <5> QED BY <3>2, <5>1, <5>3, <2>6, AdvanceKeepsPhase
      <4>3. CASE ~ lcdc7_shadow
        <5> DEFINE start == [ppu.beam EXCEPT !.run = "WarmupBlankFrame", !.phase = "LcdOff"]
        <5>1. ppu.beam = NoBeam
          BY <4>3 DEF BeamInv, PhaseMatchesBeam
        <5>2. SwitchedOn(ppu, settled, power)
          BY <5>1, <2>3, <3>2 DEF SwitchedOn, NoBeam
        <5>3. beam = _advance_timing(start)
          BY <4>1, <5>2 DEF NextBeam
        <5>4. start = [run |-> "WarmupBlankFrame", phase |-> "LcdOff", ly |-> 0, dot |-> 0]
          <6>1. start = [NoBeam EXCEPT !.run = "WarmupBlankFrame", !.phase = "LcdOff"]
            BY <5>1
          <6> HIDE DEF start
          <6> QED BY <6>1 DEF NoBeam
        <5>5. 0 \in Lines /\ 0 \in Dots
          BY LineAssumption DEF Lines, Dots
        <5>6. start \in Beam /\ start.run # "Disabled"
              /\ start.phase = "LcdOff" /\ start.ly = 0 /\ start.dot = 0
          BY <5>4, <5>5 DEF Beam, Runs, Phases
        <5> HIDE DEF beam, start
        <5> QED BY <3>2, <5>3, <5>6, AdvanceKeepsPhase
      <4> QED BY <4>2, <4>3
    <3> QED BY <2>4, <3>1, <3>2
  <2>8. RefTypeOK'
    <3>1. line \in BOOLEAN /\ (line /\ ~ ppu.line_high) \in BOOLEAN
      BY DEF stat_line
    <3> HIDE DEF settled, beam, line, power
    <3> QED BY <2>2, <2>4, <2>5, <2>7, <3>1 DEF RefTypeOK, Beam
  <2>9. (ppu.regs.lcd_enable = lcdc7_shadow)'
    BY <2>2, <2>3
  <2>10. PhaseMatchesBeam'
    <3>1. ppu'.beam = beam
      BY <2>2
    <3> HIDE DEF beam
    <3> QED BY <2>2, <2>7, <3>1 DEF PhaseMatchesBeam
  <2> QED BY <2>8, <2>9, <2>10 DEF BeamInv
<1> QED BY <1>1, <1>2

(* The phase of the reference model is always the one its line and dot       *)
(* belong to, and a panel that is off has its beam at the start, whatever    *)
(* the program writes and when (PhaseMatchesBeam of every run).              *)
THEOREM BeamTheorem == RefSpec => []PhaseMatchesBeam
<1>1. BeamInv => PhaseMatchesBeam
  BY DEF BeamInv
<1> QED BY <1>1, BeamInit, BeamStep, PTL DEF RefSpec
-----------------------------------------------------------------------------
(* The hardware beside the reference.                                        *)

(* The phase of the hardware is the one its line and dot belong to, but for  *)
(* the end of a transfer, which is at the last of TransferEnds at the latest.*)
HardwarePhase(b) ==
    IF WarmupLine0(b)
    THEN /\ b.dot <= WARMUP_LINE_LAST_DOT
         /\ b.phase = IF b.dot <= WARMUP_HOLD_LAST_DOT THEN "LcdOff"
                      ELSE IF b.dot <= WARMUP_TRANSFER_LAST_DOT THEN "Transfer" ELSE "HBlank"
    ELSE IF b.ly >= VISIBLE_LINES THEN b.phase = "VBlank"
    ELSE IF b.dot <= OAM_LAST_DOT
    THEN b.phase = IF b.run = "WarmupBlankFrame" /\ b.ly = 1 /\ b.dot <= LCD_OFF_LAST_DOT
                   THEN "LcdOff" ELSE "OamScan"
    ELSE b.phase = "HBlank" \/ (b.phase = "Transfer" /\ \E d \in TransferEnds : b.dot <= d)

(* The line of the next dot.                                                 *)
LineAfter(row, dot) == IF dot = LINE_LAST_DOT THEN next_line(row) ELSE row

(* The dot of the hardware's beam is that of the reference's, or ahead of it *)
(* by the dots its first line is shorter, where a frame may lie between.     *)
BeamsApart ==
    IF ~ cycled
    THEN /\ rtl.beam.run = "Running"
         /\ rtl.beam.ly = ppu.beam.ly /\ rtl.beam.dot = ppu.beam.dot
    ELSE IF WarmupLine0(rtl.beam)
    THEN ppu.beam.ly = 0 /\ ppu.beam.dot = rtl.beam.dot + 1
    ELSE \/ Position(ppu.beam) + Lead = Position(rtl.beam)
         \/ Position(ppu.beam) + Lead = Position(rtl.beam) + FrameLength

StepInv ==
    /\ BeamInv
    /\ rtl.beam \in Beam /\ rtl.regs = ppu.regs /\ cycled \in BOOLEAN
    /\ lcdc7_shadow => rtl.beam.run # "Disabled" /\ HardwarePhase(rtl.beam) /\ BeamsApart
    /\ ~ lcdc7_shadow => cycled /\ rtl.beam = RestartedBeam(FALSE)
    /\ ~ cycled =>
         /\ rtl.vblank_req = ppu.vblank_req
         /\ "mode0" \notin rtl.regs.sel => rtl.line_high = ppu.line_high

(* The dots of a frame, one after the other.                                 *)
LEMMA FrameFacts ==
    /\ LineLength \in Nat /\ LineLength >= 1 /\ LineLength = LINE_LAST_DOT + 1
    /\ FrameLength \in Nat /\ FrameLength >= LineLength
<1>1. LineLength \in Nat /\ LineLength >= 1 /\ LineLength = LINE_LAST_DOT + 1
  BY LineAssumption DEF LineLength
<1>2. TOTAL_LINES \in Nat /\ TOTAL_LINES >= 1  BY LineAssumption
<1>3. \A n, l \in Nat : n >= 1 => n * l \in Nat /\ n * l >= l  OBVIOUS
<1> QED BY <1>1, <1>2, <1>3 DEF FrameLength

(* The position goes on by one, and from the end of the frame to its start.  *)
LEMMA PositionStep ==
    ASSUME NEW row \in Lines, NEW dot \in Dots
    PROVE  LET at == row * LineLength + dot
               after == LineAfter(row, dot) * LineLength + NextDot(dot)
           IN /\ at \in 0 .. FrameLength - 1
              /\ after = IF at = FrameLength - 1 THEN 0 ELSE at + 1
<1>1. PICK l \in Nat, n \in Nat :
         /\ l = LineLength /\ n = TOTAL_LINES /\ l >= 1 /\ n >= 1
         /\ l = LINE_LAST_DOT + 1 /\ LINE_LAST_DOT \in Nat
  BY FrameFacts, LineAssumption
<1>2. row \in 0 .. n - 1 /\ dot \in 0 .. l - 1 /\ FrameLength = n * l
  <2>1. FrameLength = TOTAL_LINES * LineLength  BY DEF FrameLength
  <2>2. row \in 0 .. n - 1 /\ dot \in 0 .. l - 1  BY <1>1 DEF Lines, Dots
  <2> QED BY <1>1, <2>1, <2>2
<1>3. n * l = (n - 1) * l + l  BY <1>1
<1>4. row * l <= (n - 1) * l /\ row * l \in Nat
  <2>1. PICK k \in Nat : k = (n - 1) - row  BY <1>2
  <2>2. (n - 1) * l = row * l + k * l /\ k * l \in Nat /\ row * l \in Nat
    <3>1. n - 1 = row + k  BY <1>2, <2>1
    <3>2. row \in Nat  BY <1>2
    <3> QED BY <3>1, <3>2
  <2> QED BY <2>2
<1>5. PICK m \in Nat, f \in Nat : m = row * l /\ f = n * l
  BY <1>4
<1>6. m + l <= f  BY <1>3, <1>4, <1>5
<1>7. m + dot \in 0 .. f - 1  BY <1>2, <1>6
<1>8. CASE dot # LINE_LAST_DOT
  <2>1. LineAfter(row, dot) = row /\ NextDot(dot) = dot + 1 /\ dot + 1 < l
    BY <1>1, <1>2, <1>8 DEF LineAfter, NextDot
  <2>2. m + dot # f - 1 /\ m + (dot + 1) = (m + dot) + 1  BY <1>2, <1>6, <2>1
  <2> QED BY <1>1, <1>2, <1>5, <1>7, <2>1, <2>2
<1>9. CASE dot = LINE_LAST_DOT
  <2>1. LineAfter(row, dot) = next_line(row) /\ NextDot(dot) = 0 /\ dot = l - 1
    BY <1>1, <1>9 DEF LineAfter, NextDot
  <2>2. CASE row = n - 1
    <3>1. next_line(row) = 0 /\ m + l = f  BY <1>1, <1>3, <1>5, <2>2 DEF next_line
    <3>2. m + dot = f - 1 /\ 0 * l + 0 = 0  BY <2>1, <3>1
    <3> QED BY <1>1, <1>2, <1>5, <1>7, <2>1, <3>1, <3>2
  <2>3. CASE row # n - 1
    <3>1. next_line(row) = row + 1  BY <1>1, <2>3 DEF next_line
    <3>2. (row + 1) * l = m + l  BY <1>2, <1>5
    <3>3. m + dot # f - 1
      <4>1. PICK k \in Nat : k = (n - 1) - row /\ k >= 1  BY <1>2, <2>3
      <4>2. n = row + k + 1 /\ row \in Nat  BY <1>2, <4>1
      <4>3. n * l = row * l + k * l + l /\ k * l >= l  BY <4>1, <4>2
      <4> QED BY <1>1, <1>5, <2>1, <4>3
    <3> QED BY <1>1, <1>2, <1>5, <1>7, <2>1, <3>1, <3>2, <3>3
  <2> QED BY <2>2, <2>3
<1> QED BY <1>8, <1>9

(* The reference goes to the next dot of its frame.                          *)
LEMMA ReferenceMoves ==
    ASSUME NEW b \in Beam, b.run # "Disabled", b.phase = PhaseAt(b.ly, b.dot)
    PROVE  /\ _advance_timing(b).ly = LineAfter(b.ly, b.dot)
           /\ _advance_timing(b).dot = NextDot(b.dot)
<1>1. b.ly \in Lines /\ b.dot \in Dots  BY DEF Beam
<1>2. _advance_timing(b).ly = NextLy(b) /\ _advance_timing(b).dot = NextDot(b.dot)
  BY DEF _advance_timing
<1>3. b.dot = LINE_LAST_DOT => b.phase \in {"HBlank", "VBlank"}
  BY <1>1, LineAssumption DEF PhaseAt, Lines, Dots
<1> QED BY <1>2, <1>3 DEF NextLy, LineAfter

(* The hardware stays in its phase and goes to the next dot, which is the    *)
(* start of line 1 after the shortened line.                                 *)
LEMMA HardwareMoves ==
    ASSUME NEW b \in Beam, b.run # "Disabled", HardwarePhase(b), NEW fetched \in Fetched(b)
    PROVE  LET n == advance_timing(b, fetched)
           IN /\ n \in Beam /\ n.run # "Disabled" /\ HardwarePhase(n)
              /\ n.run # b.run => n.run = "Running"
              /\ ~ WarmupLine0(b) =>
                   /\ ~ WarmupLine0(n)
                   /\ n.ly = LineAfter(b.ly, b.dot) /\ n.dot = NextDot(b.dot)
              /\ WarmupLine0(b) /\ b.dot # WARMUP_LINE_LAST_DOT =>
                   WarmupLine0(n) /\ n.dot = b.dot + 1
              /\ WarmupLine0(b) /\ b.dot = WARMUP_LINE_LAST_DOT =>
                   ~ WarmupLine0(n) /\ n.ly = 1 /\ n.dot = 0
<1> DEFINE n == advance_timing(b, fetched)
<1>1. n = [run |-> IF FrameStart(b) THEN "Running" ELSE b.run,
           phase |-> advance_phase(b, fetched),
           ly |-> IF LineStart(b) THEN next_line(b.ly) ELSE b.ly,
           dot |-> IF LineStart(b) THEN 0 ELSE NextDot(b.dot)]
  BY DEF advance_timing
<1>2. /\ b.run \in {"WarmupBlankFrame", "Running"} /\ b.phase \in Phases
      /\ b.ly \in 0 .. TOTAL_LINES - 1 /\ b.dot \in 0 .. LINE_LAST_DOT
  BY DEF Beam, Runs, Lines, Dots
<1>3. /\ n.run = (IF FrameStart(b) THEN "Running" ELSE b.run)
      /\ n.phase = advance_phase(b, fetched)
      /\ n.ly = (IF LineStart(b) THEN next_line(b.ly) ELSE b.ly)
      /\ n.dot = (IF LineStart(b) THEN 0 ELSE NextDot(b.dot))
      /\ DOMAIN n = {"run", "phase", "ly", "dot"}
  BY <1>1
<1>4. n = [run |-> n.run, phase |-> n.phase, ly |-> n.ly, dot |-> n.dot]
  BY <1>1
<1> HIDE DEF n
<1>5. CASE WarmupLine0(b)
  <2>1. b.run = "WarmupBlankFrame" /\ b.ly = 0 /\ ~ FrameStart(b)
    BY <1>5, LineAssumption DEF WarmupLine0, FrameStart
  <2>2. LineStart(b) <=> b.dot = WARMUP_LINE_LAST_DOT
    BY <1>2, <1>5, WarmupAssumption, LineAssumption DEF LineStart, HardwarePhase, line_done, Dots
  <2>3. CASE b.dot = WARMUP_LINE_LAST_DOT
    <3>1. b.phase = "HBlank" /\ next_line(0) = 1 /\ line_done(b)
      BY <1>5, <2>3, WarmupAssumption, LineAssumption DEF HardwarePhase, next_line, line_done, Dots
    <3>2. n.phase = "LcdOff"
      BY <1>3, <1>5, <2>1, <3>1, LineAssumption DEF advance_phase
    <3>3. n.run = "WarmupBlankFrame" /\ n.ly = 1 /\ n.dot = 0
      BY <1>3, <2>1, <2>2, <2>3, <3>1
    <3>4. ~ WarmupLine0(n) /\ HardwarePhase(n) /\ n \in Beam
      BY <1>4, <3>2, <3>3, LineAssumption, WarmupAssumption
      DEF WarmupLine0, HardwarePhase, Beam, Runs, Phases, Lines, Dots
    <3> QED BY <1>5, <2>1, <2>3, <3>3, <3>4 DEF n
  <2>4. CASE b.dot # WARMUP_LINE_LAST_DOT
    <3>1. b.dot + 1 \in 0 .. WARMUP_LINE_LAST_DOT /\ NextDot(b.dot) = b.dot + 1
      BY <1>2, <1>5, <2>4, WarmupAssumption, LineAssumption DEF HardwarePhase, NextDot, Dots
    <3>2. n.run = "WarmupBlankFrame" /\ n.ly = 0 /\ n.dot = b.dot + 1 /\ WarmupLine0(n)
      BY <1>3, <2>1, <2>2, <2>4, <3>1 DEF WarmupLine0
    <3>3. n.phase = IF b.dot + 1 <= WARMUP_HOLD_LAST_DOT THEN "LcdOff"
                    ELSE IF b.dot + 1 <= WARMUP_TRANSFER_LAST_DOT THEN "Transfer" ELSE "HBlank"
      <4>1. b.phase = IF b.dot <= WARMUP_HOLD_LAST_DOT THEN "LcdOff"
                      ELSE IF b.dot <= WARMUP_TRANSFER_LAST_DOT THEN "Transfer" ELSE "HBlank"
        BY <1>5 DEF HardwarePhase
      <4>2. ~ line_done(b)  BY <1>5, <2>4 DEF line_done
      <4>3. LcdOffOver(b) <=> b.dot = WARMUP_HOLD_LAST_DOT  BY <1>5 DEF LcdOffOver
      <4>4. transfer_complete(b, fetched) <=> b.dot = WARMUP_TRANSFER_LAST_DOT
        BY <1>5 DEF transfer_complete
      <4>5. CASE b.dot <= WARMUP_HOLD_LAST_DOT
        BY <1>2, <1>3, <1>5, <4>1, <4>3, <4>5, WarmupAssumption, LineAssumption
        DEF advance_phase, Dots
      <4>6. CASE b.dot > WARMUP_HOLD_LAST_DOT /\ b.dot <= WARMUP_TRANSFER_LAST_DOT
        BY <1>2, <1>3, <1>5, <4>1, <4>4, <4>6, WarmupAssumption, LineAssumption
        DEF advance_phase, Dots
      <4>7. CASE b.dot > WARMUP_TRANSFER_LAST_DOT
        BY <1>2, <1>3, <1>5, <4>1, <4>2, <4>7, WarmupAssumption, LineAssumption
        DEF advance_phase, Dots
      <4> QED BY <1>2, <4>5, <4>6, <4>7, WarmupAssumption, LineAssumption DEF Dots
    <3>4. HardwarePhase(n) /\ n \in Beam
      BY <1>4, <3>1, <3>2, <3>3, LineAssumption, WarmupAssumption
      DEF HardwarePhase, Beam, Runs, Phases, Lines, Dots
    <3> QED BY <1>5, <2>1, <2>4, <3>2, <3>4 DEF n
  <2> QED BY <2>3, <2>4
<1>6. CASE ~ WarmupLine0(b)
  <2> DEFINE last == b.dot = LINE_LAST_DOT
  <2>1. line_done(b) <=> last  BY <1>6 DEF line_done
  <2>2. last => b.phase \in {"HBlank", "VBlank"}
    <3> SUFFICES ASSUME last PROVE b.phase \in {"HBlank", "VBlank"}  OBVIOUS
    <3>1. b.dot > OAM_LAST_DOT /\ \A d \in TransferEnds : d < b.dot
      BY LineAssumption, WarmupAssumption DEF Dots
    <3>2. CASE b.ly >= VISIBLE_LINES  BY <1>6, <3>2 DEF HardwarePhase
    <3>3. CASE b.ly < VISIBLE_LINES
      <4>1. ~ (b.dot <= OAM_LAST_DOT) /\ ~ (b.ly >= VISIBLE_LINES)
        BY <1>2, <3>1, <3>3, LineAssumption
      <4>2. \A d \in TransferEnds : ~ (b.dot <= d)
        BY <1>2, <3>1, LineAssumption, WarmupAssumption
      <4> QED BY <1>6, <4>1, <4>2 DEF HardwarePhase
    <3> QED BY <1>2, <3>2, <3>3, LineAssumption
  <2>3. LineStart(b) <=> last  BY <2>1, <2>2 DEF LineStart
  <2>4. n.ly = LineAfter(b.ly, b.dot) /\ n.dot = NextDot(b.dot)
    BY <1>3, <2>3 DEF LineAfter, NextDot
  <2>5. n.ly \in Lines /\ n.dot \in Dots
    BY <1>2, <2>4, LineAssumption DEF LineAfter, NextDot, next_line, Lines, Dots
  <2>6. FrameStart(b) <=> last /\ b.ly = TOTAL_LINES - 1
    <3>1. last /\ b.ly = TOTAL_LINES - 1 => b.phase = "VBlank"
      BY <1>6, LineAssumption DEF HardwarePhase
    <3> QED BY <2>1, <3>1 DEF FrameStart
  <2>7. ~ WarmupLine0(n) /\ n.run \in {"WarmupBlankFrame", "Running"}
        /\ (n.run # b.run => n.run = "Running")
    BY <1>2, <1>3, <1>6, <2>3, <2>6 DEF WarmupLine0, next_line
  <2>8. HardwarePhase(n) /\ n.phase \in Phases
    <3>1. CASE b.ly >= VISIBLE_LINES
      <4>1. b.phase = "VBlank"  BY <1>6, <3>1 DEF HardwarePhase
      <4>2. n.phase = IF FrameStart(b) THEN "OamScan" ELSE "VBlank"
        BY <1>3, <4>1 DEF advance_phase
      <4>3. CASE FrameStart(b)
        <5>1. n.ly = 0 /\ n.dot = 0 /\ n.run = "Running"
          BY <1>3, <2>3, <2>6, <4>3 DEF next_line
        <5> QED BY <2>7, <4>2, <4>3, <5>1, LineAssumption DEF HardwarePhase, Phases
      <4>4. CASE ~ FrameStart(b)
        <5>1. n.ly >= VISIBLE_LINES
          BY <1>2, <1>3, <2>3, <2>6, <3>1, <4>4, LineAssumption DEF next_line
        <5> QED BY <2>7, <4>2, <4>4, <5>1 DEF HardwarePhase, Phases
      <4> QED BY <4>3, <4>4
    <3>2. CASE b.ly < VISIBLE_LINES /\ b.dot <= OAM_LAST_DOT
      <4>1. ~ last /\ n.ly = b.ly /\ n.dot = b.dot + 1 /\ n.run = b.run /\ ~ (b.ly >= VISIBLE_LINES)
        BY <1>2, <1>3, <2>3, <2>6, <3>2, LineAssumption DEF NextDot
      <4>2. b.phase = IF b.run = "WarmupBlankFrame" /\ b.ly = 1 /\ b.dot <= LCD_OFF_LAST_DOT
                      THEN "LcdOff" ELSE "OamScan"
        BY <1>6, <3>2, <4>1 DEF HardwarePhase
      <4>3. CASE b.phase = "LcdOff"
        <5>1. n.phase = IF b.dot = LCD_OFF_LAST_DOT THEN "OamScan" ELSE "LcdOff"
          BY <1>3, <1>6, <4>3 DEF advance_phase, LcdOffOver
        <5>2. b.dot + 1 <= OAM_LAST_DOT
              /\ (b.dot = LCD_OFF_LAST_DOT <=> ~ (b.dot + 1 <= LCD_OFF_LAST_DOT))
          BY <1>2, <4>2, <4>3, LineAssumption, WarmupAssumption DEF Dots
        <5> QED BY <2>7, <4>1, <4>2, <4>3, <5>1, <5>2 DEF HardwarePhase, Phases
      <4>4. CASE b.phase = "OamScan"
        <5>1. n.phase = IF b.dot = OAM_LAST_DOT THEN "Transfer" ELSE "OamScan"
          BY <1>3, <4>4 DEF advance_phase
        <5>2. CASE b.dot = OAM_LAST_DOT
          <6>1. \E d \in TransferEnds : b.dot + 1 <= d
            <7>1. PICK d \in TransferEnds : TRUE  BY WarmupAssumption
            <7>2. d \in OAM_LAST_DOT + 1 .. LINE_LAST_DOT - 1  BY WarmupAssumption
            <7> QED BY <5>2, <7>2, LineAssumption
          <6>2. ~ (b.dot + 1 <= OAM_LAST_DOT)  BY <5>2, LineAssumption
          <6> QED BY <2>7, <4>1, <5>1, <5>2, <6>1, <6>2 DEF HardwarePhase, Phases
        <5>3. CASE b.dot # OAM_LAST_DOT
          <6>1. b.dot + 1 <= OAM_LAST_DOT  BY <1>2, <3>2, <5>3, LineAssumption
          <6>2. ~ (b.run = "WarmupBlankFrame" /\ b.ly = 1 /\ b.dot + 1 <= LCD_OFF_LAST_DOT)
            BY <1>2, <4>2, <4>4, WarmupAssumption, LineAssumption DEF Dots
          <6> QED BY <2>7, <4>1, <5>1, <5>3, <6>1, <6>2 DEF HardwarePhase, Phases
        <5> QED BY <5>2, <5>3
      <4> QED BY <4>2, <4>3, <4>4
    <3>3. CASE b.ly < VISIBLE_LINES /\ b.dot > OAM_LAST_DOT /\ b.phase = "Transfer"
      <4>1. ~ last /\ n.ly = b.ly /\ n.dot = b.dot + 1 /\ n.run = b.run
        BY <1>2, <1>3, <2>2, <2>3, <2>6, <3>3, LineAssumption DEF NextDot
      <4>2. ~ (n.dot <= OAM_LAST_DOT) /\ ~ (n.ly >= VISIBLE_LINES)
            /\ ~ (b.dot <= OAM_LAST_DOT) /\ ~ (b.ly >= VISIBLE_LINES)
        BY <1>2, <3>3, <4>1, LineAssumption
      <4>3. n.phase = IF fetched THEN "HBlank" ELSE "Transfer"
        BY <1>3, <1>6, <3>3 DEF advance_phase, transfer_complete
      <4>4. CASE fetched
        BY <2>7, <4>2, <4>3, <4>4 DEF HardwarePhase, Phases
      <4>5. CASE ~ fetched
        <5>1. PICK d \in TransferEnds : b.dot <= d
          BY <1>6, <3>3, <4>2 DEF HardwarePhase
        <5>2. \E e \in TransferEnds : b.dot + 1 <= e
          <6>1. CASE b.dot \in TransferEnds
            <7>1. ~ \A e \in TransferEnds : e <= b.dot
              BY <3>3, <4>5, <6>1 DEF Fetched
            <7>2. TransferEnds \subseteq Nat  BY LineAssumption, WarmupAssumption
            <7> QED BY <1>2, <7>1, <7>2, LineAssumption
          <6>2. CASE b.dot \notin TransferEnds
            <7>1. d # b.dot  BY <6>2
            <7>2. TransferEnds \subseteq Nat  BY LineAssumption, WarmupAssumption
            <7> QED BY <1>2, <5>1, <7>1, <7>2, LineAssumption
          <6> QED BY <6>1, <6>2
        <5> QED BY <2>7, <4>1, <4>2, <4>3, <4>5, <5>2 DEF HardwarePhase, Phases
      <4> QED BY <4>4, <4>5
    <3>4. CASE b.ly < VISIBLE_LINES /\ b.dot > OAM_LAST_DOT /\ b.phase = "HBlank"
      <4>1. n.phase = IF ~ last THEN "HBlank"
                      ELSE IF b.ly = VISIBLE_LINES - 1 THEN "VBlank" ELSE "OamScan"
        BY <1>3, <1>6, <2>1, <3>4 DEF advance_phase
      <4>2. n.run = b.run
        BY <1>2, <1>3, <2>6, <3>4, LineAssumption
      <4>3. CASE ~ last
        <5>1. n.ly = b.ly /\ n.dot = b.dot + 1
          BY <1>3, <2>3, <4>3 DEF NextDot
        <5>2. ~ (n.dot <= OAM_LAST_DOT) /\ ~ (n.ly >= VISIBLE_LINES)
          BY <1>2, <3>4, <5>1, LineAssumption
        <5> QED BY <2>7, <4>1, <4>3, <5>2 DEF HardwarePhase, Phases
      <4>4. CASE last
        <5>1. n.ly = b.ly + 1 /\ n.dot = 0 /\ n.dot <= OAM_LAST_DOT
          BY <1>2, <1>3, <2>3, <3>4, <4>4, LineAssumption DEF next_line
        <5>2. CASE b.ly = VISIBLE_LINES - 1
          <6>1. n.ly >= VISIBLE_LINES  BY <5>1, <5>2, LineAssumption
          <6> QED BY <2>7, <4>1, <4>4, <5>2, <6>1 DEF HardwarePhase, Phases
        <5>3. CASE b.ly # VISIBLE_LINES - 1
          <6>1. ~ (n.ly >= VISIBLE_LINES)  BY <1>2, <3>4, <5>1, <5>3, LineAssumption
          <6>2. ~ (n.run = "WarmupBlankFrame" /\ n.ly = 1)
            BY <1>2, <1>6, <4>2, <5>1 DEF WarmupLine0
          <6> QED BY <2>7, <4>1, <4>4, <5>1, <5>3, <6>1, <6>2 DEF HardwarePhase, Phases
        <5> QED BY <5>2, <5>3
      <4> QED BY <4>3, <4>4
    <3>5. b.ly < VISIBLE_LINES /\ b.dot > OAM_LAST_DOT => b.phase \in {"Transfer", "HBlank"}
      <4> SUFFICES ASSUME b.ly < VISIBLE_LINES, b.dot > OAM_LAST_DOT
                   PROVE  b.phase \in {"Transfer", "HBlank"}
        OBVIOUS
      <4>1. ~ (b.dot <= OAM_LAST_DOT) /\ ~ (b.ly >= VISIBLE_LINES)  BY <1>2, LineAssumption
      <4> QED BY <1>6, <4>1 DEF HardwarePhase
    <3> QED BY <1>2, <3>1, <3>2, <3>3, <3>4, <3>5, LineAssumption
  <2>9. n \in Beam
    BY <1>4, <2>5, <2>7, <2>8 DEF Beam, Runs
  <2> QED BY <1>6, <2>4, <2>7, <2>8, <2>9 DEF n
<1> QED BY <1>5, <1>6

(* What one dot does to both models.                                         *)
LEMMA ModelsStep ==
    ASSUME StepInv, NEW write \in Writes, Dot(write)
    PROVE  LET on == NextShadow(write, lcdc7_shadow)
           IN /\ lcdc7_shadow' = on /\ on \in BOOLEAN /\ lcdc7_shadow \in BOOLEAN
              /\ rtl'.regs = ppu'.regs /\ ppu'.regs.lcd_enable = on
              /\ BeamInv'
              /\ on # lcdc7_shadow => rtl'.beam = RestartedBeam(on)
              /\ on = lcdc7_shadow /\ ~ on => rtl'.beam = RestartedBeam(FALSE)
              /\ on = lcdc7_shadow /\ on =>
                   /\ \E fetched \in Fetched(rtl.beam) :
                         rtl'.beam = advance_timing(rtl.beam, fetched)
                   /\ ppu'.beam = _advance_timing(ppu.beam)
              /\ on /\ ~ lcdc7_shadow => ppu'.beam.ly = 0 /\ ppu'.beam.dot = 1
              /\ rtl'.vblank_req = entered_vblank(rtl, rtl'.beam)
              /\ ppu'.vblank_req = (/\ visible_mode(ppu.beam.run, ppu.beam.phase) # "VBlank"
                                    /\ visible_mode(ppu'.beam.run, ppu'.beam.phase) = "VBlank")
              /\ rtl'.line_high =
                   stat_line_level(rtl'.regs, rtl'.beam, next_lyc_match_flag(rtl, rtl'.regs, rtl'.beam))
              /\ ppu'.line_high = stat_line(ppu'.regs, ppu'.beam)
<1> DEFINE power == ForceLcdPower(write, lcdc7_shadow)
           on == NextShadow(write, lcdc7_shadow)
           settled == WrittenRegs(ppu, write, power)
           beam == NextBeam(ppu, settled, power)
           written == apply_mmio_write(rtl.regs, write)
           stored == IF power = "none" THEN written.lcd_enable ELSE power = "on"
           requested == IF power = "none" THEN rtl.regs.lcd_enable ELSE power = "on"
<1>1. /\ lcdc7_shadow' = on
      /\ ppu' = _step_dot_with_config(ppu, write, power)
      /\ \E fetched \in Fetched(rtl.beam) : rtl' = step_dot(rtl, write, power, fetched)
  BY DEF Dot, RefDot
<1>2. /\ on \in BOOLEAN /\ lcdc7_shadow \in BOOLEAN /\ ppu.regs.lcd_enable = lcdc7_shadow
      /\ rtl.regs = ppu.regs
  BY WriteTyped DEF NextShadow, StepInv, BeamInv, RefTypeOK
<1>3. BeamInv'
  <2>1. RefNext  BY DEF Dot, RefNext
  <2> QED BY <2>1, BeamStep DEF StepInv
<1>4. settled.lcd_enable = on  BY EnableFollowsShadow DEF StepInv
<1>5. /\ ppu'.regs = settled /\ ppu'.beam = beam
      /\ ppu'.line_high = stat_line(settled, beam)
      /\ ppu'.vblank_req = (/\ visible_mode(ppu.beam.run, ppu.beam.phase) # "VBlank"
                            /\ visible_mode(beam.run, beam.phase) = "VBlank")
  BY <1>1 DEF _step_dot_with_config
<1>6. /\ on # lcdc7_shadow => power = IF on THEN "on" ELSE "off"
      /\ on = lcdc7_shadow => power = "none"
  <2>1. write.enable \in BOOLEAN  BY WriteTyped
  <2> QED BY <1>2, <2>1 DEF ForceLcdPower, NextShadow
<1>7. stored = on /\ (requested = on)
  <2>1. written.lcd_enable = on
    BY <1>2 DEF apply_mmio_write, NextShadow
  <2>2. CASE on = lcdc7_shadow  BY <1>2, <1>6, <2>1, <2>2
  <2>3. CASE on # lcdc7_shadow  BY <1>2, <1>6, <2>3
  <2> QED BY <2>2, <2>3
<1>8. [written EXCEPT !.lcd_enable = stored] = settled
  <2>1. written = [lcd_enable |-> written.lcd_enable, sel |-> written.sel, lyc |-> written.lyc]
    BY DEF apply_mmio_write
  <2>2. settled = [lcd_enable |-> settled.lcd_enable, sel |-> written.sel, lyc |-> written.lyc]
    BY <1>2 DEF WrittenRegs, apply_mmio_write
  <2>3. [written EXCEPT !.lcd_enable = stored]
          = [lcd_enable |-> stored, sel |-> written.sel, lyc |-> written.lyc]
    <3> HIDE DEF written, stored
    <3> QED BY <2>1
  <2> QED BY <1>4, <1>7, <2>2, <2>3
<1>9. PICK fetched \in Fetched(rtl.beam) :
        /\ rtl'.regs = settled
        /\ rtl'.beam = IF rtl.regs.lcd_enable # requested THEN RestartedBeam(requested)
                       ELSE IF rtl.beam.run = "Disabled" THEN RestartedBeam(FALSE)
                       ELSE advance_timing(rtl.beam, fetched)
        /\ rtl'.vblank_req = entered_vblank(rtl, rtl'.beam)
        /\ rtl'.line_high =
             stat_line_level(rtl'.regs, rtl'.beam, next_lyc_match_flag(rtl, rtl'.regs, rtl'.beam))
  <2>1. PICK fetched \in Fetched(rtl.beam) : rtl' = step_dot(rtl, write, power, fetched)
    BY <1>1
  <2> HIDE DEF settled, power
  <2> QED BY <1>8, <2>1 DEF step_dot
<1>10. ASSUME on = lcdc7_shadow, on
       PROVE  ppu'.beam = _advance_timing(ppu.beam) /\ rtl'.beam = advance_timing(rtl.beam, fetched)
  <2>1. ppu.beam.run # "Disabled" /\ rtl.beam.run # "Disabled"
    BY <1>2, <1>10 DEF StepInv, BeamInv, PhaseMatchesBeam
  <2>2. power = "none"  BY <1>6, <1>10
  <2>3. ~ SwitchedOff(ppu, settled, power) /\ ~ SwitchedOn(ppu, settled, power)
    BY <1>4, <1>10, <2>1, <2>2 DEF SwitchedOff, SwitchedOn
  <2>4. beam = _advance_timing(ppu.beam)  BY <2>3 DEF NextBeam
  <2>5. rtl.regs.lcd_enable = requested  BY <1>2, <1>7, <1>10
  <2> QED BY <1>5, <1>9, <2>1, <2>4, <2>5
<1>11. ASSUME on, ~ lcdc7_shadow PROVE ppu'.beam.ly = 0 /\ ppu'.beam.dot = 1
  <2> DEFINE start == [NoBeam EXCEPT !.run = "WarmupBlankFrame", !.phase = "LcdOff"]
  <2>1. ppu.beam = NoBeam /\ NoBeam.run = "Disabled"
    BY <1>11 DEF StepInv, BeamInv, PhaseMatchesBeam, NoBeam
  <2>2. ~ SwitchedOff(ppu, settled, power) /\ SwitchedOn(ppu, settled, power)
    <3>1. power = "on"  BY <1>2, <1>6, <1>11
    <3> QED BY <3>1, <1>4, <1>11, <2>1 DEF SwitchedOff, SwitchedOn
  <2>3. beam = _advance_timing(start)  BY <2>1, <2>2 DEF NextBeam
  <2>4. start = [run |-> "WarmupBlankFrame", phase |-> "LcdOff", ly |-> 0, dot |-> 0]
    <3>1. start = [NoBeam EXCEPT !.run = "WarmupBlankFrame", !.phase = "LcdOff"]
      OBVIOUS
    <3> HIDE DEF start
    <3> QED BY <3>1 DEF NoBeam
  <2>5. _advance_timing(start).ly = 0 /\ _advance_timing(start).dot = NextDot(0)
    <3> HIDE DEF start
    <3> QED BY <2>4 DEF _advance_timing, NextLy
  <2>6. NextDot(0) = 1  BY LineAssumption DEF NextDot
  <2> QED BY <1>5, <2>3, <2>5, <2>6
<1>12. on # lcdc7_shadow => rtl'.beam = RestartedBeam(on)
  BY <1>2, <1>7, <1>9
<1>13. on = lcdc7_shadow /\ ~ on => rtl'.beam = RestartedBeam(FALSE)
  <2>1. ~ lcdc7_shadow => rtl.beam.run = "Disabled"  BY DEF StepInv, RestartedBeam
  <2> QED BY <1>2, <1>7, <1>9, <2>1
<1> HIDE DEF on, settled, beam, power, stored, requested, written
<1>14. rtl'.regs = ppu'.regs /\ ppu'.regs.lcd_enable = on
  BY <1>4, <1>5, <1>9
<1> QED
  BY <1>1, <1>2, <1>3, <1>5, <1>9, <1>10, <1>11, <1>12, <1>13, <1>14 DEF on

(* Phases of beams that are at one dot, but for the end of a transfer.       *)
LEMMA SamePlaceSamePhase ==
    ASSUME NEW b \in Beam, NEW c \in Beam, b.run = "Running", HardwarePhase(b),
           c.phase = PhaseAt(c.ly, c.dot), b.ly = c.ly, b.dot = c.dot
    PROVE  /\ Blanking(b.phase) = Blanking(c.phase)
           /\ b.phase = "VBlank" <=> c.phase = "VBlank"
           /\ b.phase = "OamScan" <=> c.phase = "OamScan"
  BY DEF HardwarePhase, WarmupLine0, PhaseAt, Blanking

(* Two beams that have both gone on by a dot are as far apart as before.     *)
LEMMA StillApart ==
    ASSUME NEW f \in Nat, NEW l \in Nat, l < f, NEW p \in 0 .. f - 1, NEW q \in 0 .. f - 1,
           p + l = q \/ p + l = q + f,
           NEW r, r = IF p = f - 1 THEN 0 ELSE p + 1,
           NEW s, s = IF q = f - 1 THEN 0 ELSE q + 1
    PROVE  r + l = s \/ r + l = s + f
  OBVIOUS

(* The lead after the first line.                                            *)
LEMMA LeadRange ==
    /\ LINE_LAST_DOT - WARMUP_LINE_LAST_DOT - 1 \in Nat
    /\ LINE_LAST_DOT - WARMUP_LINE_LAST_DOT - 1 < FrameLength
  BY FrameFacts, LineAssumption, WarmupAssumption DEF Dots

(* Both beams go on.                                                         *)
LEMMA ApartStep ==
    ASSUME StepInv, lcdc7_shadow, cycled' = cycled,
           NEW fetched \in Fetched(rtl.beam), rtl'.beam = advance_timing(rtl.beam, fetched),
           ppu'.beam = _advance_timing(ppu.beam)
    PROVE  /\ rtl'.beam \in Beam /\ rtl'.beam.run # "Disabled"
           /\ HardwarePhase(rtl'.beam) /\ BeamsApart'
<1>1. /\ rtl.beam \in Beam /\ rtl.beam.run # "Disabled" /\ HardwarePhase(rtl.beam)
      /\ BeamsApart /\ cycled \in BOOLEAN
      /\ ppu.beam \in Beam /\ ppu.beam.run # "Disabled"
      /\ ppu.beam.phase = PhaseAt(ppu.beam.ly, ppu.beam.dot)
  BY DEF StepInv, BeamInv, RefTypeOK, PhaseMatchesBeam, Beam
<1>2. /\ rtl'.beam \in Beam /\ rtl'.beam.run # "Disabled" /\ HardwarePhase(rtl'.beam)
      /\ rtl'.beam.run # rtl.beam.run => rtl'.beam.run = "Running"
      /\ ~ WarmupLine0(rtl.beam) =>
           /\ ~ WarmupLine0(rtl'.beam)
           /\ rtl'.beam.ly = LineAfter(rtl.beam.ly, rtl.beam.dot)
           /\ rtl'.beam.dot = NextDot(rtl.beam.dot)
      /\ WarmupLine0(rtl.beam) /\ rtl.beam.dot # WARMUP_LINE_LAST_DOT =>
           WarmupLine0(rtl'.beam) /\ rtl'.beam.dot = rtl.beam.dot + 1
      /\ WarmupLine0(rtl.beam) /\ rtl.beam.dot = WARMUP_LINE_LAST_DOT =>
           ~ WarmupLine0(rtl'.beam) /\ rtl'.beam.ly = 1 /\ rtl'.beam.dot = 0
  BY <1>1, HardwareMoves
<1>3. /\ ppu'.beam.ly = LineAfter(ppu.beam.ly, ppu.beam.dot)
      /\ ppu'.beam.dot = NextDot(ppu.beam.dot)
  BY <1>1, ReferenceMoves
<1>4. CASE cycled = FALSE
  <2>1. rtl.beam.run = "Running" /\ rtl.beam.ly = ppu.beam.ly /\ rtl.beam.dot = ppu.beam.dot
    BY <1>1, <1>4 DEF BeamsApart
  <2>2. ~ WarmupLine0(rtl.beam)  BY <2>1 DEF WarmupLine0
  <2>3. rtl'.beam.run = "Running"  BY <1>2, <2>1
  <2> QED BY <1>2, <1>3, <1>4, <2>1, <2>2, <2>3 DEF BeamsApart
<1>5. CASE cycled = TRUE /\ WarmupLine0(rtl.beam)
  <2>1. /\ ppu.beam.ly = 0 /\ ppu.beam.dot = rtl.beam.dot + 1
        /\ rtl.beam.dot \in 0 .. WARMUP_LINE_LAST_DOT
    BY <1>1, <1>5 DEF BeamsApart, HardwarePhase, Beam, Dots
  <2>2. CASE rtl.beam.dot # WARMUP_LINE_LAST_DOT
    <3>1. ppu.beam.dot # LINE_LAST_DOT
      BY <2>1, <2>2, LineAssumption, WarmupAssumption DEF Dots
    <3>2. ppu'.beam.ly = 0 /\ ppu'.beam.dot = rtl.beam.dot + 2
      BY <1>3, <2>1, <3>1 DEF LineAfter, NextDot
    <3> QED BY <1>2, <1>5, <2>1, <2>2, <3>2 DEF BeamsApart
  <2>3. CASE rtl.beam.dot = WARMUP_LINE_LAST_DOT
    <3>1. /\ WARMUP_LINE_LAST_DOT \in Nat /\ LINE_LAST_DOT \in Nat
          /\ WARMUP_LINE_LAST_DOT < LINE_LAST_DOT /\ next_line(0) = 1
      BY LineAssumption, WarmupAssumption DEF Dots, next_line
    <3>2. Position(rtl'.beam) = LineLength
      BY <1>2, <1>5, <2>3, FrameFacts DEF Position
    <3>3. Position(ppu'.beam) = WARMUP_LINE_LAST_DOT + 2
      <4>1. CASE WARMUP_LINE_LAST_DOT + 1 = LINE_LAST_DOT
        <5>1. ppu'.beam.ly = 1 /\ ppu'.beam.dot = 0
          BY <1>3, <2>1, <2>3, <3>1, <4>1 DEF LineAfter, NextDot
        <5> QED BY <3>1, <4>1, <5>1, FrameFacts DEF Position
      <4>2. CASE WARMUP_LINE_LAST_DOT + 1 # LINE_LAST_DOT
        <5>1. ppu'.beam.ly = 0 /\ ppu'.beam.dot = WARMUP_LINE_LAST_DOT + 2
          BY <1>3, <2>1, <2>3, <3>1, <4>2 DEF LineAfter, NextDot
        <5> QED BY <3>1, <5>1, FrameFacts DEF Position
      <4> QED BY <4>1, <4>2
    <3>4. Lead' = LINE_LAST_DOT - WARMUP_LINE_LAST_DOT - 1
      BY <1>2, <1>5, <2>3 DEF Lead
    <3>5. Position(ppu'.beam) + Lead' = Position(rtl'.beam)
      BY <3>1, <3>2, <3>3, <3>4, FrameFacts
    <3> QED BY <1>2, <1>5, <2>3, <3>5 DEF BeamsApart
  <2> QED BY <1>2, <2>2, <2>3
<1>6. CASE cycled = TRUE /\ ~ WarmupLine0(rtl.beam)
  <2>1. PICK l \in Nat, f \in Nat :
           /\ l = LINE_LAST_DOT - WARMUP_LINE_LAST_DOT - 1 /\ f = FrameLength /\ l < f
    BY LeadRange, FrameFacts
  <2>2. Lead = l /\ Lead' = l
    BY <1>2, <1>6, <2>1 DEF Lead
  <2>3. /\ Position(ppu.beam) \in 0 .. f - 1
        /\ Position(ppu'.beam) = IF Position(ppu.beam) = f - 1 THEN 0 ELSE Position(ppu.beam) + 1
    BY <1>1, <1>3, <2>1, PositionStep DEF Position, Beam
  <2>4. /\ Position(rtl.beam) \in 0 .. f - 1
        /\ Position(rtl'.beam) = IF Position(rtl.beam) = f - 1 THEN 0 ELSE Position(rtl.beam) + 1
    BY <1>1, <1>2, <1>6, <2>1, PositionStep DEF Position, Beam
  <2>5. \/ Position(ppu.beam) + l = Position(rtl.beam)
        \/ Position(ppu.beam) + l = Position(rtl.beam) + f
    BY <1>1, <1>6, <2>1, <2>2 DEF BeamsApart
  <2>6. \/ Position(ppu'.beam) + l = Position(rtl'.beam)
        \/ Position(ppu'.beam) + l = Position(rtl'.beam) + f
    BY <2>1, <2>3, <2>4, <2>5, StillApart
  <2> QED BY <1>2, <1>6, <2>1, <2>2, <2>6 DEF BeamsApart
<1> QED BY <1>1, <1>4, <1>5, <1>6

(* The requests of both models are the same until the panel is switched off, *)
(* but for those of HBlank.                                                  *)
LEMMA RequestsStep ==
    ASSUME StepInv, NEW write \in Writes, Dot(write), lcdc7_shadow, lcdc7_shadow',
           cycled = FALSE, cycled' = FALSE, BeamsApart', rtl'.beam \in Beam,
           HardwarePhase(rtl'.beam)
    PROVE  /\ rtl'.vblank_req = ppu'.vblank_req
           /\ "mode0" \notin rtl'.regs.sel => rtl'.line_high = ppu'.line_high
<1> DEFINE b == rtl'.beam
           c == ppu'.beam
           match == next_lyc_match_flag(rtl, rtl'.regs, b)
<1>1. /\ rtl'.regs = ppu'.regs /\ ppu'.regs.lcd_enable /\ BeamInv'
      /\ rtl'.vblank_req = entered_vblank(rtl, b)
      /\ ppu'.vblank_req = (/\ visible_mode(ppu.beam.run, ppu.beam.phase) # "VBlank"
                            /\ visible_mode(c.run, c.phase) = "VBlank")
      /\ rtl'.line_high = stat_line_level(rtl'.regs, b, match)
      /\ ppu'.line_high = stat_line(ppu'.regs, c)
  BY ModelsStep
<1>2. /\ rtl.beam.run = "Running" /\ ppu.beam.run # "Disabled"
      /\ rtl.beam.phase = "VBlank" <=> ppu.beam.phase = "VBlank"
  BY SamePlaceSamePhase DEF StepInv, BeamInv, BeamsApart, RefTypeOK, PhaseMatchesBeam, Beam
<1>3. /\ b.run = "Running" /\ c.run # "Disabled" /\ b.ly = c.ly /\ b.dot = c.dot
      /\ c \in Beam /\ c.phase = PhaseAt(c.ly, c.dot)
  BY <1>1 DEF BeamInv, BeamsApart, RefTypeOK, PhaseMatchesBeam, Beam
<1> HIDE DEF b, c
<1>4. /\ Blanking(b.phase) = Blanking(c.phase)
      /\ b.phase = "VBlank" <=> c.phase = "VBlank"
      /\ b.phase = "OamScan" <=> c.phase = "OamScan"
  BY <1>3, SamePlaceSamePhase DEF b
<1>5. rtl'.vblank_req = ppu'.vblank_req
  <2>1. entered_vblank(rtl, b) = (/\ visible_mode(ppu.beam.run, ppu.beam.phase) # "VBlank"
                                  /\ visible_mode(c.run, c.phase) = "VBlank")
    BY <1>2, <1>3, <1>4 DEF entered_vblank, visible_mode
  <2> QED BY <1>1, <2>1
<1>6. ASSUME "mode0" \notin rtl'.regs.sel PROVE rtl'.line_high = ppu'.line_high
  <2>1. match <=> b.ly = rtl'.regs.lyc
    BY <1>3 DEF next_lyc_match_flag
  <2> HIDE DEF match
  <2>2. mode_source_enabled(rtl'.regs.sel, b.phase) <=> mode_source_enabled(rtl'.regs.sel, c.phase)
    BY <1>4, <1>6 DEF mode_source_enabled
  <2>3. stat_line_level(rtl'.regs, b, match) = stat_line(rtl'.regs, c)
    BY <1>3, <2>1, <2>2 DEF stat_line_level, stat_line, visible_mode
  <2> QED BY <1>1, <2>3 DEF match
<1> QED BY <1>5, <1>6

(* The boot ROM leaves both beams at the start of the frame.                 *)
LEMMA StepInit == PpuModelsInit => StepInv
<1> SUFFICES ASSUME PpuModelsInit PROVE StepInv
  OBVIOUS
<1>1. /\ BeamInv /\ lcdc7_shadow = TRUE /\ cycled = FALSE /\ ppu = _base_reset_state
      /\ rtl = dmg_skipboot_state
  BY BeamInit DEF PpuModelsInit, RefInit
<1>2. /\ rtl.beam = [run |-> "Running", phase |-> "OamScan", ly |-> 0, dot |-> 0]
      /\ ppu.beam = rtl.beam /\ rtl.regs = ppu.regs
      /\ rtl.vblank_req = ppu.vblank_req /\ rtl.line_high = ppu.line_high
  BY <1>1 DEF _base_reset_state, dmg_skipboot_state
<1>3. rtl.beam \in Beam /\ HardwarePhase(rtl.beam)
  BY <1>2, LineAssumption DEF Beam, Runs, Phases, Lines, Dots, HardwarePhase, WarmupLine0
<1>4. BeamsApart  BY <1>1, <1>2 DEF BeamsApart
<1>5. rtl.beam.run # "Disabled"  BY <1>2
<1>6. cycled \in BOOLEAN /\ ~ cycled /\ lcdc7_shadow  BY <1>1
<1>7. BeamInv  BY <1>1
<1> QED BY <1>2, <1>3, <1>4, <1>5, <1>6, <1>7 DEF StepInv

(* Every dot keeps both models in step, whatever is written in it.           *)
LEMMA KeepStep == StepInv /\ [PpuModelsNext]_ppuModelVars => StepInv'
<1> SUFFICES ASSUME StepInv, [PpuModelsNext]_ppuModelVars PROVE StepInv'
  OBVIOUS
<1>1. CASE UNCHANGED ppuModelVars
  <2>1. BeamInv'
    BY <1>1 DEF ppuModelVars, StepInv, BeamInv, RefTypeOK, PhaseMatchesBeam
  <2>2. HardwarePhase(rtl'.beam) <=> HardwarePhase(rtl.beam)
    BY <1>1 DEF ppuModelVars
  <2>3. BeamsApart' <=> BeamsApart
    BY <1>1 DEF ppuModelVars, BeamsApart, Position, Lead
  <2> QED BY <1>1, <2>1, <2>2, <2>3 DEF ppuModelVars, StepInv
<1>2. ASSUME NEW write \in Writes, Dot(write)
      PROVE  StepInv'
  <2> DEFINE on == NextShadow(write, lcdc7_shadow)
  <2>1. /\ lcdc7_shadow' = on /\ on \in BOOLEAN /\ lcdc7_shadow \in BOOLEAN
        /\ rtl'.regs = ppu'.regs /\ ppu'.regs.lcd_enable = on
        /\ BeamInv'
        /\ on # lcdc7_shadow => rtl'.beam = RestartedBeam(on)
        /\ on = lcdc7_shadow /\ ~ on => rtl'.beam = RestartedBeam(FALSE)
        /\ on = lcdc7_shadow /\ on =>
             /\ \E fetched \in Fetched(rtl.beam) :
                   rtl'.beam = advance_timing(rtl.beam, fetched)
             /\ ppu'.beam = _advance_timing(ppu.beam)
        /\ on /\ ~ lcdc7_shadow => ppu'.beam.ly = 0 /\ ppu'.beam.dot = 1
    BY <1>2, ModelsStep
  <2> HIDE DEF on
  <2>2. cycled' = (cycled \/ ~ on) /\ cycled \in BOOLEAN
    BY <1>2, <2>1 DEF Dot, StepInv
  <2>3. 0 \in Lines /\ 0 \in Dots
    BY LineAssumption DEF Lines, Dots
  <2>4. CASE on = FALSE
    <3>1. cycled' = TRUE /\ rtl'.beam = RestartedBeam(FALSE)
      BY <2>1, <2>2, <2>4
    <3>2. rtl'.beam \in Beam
      BY <2>3, <3>1 DEF RestartedBeam, Beam, Runs, Phases
    <3> QED BY <2>1, <2>4, <3>1, <3>2 DEF StepInv
  <2>5. CASE on = TRUE /\ lcdc7_shadow = FALSE
    <3>1. cycled' = TRUE  BY <2>2, <2>5 DEF StepInv
    <3>2. rtl'.beam = [run |-> "WarmupBlankFrame", phase |-> "LcdOff", ly |-> 0, dot |-> 0]
      BY <2>1, <2>5 DEF RestartedBeam
    <3>3. WarmupLine0(rtl'.beam) /\ rtl'.beam.run # "Disabled" /\ rtl'.beam \in Beam
      BY <2>3, <3>2 DEF WarmupLine0, Beam, Runs, Phases
    <3>4. HardwarePhase(rtl'.beam)
      BY <3>2, <3>3, WarmupAssumption, LineAssumption DEF HardwarePhase, Dots
    <3>5. BeamsApart'
      BY <2>1, <2>5, <3>1, <3>2, <3>3 DEF BeamsApart
    <3> QED BY <2>1, <2>5, <3>1, <3>3, <3>4, <3>5 DEF StepInv
  <2>6. CASE on = TRUE /\ lcdc7_shadow = TRUE
    <3>1. cycled' = cycled  BY <2>2, <2>6
    <3>2. /\ rtl'.beam \in Beam /\ rtl'.beam.run # "Disabled"
          /\ HardwarePhase(rtl'.beam) /\ BeamsApart'
      BY <2>1, <2>6, <3>1, ApartStep
    <3>3. ~ cycled' => /\ rtl'.vblank_req = ppu'.vblank_req
                       /\ "mode0" \notin rtl'.regs.sel => rtl'.line_high = ppu'.line_high
      BY <1>2, <2>1, <2>2, <2>6, <3>1, <3>2, RequestsStep
    <3> QED BY <2>1, <2>2, <2>6, <3>1, <3>2, <3>3 DEF StepInv
  <2> QED BY <2>1, <2>4, <2>5, <2>6
<1> QED BY <1>1, <1>2 DEF PpuModelsNext

(* What the invariant says of the positions.                                 *)
LEMMA ApartIsStep ==
    ASSUME StepInv, lcdc7_shadow
    PROVE  (Position(ppu.beam) + Lead - Position(rtl.beam)) % FrameLength = 0
<1>1. /\ BeamsApart /\ rtl.beam \in Beam /\ ppu.beam \in Beam /\ cycled \in BOOLEAN
  BY DEF StepInv, BeamInv, RefTypeOK, Beam
<1>2. PICK f \in Nat, p \in Nat, q \in Nat :
        f = FrameLength /\ p = Position(ppu.beam) /\ q = Position(rtl.beam) /\ f >= 1
  <2>1. Position(ppu.beam) \in 0 .. FrameLength - 1 /\ Position(rtl.beam) \in 0 .. FrameLength - 1
    BY <1>1, PositionStep DEF Position, Beam
  <2> QED BY <2>1, FrameFacts
<1>3. Lead \in Int /\ (p + Lead - q = 0 \/ p + Lead - q = f)
  <2>1. CASE cycled = FALSE
    BY <1>1, <1>2, <2>1 DEF BeamsApart, Lead, Position
  <2>2. CASE cycled = TRUE /\ WarmupLine0(rtl.beam)
    <3>1. rtl.beam.ly = 0 /\ ppu.beam.ly = 0 /\ ppu.beam.dot = rtl.beam.dot + 1 /\ Lead = -1
      BY <1>1, <2>2 DEF BeamsApart, Lead, WarmupLine0
    <3>2. rtl.beam.dot \in Nat  BY <1>1, LineAssumption DEF Beam, Dots
    <3>3. p = rtl.beam.dot + 1 /\ q = rtl.beam.dot
      BY <1>2, <3>1, <3>2, FrameFacts DEF Position
    <3> QED BY <3>1, <3>2, <3>3
  <2>3. CASE cycled = TRUE /\ ~ WarmupLine0(rtl.beam)
    <3>1. Lead \in Nat  BY <2>3, LeadRange DEF Lead
    <3>2. p + Lead = q \/ p + Lead = q + f  BY <1>1, <1>2, <2>3 DEF BeamsApart
    <3> QED BY <3>1, <3>2
  <2> QED BY <1>1, <2>1, <2>2, <2>3
<1>4. 0 % f = 0 /\ f % f = 0  BY <1>2
<1> QED BY <1>2, <1>3, <1>4

(* The invariant implies the property.                                       *)
LEMMA StepIsKept == StepInv => BeamsKeepStep
<1> SUFFICES ASSUME StepInv PROVE BeamsKeepStep
  OBVIOUS
<1>1. lcdc7_shadow \in BOOLEAN /\ rtl.regs = ppu.regs
  BY DEF StepInv, BeamInv, RefTypeOK
<1>2. /\ lcdc7_shadow = (rtl.beam.run # "Disabled")
      /\ lcdc7_shadow = (ppu.beam.run # "Disabled")
  BY <1>1 DEF StepInv, BeamInv, PhaseMatchesBeam, RestartedBeam, NoBeam
<1>3. ~ cycled => Blanking(rtl.beam.phase) = Blanking(ppu.beam.phase)
  <2> SUFFICES ASSUME ~ cycled PROVE Blanking(rtl.beam.phase) = Blanking(ppu.beam.phase)
    OBVIOUS
  <2>1. lcdc7_shadow  BY DEF StepInv
  <2>2. /\ rtl.beam \in Beam /\ ppu.beam \in Beam /\ rtl.beam.run = "Running"
        /\ HardwarePhase(rtl.beam) /\ ppu.beam.phase = PhaseAt(ppu.beam.ly, ppu.beam.dot)
        /\ rtl.beam.ly = ppu.beam.ly /\ rtl.beam.dot = ppu.beam.dot
    BY <2>1 DEF StepInv, BeamInv, BeamsApart, RefTypeOK, PhaseMatchesBeam, Beam
  <2> QED BY <2>2, SamePlaceSamePhase
<1> QED BY <1>1, <1>2, <1>3, ApartIsStep DEF BeamsKeepStep, StepInv

(* Hardware and reference have the panel on together and their beams stay    *)
(* the fixed number of dots apart, whatever is written in any dot, for every *)
(* length of lines and frames and wherever the fetcher ends (BeamsKeepStep). *)
THEOREM InStepTheorem == PpuModelsSpec => []BeamsKeepStep
<1> QED BY StepInit, KeepStep, StepIsKept, PTL DEF PpuModelsSpec

-----------------------------------------------------------------------------
(* The pixel pipeline.  The inductive invariant PixelInv below says, dot by  *)
(* dot, which column the queue of colours begins at and which tile the       *)
(* fetcher is at, whether the window waits or has begun, which objects have  *)
(* been found and fetched, and that each slot of the object queue holds the  *)
(* topmost object pixel of its column among those fetched.                   *)

(* A line as the reference sees it, with the registers it starts with: a     *)
(* palette changed while it is drawn leaves all of this alone.               *)
Scanline == build_scanline(ly, LineRegs(ly), scene.oam, counted)

Fetchers ==
    [source : {"Background", "Window", "Object"},
     step : {"GetTile", "GetLo", "GetHi", "Sleep", "Push"}, step_phase : BOOLEAN,
     pending : BOOLEAN, tile_id : Bytes, tile_lo : Bytes, tile_hi : Bytes,
     map_x : 0 .. 31, map_y : 0 .. 31, row : 0 .. 7, pending_push : BOOLEAN]
ObjPixels ==
    [color : 0 .. 3, palette : 0 .. 1, x : Bytes, rank : Nat, bg_over_obj : BOOLEAN]
TicketSet == [oam_index : 0 .. OAM_ENTRIES - 1, x : Bytes, y : Bytes, rank : Nat]
ScanRows == Bytes \cup {-1}
Renders ==
    [dot : Nat, x_out : 0 .. SCREEN_WIDTH, discard : 0 .. 7, stall_dots : 0 .. 6,
     window : {"Inactive", "Armed", "Active"}, window_line : Bytes,
     scan : 0 .. OAM_ENTRIES, pending_y : ScanRows, line_objs : Seq(TicketSet),
     fetched : SUBSET Nat, ticket : TicketSet, obj_flags : Bytes,
     fetcher : Fetchers, bg_fetcher_resume : Fetchers, bg_fifo : Seq(0 .. 3),
     obj_fifo : [count : 0 .. 16, pixels : [0 .. 15 -> ObjPixels]]]
Replies == [to : {"None", "OamScanner", "BgFetcher", "ObjFetcher"}, data : Bytes]

(***************************** the tile layers *****************************)

Windowed(s) == s.regs.win_enable /\ s.wy_triggered

\* The layer the queue of colours holds, and its column at the queue's head.
Layer(r) == IF r.window = "Active" THEN "Window" ELSE "Background"
HeadColumn(s, r) ==
    IF r.window = "Active" THEN r.x_out - (s.regs.wx - 7)
    ELSE r.x_out + (s.regs.scx % 8) - r.discard

MapColumn(s, layer, tile) ==
    IF layer = "Window" THEN tile % 32 ELSE (s.regs.scx \div 8 + tile) % 32
LayerLine(s, layer) ==
    IF layer = "Window" THEN s.window_line_counter % 256 ELSE Low8(s.regs.scy + s.ly)
MapHi(s, layer) == IF layer = "Window" THEN s.regs.win_map_hi ELSE s.regs.bg_map_hi

\* What the map and the tile memory hold at a position of a layer.
TileNumber(s, layer, map_x, map_y) == VramByte(_map_base(MapHi(s, layer)) + 32 * map_y + map_x)
TileAddress(s, layer, map_x, map_y, row) ==
    bgwin_tile_addr(s.regs, TileNumber(s, layer, map_x, map_y), row)
Colour(s, layer, column) ==
    _tile_row_from_addr(
        TileAddress(s, layer, MapColumn(s, layer, column \div 8), LayerLine(s, layer) \div 8,
                    LayerLine(s, layer) % 8))[column % 8]

FetchAddress(s, f) == TileAddress(s, f.source, f.map_x, f.map_y, f.row)
Wanted(s, f) ==
    CASE f.step = "GetTile" -> TileNumber(s, f.source, f.map_x, f.map_y)
      [] f.step = "GetLo" -> VramByte(FetchAddress(s, f))
      [] OTHER -> VramByte(FetchAddress(s, f) + 1)

\* The fetcher is at that tile of its layer and has read what its step says.
Fetching(s, f, tile) ==
    /\ f.source \in {"Background", "Window"}
    /\ f.map_x = MapColumn(s, f.source, tile)
    /\ f.map_y = LayerLine(s, f.source) \div 8 /\ f.row = LayerLine(s, f.source) % 8
    /\ f.step # "GetTile" => f.tile_id = TileNumber(s, f.source, f.map_x, f.map_y)
    /\ f.step \notin {"GetTile", "GetLo"} => f.tile_lo = VramByte(FetchAddress(s, f))
    /\ f.step \in {"Sleep", "Push"} => f.tile_hi = VramByte(FetchAddress(s, f) + 1)

Answering(s, f, rep) ==
    f.pending => /\ f.step \in {"GetTile", "GetLo", "GetHi"}
                 /\ rep.to = "BgFetcher" => rep.data = Wanted(s, f)

TileFetcher(r) == IF r.fetcher.source = "Object" THEN r.bg_fetcher_resume ELSE r.fetcher

\* The queue holds the colours of a layer from a column on, and the fetcher is
\* at the tile that comes next.
QueueHolds(s, layer, head, fifo, f) ==
    /\ f.source = layer /\ head \in Nat
    /\ \E tile \in Nat : head + Len(fifo) = 8 * tile /\ Fetching(s, f, tile)
    /\ \A i \in 1 .. Len(fifo) : fifo[i] = Colour(s, layer, head + i - 1)
QueueOK(s, r) == QueueHolds(s, Layer(r), HeadColumn(s, r), r.bg_fifo, TileFetcher(r))

\* The window waits for its column, and the fine scroll for the first pixel.
WindowOK(s, r) ==
    /\ (r.window = "Inactive") <=> ~ Windowed(s)
    /\ r.window = "Armed" => r.x_out + 7 <= s.regs.wx
    /\ r.window = "Active" => r.x_out + 7 >= s.regs.wx /\ r.discard = 0
    /\ r.window = "Armed" => r.window_line = s.window_line_counter % 256
    /\ r.discard <= s.regs.scx % 8 /\ (r.discard > 0 => r.x_out = 0)

(******************************* the objects *******************************)

Meets(s, i) == s.ly + 16 \in s.oam[i].y .. s.oam[i].y + obj_height(s.regs) - 1
MeetBefore(s, n) == {j \in 0 .. n - 1 : Meets(s, j)}
RankOf(s, i) == Cardinality(MeetBefore(s, i))
Chosen(s, n) == {i \in 0 .. n - 1 : Meets(s, i) /\ RankOf(s, i) < MAX_LINE_OBJS}
TicketOf(s, i) ==
    [oam_index |-> i, x |-> s.oam[i].x, y |-> s.oam[i].y, rank |-> RankOf(s, i)]
Tickets(r) == {r.line_objs[i] : i \in DOMAIN r.line_objs}

\* The objects found so far: the first of the table that meet the line.
ScannedOK(s, r) ==
    IF s.regs.obj_enable
    THEN /\ Len(r.line_objs) =
                IF RankOf(s, r.scan) < MAX_LINE_OBJS THEN RankOf(s, r.scan) ELSE MAX_LINE_OBJS
         /\ Tickets(r) = {TicketOf(s, i) : i \in Chosen(s, r.scan)}
    ELSE r.line_objs = <<>>

LineObjs(s) == IF s.regs.obj_enable THEN Chosen(s, OAM_ENTRIES) ELSE {}

\* An object is fetched where it begins, and none is passed by.
FetchedOK(s, r) ==
    /\ Tickets(r) = {TicketOf(s, i) : i \in LineObjs(s)}
    /\ \A i \in LineObjs(s) :
          /\ s.oam[i].x - 8 < r.x_out => RankOf(s, i) \in r.fetched
          /\ RankOf(s, i) \in r.fetched => s.oam[i].x - 8 <= r.x_out

\* The objects read that show at a column, and which of two is on top.
ShownAt(s, r, x) == {i \in LineObjs(s) : RankOf(s, i) \in r.fetched /\ ObjColor(x, s, i) # 0}
OnTop(s, i, j) == s.oam[i].x < s.oam[j].x \/ (s.oam[i].x = s.oam[j].x /\ i <= j)
PixelOf(s, i, x) ==
    [color |-> ObjColor(x, s, i), palette |-> CarryOf(BitOf(s.oam[i].flags, 4)),
     bg_over_obj |-> BitOf(s.oam[i].flags, 7), x |-> s.oam[i].x, rank |-> RankOf(s, i)]
SlotOK(s, r, slot) ==
    LET x == r.x_out + slot
        pixel == r.obj_fifo.pixels[slot]
    IN IF ShownAt(s, r, x) = {} THEN pixel.color = 0
       ELSE \E i \in ShownAt(s, r, x) :
               /\ \A j \in ShownAt(s, r, x) : OnTop(s, i, j)
               /\ pixel = PixelOf(s, i, x)
SlotsOK(s, r) ==
    /\ \A slot \in 0 .. 15 : SlotOK(s, r, slot)
    /\ \A slot \in 0 .. 15 : slot >= r.obj_fifo.count => r.obj_fifo.pixels[slot].color = 0

\* The object being fetched, and what of it has been read.
ObjRow(s, i) == s.ly + 16 - s.oam[i].y
ObjAddress(s, i) ==
    obj_tile_addr(s.regs, s.oam[i].tile, ObjRow(s, i), BitOf(s.oam[i].flags, 6))
ObjWanted(s, i, step) ==
    CASE step = "GetTile" -> s.oam[i].tile
      [] step = "GetLo" -> s.oam[i].flags
      [] step = "GetHi" -> VramByte(ObjAddress(s, i))
      [] OTHER -> VramByte(ObjAddress(s, i) + 1)
ObjFetching(s, r, rep, i) ==
    LET f == r.fetcher
    IN /\ r.ticket = TicketOf(s, i) /\ RankOf(s, i) \notin r.fetched /\ s.oam[i].x - 8 = r.x_out
       /\ f.step # "GetTile" => f.tile_id = s.oam[i].tile
       /\ f.step \notin {"GetTile", "GetLo"} => r.obj_flags = s.oam[i].flags
       /\ f.step \in {"Sleep", "Push"} => f.tile_lo = VramByte(ObjAddress(s, i))
       /\ f.step = "Push" => f.tile_hi = VramByte(ObjAddress(s, i) + 1)
       /\ f.pending => f.step # "Push" /\ rep.data = ObjWanted(s, i, f.step)

\* What is being drawn, against the line as the reference sees it.
DrawingOK(s, r, rep) ==
    /\ r \in Renders /\ rep \in Replies
    /\ QueueOK(s, r) /\ WindowOK(s, r) /\ FetchedOK(s, r) /\ SlotsOK(s, r)
    /\ IF r.fetcher.source = "Object"
       THEN /\ \E i \in LineObjs(s) : ObjFetching(s, r, rep, i)
            /\ Answering(s, r.bg_fetcher_resume, NoReply)
       ELSE Answering(s, r.fetcher, rep)

(******************************** the line *********************************)

\* Nothing of the line is drawn before the scan has ended.
ScanHeld(s, r) ==
    /\ r \in Renders /\ ScannedOK(s, r)
    /\ r.x_out = 0 /\ r.discard = 0 /\ r.stall_dots = 0 /\ r.fetched = {}
    /\ r.fetcher = initial_fetcher_state /\ r.bg_fifo = <<>> /\ r.obj_fifo = empty_obj_fifo
    /\ r.window = IF Windowed(s) THEN "Armed" ELSE "Inactive"
    /\ obj_profile_enabled =>
          /\ r.dot = 2 * r.scan + (IF r.pending_y < 0 THEN 0 ELSE 1)
          /\ r.pending_y >= 0 => r.pending_y = s.oam[r.scan].y
ScanningOK(s, r, rep) ==
    /\ ScanHeld(s, r) /\ r.dot < 2 * OAM_ENTRIES /\ rep = live_oam_scan_req(r)

LineTypeOK ==
    /\ scene \in Scenes /\ regs \in PpuRegisters /\ ly \in 0 .. SCREEN_HEIGHT - 1
    /\ stage \in {"OamScan", "Transfer", "HBlank"} /\ counted \in Nat
    /\ sampled \in [scx_low3_line : 0 .. 7, wy_triggered : BOOLEAN, window_enable : BOOLEAN]

\* The registers move away from those of the line in the palettes only, and
\* what was sampled of them is still so.
RegsInv ==
    /\ OnlyPalettes(regs, LineRegs(ly)) /\ (stage = "OamScan" => regs = LineRegs(ly))
    /\ sampled.wy_triggered <=> ly >= LineRegs(0).wy
    /\ sampled.scx_low3_line = LineRegs(ly).scx % 8

\* The pipeline counts the line for the window when the window begins on it,
\* the reference when the line is over.
WindowLineInv ==
    render.window_line =
        (counted + CarryOf(IF stage = "HBlank" THEN Windowed(Scanline)
                           ELSE render.window = "Active")) % 256

\* A line that rests for an object or for the window waits for no answer.
Resting(r) == obj_profile_enabled /\ r.stall_dots > 0 => ~ r.fetcher.pending

LineInv ==
    /\ diffs = <<>> /\ RegsInv /\ WindowLineInv
    /\ stage = "OamScan" => ScanningOK(Scanline, render, reply)
    /\ stage = "Transfer" => DrawingOK(Scanline, render, reply) /\ Resting(render)

PixelInv == LineTypeOK /\ (OrdinaryScene => LineInv)
(************************** bytes and addresses ****************************)
LEMMA ColourRange ==
    ASSUME NEW lo, NEW hi, NEW col \in 0 .. 7
    PROVE  decode_tile_row(lo, hi)[col] \in 0 .. 3
<1>1. CarryOf(BitOf(hi, 7 - col)) \in 0 .. 1 /\ CarryOf(BitOf(lo, 7 - col)) \in 0 .. 1
  BY DEF CarryOf
<1>2. decode_tile_row(lo, hi)[col] = 2 * CarryOf(BitOf(hi, 7 - col)) + CarryOf(BitOf(lo, 7 - col))
  BY DEF decode_tile_row
<1> QED
  BY <1>1, <1>2

\* The spatial assumption, without its range: tile memory holds bytes.
LEMMA VideoBytes ==
    ASSUME NEW addr \in Int, addr >= 32768, addr <= 40959
    PROVE  VramByte(addr) \in Bytes
<1>1. VRAM_FIRST \in Int /\ VRAM_LAST \in Int /\ VRAM_FIRST <= addr /\ addr <= VRAM_LAST
  BY DEF VRAM_FIRST, VRAM_LAST
<1>2. addr \in VRAM_FIRST .. VRAM_LAST
  BY <1>1
<1> QED
  BY <1>2, SpatialAssumption

\* Every entry of a tile map is within tile memory.
LEMMA MapBytes ==
    ASSUME NEW high, NEW map_x \in 0 .. 31, NEW map_y \in 0 .. 31
    PROVE  VramByte(_map_base(high) + 32 * map_y + map_x) \in Bytes
<1>1. _map_base(high) \in {39936, 38912}
  BY DEF _map_base
<1>2. PICK addr \in Int : addr = _map_base(high) + 32 * map_y + map_x
  BY <1>1
<1>3. addr >= 32768 /\ addr <= 40959
  BY <1>1, <1>2
<1>4. VramByte(addr) \in Bytes
  BY <1>3, VideoBytes
<1> QED
  BY <1>2, <1>4, Zenon

(* Both bytes of every row of a tile are within tile memory, in either of the *)
(* ways tiles are numbered.                                                   *)
LEMMA TileBytes ==
    ASSUME NEW rg, NEW tile_id \in Bytes, NEW row \in 0 .. 7
    PROVE  /\ VramByte(bgwin_tile_addr(rg, tile_id, row)) \in Bytes
           /\ VramByte(bgwin_tile_addr(rg, tile_id, row) + 1) \in Bytes
<1> DEFINE half == CASE tile_id >= 128 -> 34816 [] tile_id < 128 /\ rg.bgwin_data_hi -> 32768 [] OTHER -> 36864
           addr == bgwin_tile_addr(rg, tile_id, row)
<1>1. half \in {34816, 32768, 36864}
  BY DEF Bytes
<1>2. addr = 2 * (row % 8) + 16 * (tile_id % 128) + half
  BY DEF bgwin_tile_addr
<1>3. row % 8 \in 0 .. 7 /\ tile_id % 128 \in 0 .. 127
  BY DEF Bytes
<1> HIDE DEF half, addr
<1>4. addr \in Int /\ addr >= 32768 /\ addr + 1 <= 40959
  BY <1>1, <1>2, <1>3
<1>5. VramByte(addr) \in Bytes /\ VramByte(addr + 1) \in Bytes
  BY <1>4, VideoBytes
<1> QED
  BY <1>5 DEF addr

(* So are both bytes of every row of an object, flipped or not, one tile high *)
(* or two.                                                                    *)
LEMMA ObjBytes ==
    ASSUME NEW rg, NEW tile \in Bytes, NEW row \in 0 .. 15, row < obj_height(rg), NEW y_flip
    PROVE  /\ VramByte(obj_tile_addr(rg, tile, row, y_flip)) \in Bytes
           /\ VramByte(obj_tile_addr(rg, tile, row, y_flip) + 1) \in Bytes
<1> DEFINE effective == IF y_flip THEN obj_height(rg) - 1 - row ELSE row
           base == IF rg.obj_size_8x16 THEN 2 * (tile \div 2) ELSE tile
           addr == obj_tile_addr(rg, tile, row, y_flip)
<1>1. effective \in 0 .. 15
  BY DEF obj_height
<1>2. base \in 0 .. 255
  BY DEF Bytes
<1>3. addr = 32768 + 16 * (base + effective \div 8) + 2 * (effective % 8)
  BY DEF obj_tile_addr
<1>4. effective \div 8 \in 0 .. 1 /\ effective % 8 \in 0 .. 7
  BY <1>1
<1>5. addr \in Int /\ addr >= 32768 /\ addr + 1 <= 40959
  <2> HIDE DEF effective
  <2>1. PICK d \in 0 .. 1 : d = effective \div 8
    BY <1>4
  <2>2. PICK m \in 0 .. 7 : m = effective % 8
    BY <1>4
  <2> HIDE DEF addr
  <2>3. addr = 32768 + 16 * (base + d) + 2 * m
    BY <1>3, <2>1, <2>2
  <2> HIDE DEF base
  <2> QED
    BY <1>2, <2>3
<1>6. VramByte(addr) \in Bytes /\ VramByte(addr + 1) \in Bytes
  BY <1>5, VideoBytes
<1> QED
  BY <1>6 DEF addr

(*************************** the line's colours ****************************)
\* What a sample of the reference is made of.
LEMMA LayerColour ==
    ASSUME NEW source, NEW rg, NEW map_hi, NEW gx, NEW gy
    PROVE  LayerSample(source, rg, map_hi, gx, gy) =
             LET tile_id == VramByte(_map_base(map_hi) + 32 * ((gy \div 8) % 32) + ((gx \div 8) % 32))
                 color_idx == _tile_row_from_addr(bgwin_tile_addr(rg, tile_id, gy % 8))[gx % 8]
             IN [source |-> source, color_idx |-> color_idx,
                 shade |-> palette_lookup(color_idx, rg.bgp), tile_id |-> tile_id]
BY DEF LayerSample

(* The scrolled coordinate of the reference is the column the fetcher counts  *)
(* in tiles from the fine scroll on.                                          *)
LEMMA ScrollArithmetic ==
    ASSUME NEW scx \in Bytes, NEW x \in Nat, NEW column, column = x + (scx % 8)
    PROVE  /\ column \in Nat
           /\ (Low8(scx + x) \div 8) % 32 = (scx \div 8 + column \div 8) % 32
           /\ Low8(scx + x) % 8 = column % 8
<1>1. PICK q \in Nat, c \in 0 .. 7 : column = 8 * q + c
  <2>1. column \in Nat
    BY DEF Bytes
  <2> QED
    BY <2>1, column = 8 * (column \div 8) + (column % 8)
<1>2. PICK a \in 0 .. 31, b \in 0 .. 7 : scx = 8 * a + b
  <2>1. scx = 8 * (scx \div 8) + (scx % 8) /\ scx \div 8 \in 0 .. 31 /\ scx % 8 \in 0 .. 7
    BY DEF Bytes
  <2> QED
    BY <2>1
<1>3. scx % 8 = b /\ scx \div 8 = a
  BY <1>2
<1>4. scx + x = 8 * (a + q) + c
  BY <1>1, <1>2, <1>3
<1>5. PICK p \in Nat, d \in 0 .. 31 : a + q = 32 * p + d
  <2>1. a + q \in Nat
    BY <1>1, <1>2
  <2>2. a + q = 32 * ((a + q) \div 32) + ((a + q) % 32)
    BY <2>1
  <2> QED
    BY <2>1, <2>2
<1>6. scx + x = 256 * p + (8 * d + c) /\ 8 * d + c \in 0 .. 255
  BY <1>1, <1>4, <1>5
<1>7. Low8(scx + x) = 8 * d + c
  BY <1>6 DEF Low8
<1>8. (8 * d + c) \div 8 = d /\ (8 * d + c) % 8 = c /\ d % 32 = d
  BY <1>1, <1>5
<1>9. column \div 8 = q /\ column % 8 = c
  BY <1>1
<1>10. (a + q) % 32 = d
  <2>1. PICK n \in Nat : n = a + q
    BY <1>1, <1>2
  <2>2. n % 32 = d
    BY <1>5, <2>1
  <2> QED
    BY <2>1, <2>2
<1>11. (scx \div 8 + column \div 8) % 32 = d
  <2>1. scx \div 8 + column \div 8 = a + q
    BY <1>3, <1>9
  <2> QED
    BY <1>10, <2>1
<1>12. (Low8(scx + x) \div 8) % 32 = d /\ Low8(scx + x) % 8 = c
  BY <1>7, <1>8
<1> QED
  BY <1>1, <1>9, <1>11, <1>12

(* A coordinate that wraps at 256 wraps the tile at 32 and leaves the row     *)
(* within the tile.                                                           *)
LEMMA ByteArithmetic ==
    ASSUME NEW gy \in Nat
    PROVE  (gy % 256) \div 8 = (gy \div 8) % 32 /\ (gy % 256) % 8 = gy % 8
<1>1. PICK p \in Nat, m \in 0 .. 255 : gy = 256 * p + m
  <2>1. gy = 256 * (gy \div 256) + (gy % 256) /\ gy % 256 \in 0 .. 255 /\ gy \div 256 \in Nat
    OBVIOUS
  <2> QED
    BY <2>1
<1>6. PICK d \in 0 .. 31, c \in 0 .. 7 : m = 8 * d + c
  <2>1. m = 8 * (m \div 8) + (m % 8) /\ m \div 8 \in 0 .. 31 /\ m % 8 \in 0 .. 7
    OBVIOUS
  <2> QED
    BY <2>1
<1>2. gy % 256 = 8 * d + c
  BY <1>1, <1>6
<1>3. gy \div 8 = 32 * p + d /\ gy % 8 = c
  BY <1>1, <1>6
<1>4. (32 * p + d) % 32 = d
  OBVIOUS
<1>5. (8 * d + c) \div 8 = d /\ (8 * d + c) % 8 = c
  OBVIOUS
<1> QED
  BY <1>2, <1>3, <1>4, <1>5

(* The background the reference samples is the colour of the layer at that    *)
(* column, through the palette (_bg_sample).                                  *)
LEMMA BackgroundColour ==
    ASSUME NEW s, s.regs \in PpuRegisters, s.ly \in Nat, NEW x \in Nat
    PROVE  /\ bg_sample(x, s).color_idx = Colour(s, "Background", x + (s.regs.scx % 8))
           /\ bg_sample(x, s).shade = palette_lookup(bg_sample(x, s).color_idx, s.regs.bgp)
<1> DEFINE gx == Low8(s.regs.scx + x)
           gy == Low8(s.regs.scy + s.ly)
           column == x + (s.regs.scx % 8)
           id == VramByte(_map_base(s.regs.bg_map_hi) + 32 * ((gy \div 8) % 32) + ((gx \div 8) % 32))
           color == _tile_row_from_addr(bgwin_tile_addr(s.regs, id, gy % 8))[gx % 8]
<1>1. s.regs.scx \in Bytes /\ s.regs.scy \in Bytes
  BY DEF PpuRegisters
<1>2. (gx \div 8) % 32 = (s.regs.scx \div 8 + column \div 8) % 32 /\ gx % 8 = column % 8
  <2>1. PICK scx \in Bytes : scx = s.regs.scx
    BY <1>1
  <2>2. PICK c : c = x + (scx % 8)
    OBVIOUS
  <2>3. (Low8(scx + x) \div 8) % 32 = (scx \div 8 + c \div 8) % 32 /\ Low8(scx + x) % 8 = c % 8
    BY <2>2, ScrollArithmetic
  <2> QED
    BY <2>1, <2>2, <2>3, Zenon
<1>3. gy \in 0 .. 255
  <2>1. s.regs.scy + s.ly \in Nat
    BY <1>1 DEF Bytes
  <2>2. gy = (s.regs.scy + s.ly) % 256
    BY DEF Low8
  <2> HIDE DEF gy
  <2> QED
    BY <2>1, <2>2
<1>4. (gy \div 8) % 32 = gy \div 8
  BY <1>3
<1>5. bg_sample(x, s) = [source |-> "background", color_idx |-> color,
                         shade |-> palette_lookup(color, s.regs.bgp), tile_id |-> id]
  BY LayerColour DEF bg_sample
<1>6. id = TileNumber(s, "Background", MapColumn(s, "Background", column \div 8),
                      LayerLine(s, "Background") \div 8)
  <2> HIDE DEF column
  <2> QED
    BY <1>2, <1>4 DEF TileNumber, MapColumn, MapHi, LayerLine
<1>7. color = Colour(s, "Background", column)
  <2>1. LayerLine(s, "Background") = gy
    BY DEF LayerLine
  <2> HIDE DEF column, id, gx, gy
  <2> QED
    BY <1>2, <1>6, <2>1 DEF Colour, TileAddress
<1> HIDE DEF id, color
<1> QED
  BY <1>5, <1>7

(* So is the window it samples, from the column where the window begins       *)
(* (_window_sample).                                                          *)
LEMMA WindowColour ==
    ASSUME NEW s, s.regs \in PpuRegisters, s.window_line_counter \in Nat, Windowed(s),
           NEW x, x \in Nat, x >= s.regs.wx - 7
    PROVE  /\ window_sample(x, s) # None
           /\ window_sample(x, s).color_idx = Colour(s, "Window", x - (s.regs.wx - 7))
           /\ window_sample(x, s).shade = palette_lookup(window_sample(x, s).color_idx, s.regs.bgp)
<1> DEFINE gx == x - (s.regs.wx - 7)
           gy == s.window_line_counter
           id == VramByte(_map_base(s.regs.win_map_hi) + 32 * ((gy \div 8) % 32) + ((gx \div 8) % 32))
           color == _tile_row_from_addr(bgwin_tile_addr(s.regs, id, gy % 8))[gx % 8]
<1>1. s.regs.wx \in Bytes
  BY DEF PpuRegisters
<1>2. gx \in Nat
  BY <1>1 DEF Bytes
<1>3. window_sample(x, s) = [source |-> "window", color_idx |-> color,
                             shade |-> palette_lookup(color, s.regs.bgp), tile_id |-> id]
  BY LayerColour DEF window_sample, Windowed
<1>4. (gy % 256) \div 8 = (gy \div 8) % 32 /\ (gy % 256) % 8 = gy % 8
  BY ByteArithmetic
<1>5. id = TileNumber(s, "Window", MapColumn(s, "Window", gx \div 8), LayerLine(s, "Window") \div 8)
  BY <1>4 DEF TileNumber, MapColumn, MapHi, LayerLine
<1>6. color = Colour(s, "Window", gx)
  <2>1. LayerLine(s, "Window") % 8 = gy % 8
    BY <1>4 DEF LayerLine
  <2> HIDE DEF id, gx, gy
  <2> QED
    BY <1>5, <2>1 DEF Colour, TileAddress
<1> HIDE DEF id, color
<1>7. window_sample(x, s) # None
  BY <1>3 DEF None
<1> QED
  BY <1>3, <1>6, <1>7

(**************************** the line's registers ***************************)
\* The registers are typed, and palettes apart those the line started with.
Linked == LineTypeOK /\ OnlyPalettes(regs, LineRegs(ly))

(* The registers of a line have their type, and enable objects only in a      *)
(* profile that has them.                                                     *)
LEMMA LineRegsTyped ==
    ASSUME LineTypeOK, NEW y \in 0 .. SCREEN_HEIGHT - 1
    PROVE  /\ LineRegs(y) \in PpuRegisters
           /\ LineRegs(y).obj_enable => obj_profile_enabled
<1>1. scene.lines \in [1 .. SCREEN_HEIGHT -> PpuRegisters] /\ obj_profile_enabled \in BOOLEAN
  BY ScenesAssumption DEF LineTypeOK, obj_profile_enabled
<1>2. y + 1 \in 1 .. SCREEN_HEIGHT
  BY ScenesAssumption
<1>3. scene.lines[y + 1] \in PpuRegisters
  BY <1>1, <1>2
<1>4. \A r \in PpuRegisters : /\ StoredRegs(r) \in PpuRegisters
                              /\ StoredRegs(r).obj_enable => obj_profile_enabled
  BY <1>1 DEF PpuRegisters, StoredRegs
<1> QED
  BY <1>3, <1>4 DEF LineRegs

\* What a line is made of as the reference sees it.
LEMMA ScanlineFields ==
    ASSUME LineTypeOK
    PROVE  /\ Scanline.ly = ly /\ Scanline.regs = LineRegs(ly) /\ Scanline.oam = scene.oam
           /\ Scanline.wy_triggered = LineTriggered(LineRegs(ly), ly)
           /\ Scanline.window_line_counter =
                IF LineTriggered(LineRegs(ly), ly) THEN counted ELSE 0
           /\ Scanline.ly \in 0 .. SCREEN_HEIGHT - 1 /\ Scanline.ly \in Nat
           /\ Scanline.regs \in PpuRegisters /\ Scanline.oam \in ObjectTable
           /\ Scanline.window_line_counter \in Nat
           /\ Windowed(Scanline) <=> LineTriggered(LineRegs(ly), ly)
           /\ Windowed(Scanline) \in BOOLEAN
<1>1. LineRegs(ly) \in PpuRegisters /\ scene.oam \in ObjectTable
  BY LineRegsTyped, ScenesAssumption DEF LineTypeOK
<1>2. ly \in 0 .. SCREEN_HEIGHT - 1 /\ ly \in Nat /\ counted \in Nat
  BY ScenesAssumption DEF LineTypeOK
<1>3. LineTriggered(LineRegs(ly), ly) => LineRegs(ly).win_enable
  BY DEF LineTriggered
<1> QED
  BY <1>1, <1>2, <1>3 DEF Scanline, build_scanline, Windowed

(* While only palettes have moved, the registers that place the tiles are     *)
(* those of the line.                                                         *)
LEMMA LinkedFields ==
    ASSUME Linked
    PROVE  /\ regs.scx = Scanline.regs.scx /\ regs.scy = Scanline.regs.scy
           /\ regs.wx = Scanline.regs.wx /\ regs.wy = Scanline.regs.wy
           /\ regs.obj_enable = Scanline.regs.obj_enable
           /\ regs.obj_size_8x16 = Scanline.regs.obj_size_8x16
           /\ regs.bg_map_hi = Scanline.regs.bg_map_hi /\ regs.win_map_hi = Scanline.regs.win_map_hi
           /\ regs.bgwin_data_hi = Scanline.regs.bgwin_data_hi
           /\ regs.win_enable = Scanline.regs.win_enable
           /\ regs.obj_enable \in BOOLEAN /\ regs.obj_enable = obj_enabled
<1>1. Scanline.regs = LineRegs(ly) /\ LineRegs(ly) \in PpuRegisters
  BY ScanlineFields DEF Linked
<1>2. LineRegs(ly).obj_enable => obj_profile_enabled
  BY LineRegsTyped DEF Linked, LineTypeOK
<1>3. [LineRegs(ly) EXCEPT !.bgp = regs.bgp, !.obp0 = regs.obp0, !.obp1 = regs.obp1,
                           !.bg_enable = regs.bg_enable] = regs
  BY DEF Linked, OnlyPalettes
<1> DEFINE line == LineRegs(ly)
<1>4. line \in PpuRegisters
  BY <1>1
<1> HIDE DEF line
<1>5. [line EXCEPT !.bgp = regs.bgp, !.obp0 = regs.obp0, !.obp1 = regs.obp1,
                   !.bg_enable = regs.bg_enable] = regs
  BY <1>3 DEF line
<1>6. /\ regs.scx = line.scx /\ regs.scy = line.scy /\ regs.wx = line.wx /\ regs.wy = line.wy
      /\ regs.obj_enable = line.obj_enable /\ regs.obj_size_8x16 = line.obj_size_8x16
      /\ regs.bg_map_hi = line.bg_map_hi /\ regs.win_map_hi = line.win_map_hi
      /\ regs.bgwin_data_hi = line.bgwin_data_hi /\ regs.win_enable = line.win_enable
  BY <1>4, <1>5 DEF PpuRegisters
<1>7. line.obj_enable \in BOOLEAN
  BY <1>4 DEF PpuRegisters
<1> QED
  BY <1>1, <1>2, <1>6, <1>7 DEF line, obj_enabled

(****************************** the tile fetcher *****************************)
LEMMA TileTyped ==
    ASSUME NEW s, s.regs \in PpuRegisters, s.ly \in Nat, s.window_line_counter \in Nat,
           NEW layer \in {"Background", "Window"}, NEW tile \in Nat
    PROVE  /\ MapColumn(s, layer, tile) \in 0 .. 31
           /\ LayerLine(s, layer) \div 8 \in 0 .. 31 /\ LayerLine(s, layer) % 8 \in 0 .. 7
<1>1. s.regs.scx \in 0 .. 255 /\ s.regs.scy \in 0 .. 255
  BY DEF PpuRegisters, Bytes
<1>2. s.regs.scx \div 8 + tile \in Nat /\ s.regs.scy + s.ly \in Nat
  <2>1. PICK scx \in 0 .. 255 : scx = s.regs.scx
    BY <1>1
  <2>2. scx \div 8 \in Nat
    OBVIOUS
  <2> QED
    BY <1>1, <2>1, <2>2
<1>3. MapColumn(s, layer, tile) \in 0 .. 31
  BY <1>2 DEF MapColumn
<1>4. LayerLine(s, layer) \in 0 .. 255
  <2>1. \A n \in Nat : n % 256 \in 0 .. 255
    OBVIOUS
  <2> QED
    BY <1>2, <2>1 DEF LayerLine, Low8
<1>5. \A n \in 0 .. 255 : n \div 8 \in 0 .. 31 /\ n % 8 \in 0 .. 7
  OBVIOUS
<1> QED
  BY <1>3, <1>4, <1>5

\* Whatever the fetcher reads is a byte.
LEMMA FetchedBytes ==
    ASSUME NEW s, NEW layer, NEW map_x \in 0 .. 31, NEW map_y \in 0 .. 31, NEW row \in 0 .. 7
    PROVE  /\ TileNumber(s, layer, map_x, map_y) \in Bytes
           /\ VramByte(TileAddress(s, layer, map_x, map_y, row)) \in Bytes
           /\ VramByte(TileAddress(s, layer, map_x, map_y, row) + 1) \in Bytes
BY MapBytes, TileBytes DEF TileNumber, TileAddress

\* So is what its step asks for.
LEMMA WantedByte ==
    ASSUME NEW s, NEW f \in Fetchers
    PROVE  Wanted(s, f) \in Bytes
<1>1. f.map_x \in 0 .. 31 /\ f.map_y \in 0 .. 31 /\ f.row \in 0 .. 7
  BY DEF Fetchers
<1> QED
  BY <1>1, FetchedBytes DEF Wanted, FetchAddress

\* What the fetcher asks for is what the reference reads there.
LEMMA AsksWanted ==
    ASSUME Linked, NEW f \in Fetchers, NEW tile, Fetching(Scanline, f, tile),
           f.step \in {"GetTile", "GetLo", "GetHi"}
    PROVE  VramByte(BgAddress(f)) = Wanted(Scanline, f)
<1>1. regs.win_map_hi = Scanline.regs.win_map_hi /\ regs.bg_map_hi = Scanline.regs.bg_map_hi
      /\ regs.bgwin_data_hi = Scanline.regs.bgwin_data_hi
  BY LinkedFields
<1>2. bgwin_tile_addr(regs, f.tile_id, f.row) = bgwin_tile_addr(Scanline.regs, f.tile_id, f.row)
  BY <1>1 DEF bgwin_tile_addr
<1>3. f.step # "GetTile" =>
        bgwin_tile_addr(regs, f.tile_id, f.row) = FetchAddress(Scanline, f)
  BY <1>2 DEF Fetching, FetchAddress, TileAddress
<1>4. CASE f.step = "GetTile"
  BY <1>1, <1>4 DEF BgAddress, Wanted, TileNumber, MapHi
<1>5. CASE f.step = "GetLo"
  BY <1>3, <1>5 DEF BgAddress, Wanted
<1>6. CASE f.step = "GetHi"
  BY <1>3, <1>6 DEF BgAddress, Wanted
<1> QED
  BY <1>4, <1>5, <1>6

\* An answer brings the fetcher one step on, at its tile.
LEMMA AnswerKept ==
    ASSUME NEW s, NEW f \in Fetchers, NEW tile, Fetching(s, f, tile),
           f.step \in {"GetTile", "GetLo", "GetHi"}, NEW data \in Bytes, data = Wanted(s, f)
    PROVE  /\ state_after_resp(f, data) \in Fetchers
           /\ state_after_resp(f, data).source = f.source
           /\ ~ state_after_resp(f, data).pending
           /\ Fetching(s, state_after_resp(f, data), tile)
<1> DEFINE g == state_after_resp(f, data)
<1>1. CASE f.step = "GetTile"
  <2>1. g = [f EXCEPT !.step = "GetLo", !.pending = FALSE, !.tile_id = data]
    BY <1>1 DEF state_after_resp
  <2> HIDE DEF g
  <2>2. /\ g \in Fetchers /\ g.source = f.source /\ g.map_x = f.map_x /\ g.map_y = f.map_y
        /\ g.row = f.row /\ g.step = "GetLo" /\ g.tile_id = data /\ ~ g.pending
    BY <2>1 DEF Fetchers
  <2>3. data = TileNumber(s, f.source, f.map_x, f.map_y)
    BY <1>1 DEF Wanted
  <2> QED
    BY <2>2, <2>3 DEF g, Fetching
<1>2. CASE f.step = "GetLo"
  <2>1. g = [f EXCEPT !.step = "GetHi", !.pending = FALSE, !.tile_lo = data]
    BY <1>2 DEF state_after_resp
  <2> HIDE DEF g
  <2>2. /\ g \in Fetchers /\ g.source = f.source /\ g.map_x = f.map_x /\ g.map_y = f.map_y
        /\ g.row = f.row /\ g.step = "GetHi" /\ g.tile_id = f.tile_id /\ g.tile_lo = data
        /\ ~ g.pending
    BY <2>1 DEF Fetchers
  <2>3. data = VramByte(FetchAddress(s, f)) /\ FetchAddress(s, g) = FetchAddress(s, f)
    BY <1>2, <2>2 DEF Wanted, FetchAddress
  <2> QED
    BY <1>2, <2>2, <2>3 DEF g, Fetching
<1>3. CASE f.step = "GetHi"
  <2>1. g = [f EXCEPT !.step = "Sleep", !.pending = FALSE, !.tile_hi = data, !.pending_push = TRUE]
    BY <1>3 DEF state_after_resp
  <2> HIDE DEF g
  <2>2. /\ g \in Fetchers /\ g.source = f.source /\ g.map_x = f.map_x /\ g.map_y = f.map_y
        /\ g.row = f.row /\ g.step = "Sleep" /\ g.tile_id = f.tile_id /\ g.tile_lo = f.tile_lo
        /\ g.tile_hi = data /\ ~ g.pending
    BY <2>1 DEF Fetchers
  <2>3. data = VramByte(FetchAddress(s, f) + 1) /\ FetchAddress(s, g) = FetchAddress(s, f)
    BY <1>3, <2>2 DEF Wanted, FetchAddress
  <2> QED
    BY <1>3, <2>2, <2>3 DEF g, Fetching
<1> QED
  BY <1>1, <1>2, <1>3

(* Taking in the answer to a pending read keeps the fetcher at its tile       *)
(* (capture_bg_fetcher_resume_state).                                         *)
LEMMA CaptureKept ==
    ASSUME NEW s, NEW f \in Fetchers, NEW tile, Fetching(s, f, tile), reply \in Replies,
           Answering(s, f, reply)
    PROVE  LET g == capture_bg_fetcher_resume_state(f)
           IN /\ g \in Fetchers /\ g.source = f.source /\ Fetching(s, g, tile)
              /\ g.pending => reply.to # "BgFetcher" /\ g = f
<1>1. CASE f.pending /\ reply.to = "BgFetcher"
  <2>1. reply.data \in Bytes
    BY DEF Replies
  <2>2. f.step \in {"GetTile", "GetLo", "GetHi"} /\ reply.data = Wanted(s, f)
    BY <1>1 DEF Answering
  <2>3. capture_bg_fetcher_resume_state(f) = state_after_resp(f, reply.data)
    BY <1>1 DEF capture_bg_fetcher_resume_state
  <2> QED
    BY <2>1, <2>2, <2>3, AnswerKept
<1>2. CASE ~ (f.pending /\ reply.to = "BgFetcher")
  <2>1. capture_bg_fetcher_resume_state(f) = f
    BY <1>2 DEF capture_bg_fetcher_resume_state
  <2> QED
    BY <1>2, <2>1
<1> QED
  BY <1>1, <1>2

\* A fetcher that begins anew.
LEMMA ResetFetcher ==
    ASSUME NEW source, source \in {"Background", "Window", "Object"},
           NEW map_x, map_x \in 0 .. 31, NEW map_y, map_y \in 0 .. 31, NEW row, row \in 0 .. 7,
           NEW g, g = fetcher_reset(source, map_x, map_y, row)
    PROVE  /\ g \in Fetchers /\ g.source = source /\ g.map_x = map_x /\ g.map_y = map_y
           /\ g.row = row /\ g.step = "GetTile" /\ ~ g.pending
<1>1. 0 \in Bytes
  BY DEF Bytes
<1>2. initial_fetcher_state \in Fetchers
  BY <1>1 DEF initial_fetcher_state, Fetchers
<1> DEFINE init == initial_fetcher_state
<1>3. init.step = "GetTile" /\ ~ init.pending
  BY DEF initial_fetcher_state
<1>4. g = [source |-> source, step |-> init.step, step_phase |-> init.step_phase,
           pending |-> init.pending, tile_id |-> init.tile_id, tile_lo |-> init.tile_lo,
           tile_hi |-> init.tile_hi, map_x |-> map_x, map_y |-> map_y, row |-> row,
           pending_push |-> init.pending_push]
  BY DEF fetcher_reset, initial_fetcher_state
<1> HIDE DEF init
<1>5. /\ init.step \in {"GetTile", "GetLo", "GetHi", "Sleep", "Push"}
      /\ init.step_phase \in BOOLEAN /\ init.pending \in BOOLEAN /\ init.pending_push \in BOOLEAN
      /\ init.tile_id \in Bytes /\ init.tile_lo \in Bytes /\ init.tile_hi \in Bytes
  BY <1>2 DEF Fetchers, init
<1>6. g \in Fetchers
  BY <1>4, <1>5 DEF Fetchers
<1> QED
  BY <1>3, <1>4, <1>6

\* The row of a tile that has been read is what the reference shows of it.
LEMMA RowColours ==
    ASSUME NEW s, NEW f \in Fetchers, NEW tile \in Nat, Fetching(s, f, tile), f.step = "Push",
           NEW col \in 0 .. 7
    PROVE  /\ decode_tile_row(f.tile_lo, f.tile_hi)[col] = Colour(s, f.source, 8 * tile + col)
           /\ decode_tile_row(f.tile_lo, f.tile_hi)[col] \in 0 .. 3
<1>1. (8 * tile + col) \div 8 = tile /\ (8 * tile + col) % 8 = col
  OBVIOUS
<1>2. FetchAddress(s, f) = TileAddress(s, f.source, MapColumn(s, f.source, tile),
                                       LayerLine(s, f.source) \div 8, LayerLine(s, f.source) % 8)
  BY DEF Fetching, FetchAddress
<1>3. Colour(s, f.source, 8 * tile + col) = _tile_row_from_addr(FetchAddress(s, f))[col]
  BY <1>1, <1>2 DEF Colour
<1>4. f.tile_lo = VramByte(FetchAddress(s, f)) /\ f.tile_hi = VramByte(FetchAddress(s, f) + 1)
  BY DEF Fetching
<1> QED
  BY <1>3, <1>4, ColourRange DEF _tile_row_from_addr

\* One dot of the fetcher: it stays at its tile, or pushes the tile's row into
\* the empty queue and goes on to the next.
FetcherStep(s, f, tile, fifo, out) ==
    /\ out.fetcher \in Fetchers /\ out.fetcher.source = f.source
    /\ out.req \in Replies /\ Answering(s, out.fetcher, out.req)
    /\ \/ out.push = <<>> /\ Fetching(s, out.fetcher, tile)
       \/ /\ fifo = <<>> /\ out.push \in Seq(0 .. 3) /\ Len(out.push) = 8
          /\ \A i \in 1 .. 8 : out.push[i] = Colour(s, f.source, 8 * tile + i - 1)
          /\ Fetching(s, out.fetcher, tile + 1)

(* A dot of the fetcher: it stays at its tile and reads what it should, and   *)
(* it pushes the colours of exactly that tile (advance_bg_fetcher).           *)
LEMMA FetcherDot ==
    ASSUME Linked, NEW f, f \in Fetchers, NEW tile, tile \in Nat, Fetching(Scanline, f, tile),
           reply \in Replies, Answering(Scanline, f, reply), NEW fifo,
           NEW out, out = advance_bg_fetcher(f, fifo)
    PROVE  FetcherStep(Scanline, f, tile, fifo, out)
<1> USE DEF FetcherStep
<1> DEFINE s == Scanline
<1>0. NoReply \in Replies
  BY DEF NoReply, Replies, Bytes
<1>1. CASE f.pending
  <2>1. out = [fetcher |-> capture_bg_fetcher_resume_state(f), req |-> NoReply, push |-> <<>>]
    BY <1>1 DEF advance_bg_fetcher
  <2>2. NoReply.to # "BgFetcher"
    BY DEF NoReply
  <2>3. LET g == capture_bg_fetcher_resume_state(f)
        IN /\ g \in Fetchers /\ g.source = f.source /\ Fetching(s, g, tile)
           /\ g.pending => reply.to # "BgFetcher" /\ g = f
    BY CaptureKept
  <2>4. Answering(s, out.fetcher, NoReply)
    BY <2>1, <2>2, <2>3 DEF Answering
  <2> QED
    BY <2>1, <2>3, <2>4, <1>0
<1>2. CASE ~ f.pending /\ f.step \in {"GetTile", "GetLo", "GetHi"}
  <2> DEFINE g == [f EXCEPT !.pending = TRUE]
             req == Reply("BgFetcher", VramByte(BgAddress(f)))
  <2>1. out = [fetcher |-> g, req |-> req, push |-> <<>>]
    BY <1>2 DEF advance_bg_fetcher
  <2>2. /\ g \in Fetchers /\ g.source = f.source /\ g.map_x = f.map_x /\ g.map_y = f.map_y
        /\ g.row = f.row /\ g.step = f.step /\ g.tile_id = f.tile_id /\ g.tile_lo = f.tile_lo
        /\ g.tile_hi = f.tile_hi
    BY DEF Fetchers
  <2>3. VramByte(BgAddress(f)) = Wanted(s, f)
    BY <1>2, AsksWanted
  <2>4. FetchAddress(s, g) = FetchAddress(s, f) /\ Wanted(s, g) = Wanted(s, f)
    <3> HIDE DEF g
    <3> QED
      BY <2>2 DEF FetchAddress, Wanted
  <2>5. req.to = "BgFetcher" /\ req.data = Wanted(s, f) /\ req \in Replies
    <3>1. Wanted(s, f) \in Bytes
      BY WantedByte
    <3> QED
      BY <2>3, <3>1 DEF Reply, Replies
  <2> HIDE DEF g, req
  <2>6. Fetching(s, g, tile)
    BY <2>2, <2>4 DEF Fetching
  <2>7. Answering(s, g, req)
    BY <1>2, <2>2, <2>4, <2>5 DEF Answering
  <2> QED
    BY <2>1, <2>2, <2>5, <2>6, <2>7
<1>3. ASSUME ~ f.pending, NEW g \in Fetchers, out = [fetcher |-> g, req |-> NoReply, push |-> <<>>],
             g.source = f.source, g.map_x = f.map_x, g.map_y = f.map_y, g.row = f.row,
             g.tile_id = f.tile_id, g.tile_lo = f.tile_lo, g.tile_hi = f.tile_hi,
             g.pending = f.pending, f.step \in {"Sleep", "Push"}, g.step \in {"Sleep", "Push"}
      PROVE  /\ out.fetcher \in Fetchers /\ out.fetcher.source = f.source
             /\ out.req \in Replies /\ Answering(s, out.fetcher, out.req)
             /\ out.push = <<>> /\ Fetching(s, out.fetcher, tile)
  <2>1. FetchAddress(s, g) = FetchAddress(s, f)
    BY <1>3 DEF FetchAddress
  <2>2. Fetching(s, g, tile)
    BY <1>3, <2>1 DEF Fetching
  <2>3. Answering(s, g, NoReply)
    BY <1>3 DEF Answering
  <2> QED
    BY <1>3, <2>2, <2>3, <1>0
<1>4. CASE ~ f.pending /\ f.step = "Sleep"
  <2>1. CASE ~ f.step_phase
    <3> DEFINE g == [f EXCEPT !.step_phase = TRUE]
    <3>1. out = [fetcher |-> g, req |-> NoReply, push |-> <<>>]
      BY <1>4, <2>1 DEF advance_bg_fetcher
    <3>2. /\ g \in Fetchers /\ g.source = f.source /\ g.map_x = f.map_x /\ g.map_y = f.map_y
          /\ g.row = f.row /\ g.step = f.step /\ g.tile_id = f.tile_id /\ g.tile_lo = f.tile_lo
          /\ g.tile_hi = f.tile_hi /\ g.pending = f.pending
      BY DEF Fetchers
    <3> HIDE DEF g
    <3> QED
      BY <1>3, <1>4, <3>1, <3>2
  <2>2. CASE f.step_phase
    <3> DEFINE g == [f EXCEPT !.step = "Push", !.step_phase = FALSE]
    <3>1. out = [fetcher |-> g, req |-> NoReply, push |-> <<>>]
      BY <1>4, <2>2 DEF advance_bg_fetcher
    <3>2. /\ g \in Fetchers /\ g.source = f.source /\ g.map_x = f.map_x /\ g.map_y = f.map_y
          /\ g.row = f.row /\ g.step = "Push" /\ g.tile_id = f.tile_id /\ g.tile_lo = f.tile_lo
          /\ g.tile_hi = f.tile_hi /\ g.pending = f.pending
      BY DEF Fetchers
    <3> HIDE DEF g
    <3> QED
      BY <1>3, <1>4, <3>1, <3>2
  <2> QED
    BY <2>1, <2>2
<1>5. CASE ~ f.pending /\ f.step = "Push" /\ ~ (fifo = <<>> /\ f.pending_push)
  <2>1. out = [fetcher |-> f, req |-> NoReply, push |-> <<>>]
    BY <1>5 DEF advance_bg_fetcher
  <2> QED
    BY <1>3, <1>5, <2>1
<1>6. CASE ~ f.pending /\ f.step = "Push" /\ fifo = <<>> /\ f.pending_push
  <2> DEFINE g == fetcher_reset(f.source, (f.map_x + 1) % 32, f.map_y, f.row)
             push == [i \in 1 .. 8 |-> decode_tile_row(f.tile_lo, f.tile_hi)[i - 1]]
  <2>1. out = [fetcher |-> g, req |-> NoReply, push |-> push]
    BY <1>6 DEF advance_bg_fetcher
  <2>2. f.source \in {"Background", "Window"} /\ f.map_x \in 0 .. 31 /\ f.map_y \in 0 .. 31
        /\ f.row \in 0 .. 7
    BY DEF Fetching, Fetchers
  <2>3. (f.map_x + 1) % 32 \in 0 .. 31
    BY <2>2
  <2>4. /\ g \in Fetchers /\ g.source = f.source /\ g.map_x = (f.map_x + 1) % 32
        /\ g.map_y = f.map_y /\ g.row = f.row /\ g.step = "GetTile" /\ ~ g.pending
    <3>1. PICK next : next = (f.map_x + 1) % 32
      OBVIOUS
    <3>2. g = fetcher_reset(f.source, next, f.map_y, f.row)
      BY <3>1
    <3>3. next \in 0 .. 31
      BY <2>3, <3>1
    <3> HIDE DEF g
    <3> QED
      BY <2>2, <3>1, <3>2, <3>3, ResetFetcher
  <2>5. (f.map_x + 1) % 32 = MapColumn(s, f.source, tile + 1)
    <3>1. f.map_x = MapColumn(s, f.source, tile)
      BY DEF Fetching
    <3>2. CASE f.source = "Window"
      BY <3>1, <3>2 DEF MapColumn
    <3>3. CASE f.source = "Background"
      <4>1. PICK n \in Nat : n = s.regs.scx \div 8
        <5>1. s.regs.scx \in 0 .. 255
          BY ScanlineFields DEF Linked, PpuRegisters, Bytes
        <5> QED
          BY <5>1
      <4>2. f.map_x = (n + tile) % 32
        BY <3>1, <3>3, <4>1 DEF MapColumn
      <4>3. (((n + tile) % 32) + 1) % 32 = (n + (tile + 1)) % 32
        OBVIOUS
      <4> QED
        BY <3>3, <4>1, <4>2, <4>3 DEF MapColumn
    <3> QED
      BY <2>2, <3>2, <3>3
  <2>6. Fetching(s, g, tile + 1)
    <3>1. f.map_y = LayerLine(s, f.source) \div 8 /\ f.row = LayerLine(s, f.source) % 8
      BY DEF Fetching
    <3> HIDE DEF g
    <3> QED
      BY <2>2, <2>4, <2>5, <3>1 DEF Fetching
  <2>7. \A i \in 1 .. 8 : /\ push[i] = Colour(s, f.source, 8 * tile + i - 1)
                          /\ push[i] \in 0 .. 3
    <3> TAKE i \in 1 .. 8
    <3>1. PICK col \in 0 .. 7 : col = i - 1
      OBVIOUS
    <3>2. 8 * tile + i - 1 = 8 * tile + col
      BY <3>1
    <3>3. push[i] = decode_tile_row(f.tile_lo, f.tile_hi)[col]
      BY <3>1
    <3> HIDE DEF push
    <3> QED
      BY <1>6, <3>2, <3>3, RowColours
  <2>8. push \in Seq(0 .. 3) /\ Len(push) = 8
    BY <2>7
  <2>9. Answering(s, g, NoReply)
    BY <2>4 DEF Answering
  <2>10. /\ out.fetcher = g /\ out.push = push /\ out.req = NoReply
    <3> HIDE DEF g, push
    <3> QED
      BY <2>1
  <2> HIDE DEF g, push
  <2>11. \A i \in 1 .. 8 : out.push[i] = Colour(s, f.source, 8 * tile + i - 1)
    BY <2>7, <2>10
  <2> QED
    BY <1>0, <1>6, <2>4, <2>6, <2>8, <2>9, <2>10, <2>11
<1>7. f.step \in {"GetTile", "GetLo", "GetHi", "Sleep", "Push"} /\ f.pending \in BOOLEAN
  BY DEF Fetchers
<1> QED
  BY <1>1, <1>2, <1>4, <1>5, <1>6, <1>7

(******************************* the queues ********************************)
LEMMA PopKept ==
    ASSUME NEW s, NEW layer, NEW head, NEW fifo, NEW f, fifo \in Seq(0 .. 3), fifo # <<>>,
           QueueHolds(s, layer, head, fifo, f)
    PROVE  /\ Tail(fifo) \in Seq(0 .. 3) /\ Head(fifo) = Colour(s, layer, head)
           /\ Head(fifo) \in 0 .. 3 /\ QueueHolds(s, layer, head + 1, Tail(fifo), f)
<1>1. PICK tile \in Nat : head + Len(fifo) = 8 * tile /\ Fetching(s, f, tile)
  BY DEF QueueHolds
<1>2. head \in Nat /\ Len(fifo) \in Nat /\ Len(fifo) >= 1
  BY DEF QueueHolds
<1>3. /\ Tail(fifo) \in Seq(0 .. 3) /\ Len(Tail(fifo)) = Len(fifo) - 1 /\ Head(fifo) = fifo[1]
      /\ \A i \in 1 .. Len(fifo) - 1 : Tail(fifo)[i] = fifo[i + 1]
  OBVIOUS
<1>4. \A i \in 1 .. Len(fifo) : fifo[i] = Colour(s, layer, head + i - 1)
  BY DEF QueueHolds
<1>5. Head(fifo) = Colour(s, layer, head) /\ Head(fifo) \in 0 .. 3
  <2>1. 1 \in 1 .. Len(fifo) /\ head + 1 - 1 = head
    BY <1>2
  <2>2. fifo[1] \in 0 .. 3
    BY <2>1
  <2> QED
    BY <1>3, <1>4, <2>1, <2>2
<1>6. ASSUME NEW i \in 1 .. Len(Tail(fifo))
      PROVE  Tail(fifo)[i] = Colour(s, layer, head + 1 + i - 1)
  <2>1. i + 1 \in 1 .. Len(fifo) /\ head + (i + 1) - 1 = head + 1 + i - 1
    BY <1>2, <1>3, <1>6
  <2>2. Tail(fifo)[i] = fifo[i + 1]
    BY <1>3, <1>6
  <2>3. fifo[i + 1] = Colour(s, layer, head + (i + 1) - 1)
    BY <1>4, <2>1
  <2> QED
    BY <2>1, <2>2, <2>3
<1>7. head + 1 \in Nat /\ head + 1 + Len(Tail(fifo)) = 8 * tile
  BY <1>1, <1>2, <1>3
<1>8. f.source = layer
  BY DEF QueueHolds
<1> QED
  BY <1>1, <1>3, <1>5, <1>6, <1>7, <1>8 DEF QueueHolds

\* A dot of the fetcher, and what it pushes behind the colours of the queue.
LEMMA PushKept ==
    ASSUME Linked, NEW layer, NEW head, NEW queue, queue \in Seq(0 .. 3), NEW f, f \in Fetchers,
           QueueHolds(Scanline, layer, head, queue, f), reply \in Replies,
           Answering(Scanline, f, reply), NEW out, out = advance_bg_fetcher(f, queue)
    PROVE  /\ out.fetcher \in Fetchers /\ out.req \in Replies
           /\ Answering(Scanline, out.fetcher, out.req) /\ queue \o out.push \in Seq(0 .. 3)
           /\ QueueHolds(Scanline, layer, head, queue \o out.push, out.fetcher)
<1>1. PICK tile \in Nat : head + Len(queue) = 8 * tile /\ Fetching(Scanline, f, tile)
  BY DEF QueueHolds
<1>2. FetcherStep(Scanline, f, tile, queue, out)
  BY <1>1, FetcherDot
<1>3. f.source = layer /\ head \in Nat /\ Len(queue) \in Nat
      /\ \A i \in 1 .. Len(queue) : queue[i] = Colour(Scanline, layer, head + i - 1)
  BY DEF QueueHolds
<1>4. CASE out.push = <<>> /\ Fetching(Scanline, out.fetcher, tile)
  <2>1. queue \o out.push = queue
    BY <1>4
  <2>2. QueueHolds(Scanline, layer, head, queue, out.fetcher)
    BY <1>1, <1>2, <1>3, <1>4 DEF QueueHolds, FetcherStep
  <2> QED
    BY <1>2, <2>1, <2>2 DEF FetcherStep
<1>5. CASE /\ queue = <<>> /\ out.push \in Seq(0 .. 3) /\ Len(out.push) = 8
           /\ \A i \in 1 .. 8 : out.push[i] = Colour(Scanline, f.source, 8 * tile + i - 1)
           /\ Fetching(Scanline, out.fetcher, tile + 1)
  <2>1. queue \o out.push = out.push
    BY <1>5
  <2>2. head = 8 * tile /\ head + Len(out.push) = 8 * (tile + 1) /\ tile + 1 \in Nat
    <3>1. Len(queue) = 0
      BY <1>5
    <3>2. PICK n \in Nat : n = head
      BY <1>3
    <3>3. n + 0 = 8 * tile
      BY <1>1, <3>1, <3>2
    <3>4. Len(out.push) = 8
      BY <1>5
    <3> QED
      BY <3>2, <3>3, <3>4
  <2>3. QueueHolds(Scanline, layer, head, out.push, out.fetcher)
    BY <1>2, <1>3, <1>5, <2>2 DEF QueueHolds, FetcherStep
  <2> QED
    BY <1>2, <1>5, <2>1, <2>3 DEF FetcherStep
<1> QED
  BY <1>2, <1>4, <1>5 DEF FetcherStep

(************************* a dot of the background *************************)
\* What a dot of the background changes.
Moved(r, window, window_line, fetcher, stall, bg_fifo, discard, obj_fifo, x_out) ==
    [r EXCEPT !.window = window, !.window_line = window_line, !.fetcher = fetcher,
              !.stall_dots = stall, !.bg_fifo = bg_fifo, !.discard = discard,
              !.obj_fifo = obj_fifo, !.x_out = x_out]

\* The fields of a render that a drawing dot changes, and those it leaves.
LEMMA RenderExcept ==
    ASSUME NEW r, r \in Renders, NEW v, NEW window, NEW window_line, NEW fetcher, NEW stall,
           NEW bg_fifo, NEW discard, NEW obj_fifo, NEW x_out,
           v = Moved(r, window, window_line, fetcher, stall, bg_fifo, discard, obj_fifo, x_out)
    PROVE  /\ v.window = window /\ v.window_line = window_line /\ v.fetcher = fetcher
           /\ v.stall_dots = stall /\ v.bg_fifo = bg_fifo /\ v.discard = discard
           /\ v.obj_fifo = obj_fifo /\ v.x_out = x_out
           /\ v.dot = r.dot /\ v.scan = r.scan /\ v.pending_y = r.pending_y
           /\ v.line_objs = r.line_objs /\ v.fetched = r.fetched /\ v.ticket = r.ticket
           /\ v.obj_flags = r.obj_flags /\ v.bg_fetcher_resume = r.bg_fetcher_resume
           /\ (/\ window \in {"Inactive", "Armed", "Active"} /\ window_line \in Bytes
               /\ fetcher \in Fetchers /\ stall \in 0 .. 6 /\ bg_fifo \in Seq(0 .. 3)
               /\ discard \in 0 .. 7 /\ x_out \in 0 .. SCREEN_WIDTH
               /\ obj_fifo \in [count : 0 .. 16, pixels : [0 .. 15 -> ObjPixels]])
              => v \in Renders
BY DEF Renders, Moved

\* The dot in which the window begins, and every other dot.
WindowBegins(r) == r.window = "Armed" /\ window_triggered(r)

\* The dot on which the window begins, as one record.
LEMMA BeginningRender ==
    ASSUME NEW r, r \in Renders, WindowBegins(r), NEW out, out = BackgroundDot(r, FALSE)
    PROVE  /\ out.req = NoReply /\ out.pixel = <<>>
           /\ out.render =
                [r EXCEPT !.window = "Active", !.window_line = Low8(r.window_line + 1),
                          !.fetcher = restart_window_fetcher(r.window_line),
                          !.stall_dots = IF obj_profile_enabled THEN r.stall_dots + 6 ELSE 6,
                          !.bg_fifo = <<>>, !.discard = r.discard,
                          !.obj_fifo = IF ~ obj_enabled THEN empty_obj_fifo ELSE r.obj_fifo,
                          !.x_out = r.x_out]
<1>1. step_window_state(r) =
        [state |-> "Active", window_line |-> Low8(r.window_line + 1), restart |-> TRUE]
  BY DEF WindowBegins, step_window_state
<1>2. pop_bg_fifo(<<>>, r.discard) =
        [fifo |-> <<>>, pixel_valid |-> FALSE, discard |-> r.discard]
  BY DEF pop_bg_fifo
<1>3. out.req = NoReply
  BY <1>1 DEF BackgroundDot
<1>4. out.pixel = <<>>
  BY <1>1, <1>2 DEF BackgroundDot
<1>5. out.render =
        [r EXCEPT !.window = "Active", !.window_line = Low8(r.window_line + 1),
                  !.fetcher = restart_window_fetcher(r.window_line),
                  !.stall_dots = IF obj_profile_enabled THEN r.stall_dots + 6 ELSE 6,
                  !.bg_fifo = <<>>, !.discard = r.discard,
                  !.obj_fifo = IF ~ obj_enabled THEN empty_obj_fifo ELSE r.obj_fifo,
                  !.x_out = r.x_out]
  <2>1. PICK fifo : fifo = <<>>
    OBVIOUS
  <2>2. PICK popped : popped = pop_bg_fifo(fifo, r.discard)
    OBVIOUS
  <2>3. popped.fifo = <<>> /\ popped.discard = r.discard /\ ~ popped.pixel_valid
    BY <1>2, <2>1, <2>2
  <2>4. out.render =
          [r EXCEPT !.window = "Active", !.window_line = Low8(r.window_line + 1),
                    !.fetcher = restart_window_fetcher(r.window_line),
                    !.stall_dots = IF obj_profile_enabled THEN r.stall_dots + 6 ELSE 6,
                    !.bg_fifo = popped.fifo, !.discard = popped.discard,
                    !.obj_fifo = IF ~ obj_enabled THEN empty_obj_fifo
                                 ELSE IF popped.pixel_valid THEN pop_obj_fifo(r.obj_fifo)
                                 ELSE r.obj_fifo,
                    !.x_out = IF popped.pixel_valid THEN r.x_out + 1 ELSE r.x_out]
    BY <1>1, <2>1, <2>2 DEF BackgroundDot
  <2> QED
    BY <2>3, <2>4
<1> QED
  BY <1>3, <1>4, <1>5

(******************************* the objects *******************************)
\* An object shows in the eight columns that start at its x.
LEMMA ShownColumn ==
    ASSUME NEW s, s.oam \in ObjectTable, NEW x, NEW i, i \in LineObjs(s), ObjColor(x, s, i) # 0
    PROVE  /\ i \in 0 .. OAM_ENTRIES - 1 /\ s.oam[i].x \in 0 .. 255
           /\ x - (s.oam[i].x - 8) \in 0 .. 7
<1>1. i \in 0 .. OAM_ENTRIES - 1
  BY DEF LineObjs, Chosen
<1>2. s.oam[i].x \in 0 .. 255
  BY <1>1 DEF ObjectTable, Bytes
<1>3. x - (s.oam[i].x - 8) \in 0 .. 7
  BY DEF ObjColor
<1> QED
  BY <1>1, <1>2, <1>3

\* Every object that begins at this column or before it has been fetched.
Caught(s, r) == \A i \in LineObjs(s) : s.oam[i].x - 8 <= r.x_out => RankOf(s, i) \in r.fetched

(* Moving on by a column passes no object by when the one that begins here    *)
(* has been fetched.                                                          *)
LEMMA FetchedOn ==
    ASSUME NEW s, s.oam \in ObjectTable, NEW r, r \in Renders, FetchedOK(s, r), Caught(s, r),
           NEW v, v.line_objs = r.line_objs, v.fetched = r.fetched, v.x_out = r.x_out + 1
    PROVE  FetchedOK(s, v)
<1>1. Tickets(v) = Tickets(r)
  BY DEF Tickets
<1>2. r.x_out \in Int
  BY SpatialAssumption DEF Renders
<1>3. ASSUME NEW i \in LineObjs(s)
      PROVE  /\ s.oam[i].x - 8 < v.x_out => RankOf(s, i) \in v.fetched
             /\ RankOf(s, i) \in v.fetched => s.oam[i].x - 8 <= v.x_out
  <2>1. s.oam[i].x \in 0 .. 255
    BY <1>3 DEF LineObjs, Chosen, ObjectTable, Bytes
  <2>2. RankOf(s, i) \in r.fetched => s.oam[i].x - 8 <= r.x_out
    BY <1>3 DEF FetchedOK
  <2>3. s.oam[i].x - 8 <= r.x_out => RankOf(s, i) \in r.fetched
    BY <1>3 DEF Caught
  <2>4. PICK a \in 0 .. 255, n \in Int : a = s.oam[i].x /\ n = r.x_out
    BY <1>2, <2>1
  <2>5. (a - 8 < n + 1 => a - 8 <= n) /\ (a - 8 <= n => a - 8 <= n + 1)
    OBVIOUS
  <2> QED
    BY <2>2, <2>3, <2>4, <2>5
<1>4. Tickets(v) = {TicketOf(s, i) : i \in LineObjs(s)}
  BY <1>1 DEF FetchedOK
<1> QED
  BY <1>3, <1>4 DEF FetchedOK

\* Nothing is passed by when the column stays.
LEMMA FetchedStays ==
    ASSUME NEW s, NEW r, FetchedOK(s, r),
           NEW v, v.line_objs = r.line_objs, v.fetched = r.fetched, v.x_out = r.x_out
    PROVE  FetchedOK(s, v)
<1>1. Tickets(v) = Tickets(r)
  BY DEF Tickets
<1> QED
  BY <1>1 DEF FetchedOK

ObjQueues == [count : 0 .. 16, pixels : [0 .. 15 -> ObjPixels]]

(* Nor do the object slots change when column, slots and fetched objects      *)
(* stay.                                                                      *)
LEMMA SlotsStay ==
    ASSUME NEW s, NEW r, SlotsOK(s, r),
           NEW v, v.obj_fifo = r.obj_fifo, v.fetched = r.fetched, v.x_out = r.x_out
    PROVE  SlotsOK(s, v)
<1>1. \A x : ShownAt(s, v, x) = ShownAt(s, r, x)
  BY DEF ShownAt
<1> QED
  BY <1>1 DEF SlotsOK, SlotOK

\* On a line without objects the empty slots are right.
LEMMA NoObjects ==
    ASSUME NEW s, LineObjs(s) = {}, NEW v, v.obj_fifo = empty_obj_fifo
    PROVE  SlotsOK(s, v)
<1>1. \A x : ShownAt(s, v, x) = {}
  BY DEF ShownAt
<1>2. \A slot \in 0 .. 15 : v.obj_fifo.pixels[slot].color = 0
  BY DEF empty_obj_fifo, zero_obj_pixel
<1> QED
  BY <1>1, <1>2 DEF SlotsOK, SlotOK

\* The empty object queue has its type.
LEMMA EmptyQueue == empty_obj_fifo \in ObjQueues /\ zero_obj_pixel \in ObjPixels
<1>1. zero_obj_pixel \in ObjPixels
  BY DEF zero_obj_pixel, ObjPixels, Bytes
<1> QED
  BY <1>1 DEF empty_obj_fifo, ObjQueues

\* With the pixel that leaves, the others move up a slot.
LEMMA SlotsPopped ==
    ASSUME NEW s, s.oam \in ObjectTable, NEW r, r \in Renders, FetchedOK(s, r), SlotsOK(s, r),
           NEW v, v.obj_fifo = pop_obj_fifo(r.obj_fifo), v.fetched = r.fetched,
           v.x_out = r.x_out + 1
    PROVE  SlotsOK(s, v) /\ v.obj_fifo \in ObjQueues
<1>1. \A x : ShownAt(s, v, x) = ShownAt(s, r, x)
  BY DEF ShownAt
<1>2. r.obj_fifo \in ObjQueues /\ r.x_out \in Nat
  BY SpatialAssumption DEF Renders, ObjQueues
<1>3. ASSUME NEW x, x = r.x_out + 16
      PROVE  ShownAt(s, r, x) = {}
  <2> SUFFICES ASSUME NEW i \in ShownAt(s, r, x) PROVE FALSE
    OBVIOUS
  <2>1. i \in LineObjs(s) /\ RankOf(s, i) \in r.fetched /\ ObjColor(x, s, i) # 0
    BY DEF ShownAt
  <2>2. s.oam[i].x - 8 <= r.x_out
    BY <2>1 DEF FetchedOK
  <2>3. s.oam[i].x \in 0 .. 255 /\ x - (s.oam[i].x - 8) \in 0 .. 7
    BY <2>1, ShownColumn
  <2>4. PICK a \in 0 .. 255 : a = s.oam[i].x
    BY <2>3
  <2>5. PICK n \in Nat : n = r.x_out
    BY <1>2
  <2>6. a - 8 <= n /\ n + 16 - (a - 8) \in 0 .. 7
    BY <1>3, <2>2, <2>3, <2>4, <2>5
  <2> QED
    BY <2>6
<1>4. ASSUME NEW slot, slot \in 0 .. 14, NEW next, next = slot + 1,
             NEW x, x = r.x_out + next
      PROVE  \/ v.obj_fifo.pixels[slot] = r.obj_fifo.pixels[next]
             \/ v.obj_fifo.pixels[slot].color = 0 /\ ShownAt(s, r, x) = {}
  <2>1. CASE r.obj_fifo.count = 0
    <3>1. v.obj_fifo = r.obj_fifo
      BY <2>1 DEF pop_obj_fifo
    <3>2. v.obj_fifo.pixels[slot].color = 0 /\ r.obj_fifo.pixels[next].color = 0
      BY <1>4, <2>1, <3>1 DEF SlotsOK
    <3>3. SlotOK(s, r, next)
      BY <1>4 DEF SlotsOK
    <3>4. \A i \in ShownAt(s, r, x) : PixelOf(s, i, x).color # 0
      BY DEF ShownAt, PixelOf
    <3>5. ShownAt(s, r, x) = {}
      BY <1>4, <3>2, <3>3, <3>4 DEF SlotOK
    <3> QED
      BY <3>2, <3>5
  <2>2. CASE r.obj_fifo.count # 0
    <3>1. v.obj_fifo.pixels[slot] = r.obj_fifo.pixels[slot + 1]
      BY <1>4, <2>2 DEF pop_obj_fifo
    <3> QED
      BY <1>4, <3>1
  <2> QED
    BY <2>1, <2>2
<1>5. v.obj_fifo.pixels[15].color = 0
  <2>1. CASE r.obj_fifo.count = 0
    BY <2>1 DEF pop_obj_fifo, SlotsOK
  <2>2. CASE r.obj_fifo.count # 0
    BY <2>2 DEF pop_obj_fifo, zero_obj_pixel
  <2> QED
    BY <2>1, <2>2
<1>6. ASSUME NEW slot \in 0 .. 15
      PROVE  SlotOK(s, v, slot)
  <2>1. PICK x : x = v.x_out + slot
    OBVIOUS
  <2>2. CASE slot = 15
    <3>1. x = r.x_out + 16
      BY <1>2, <2>1, <2>2
    <3>2. ShownAt(s, v, x) = {}
      BY <1>1, <1>3, <3>1
    <3> QED
      BY <1>5, <2>1, <2>2, <3>2 DEF SlotOK
  <2>3. CASE slot # 15
    <3>1. PICK next : next = slot + 1
      OBVIOUS
    <3>2. slot \in 0 .. 14 /\ next \in 0 .. 15 /\ x = r.x_out + next
      BY <1>2, <2>1, <2>3, <3>1
    <3>3. \/ v.obj_fifo.pixels[slot] = r.obj_fifo.pixels[next]
          \/ v.obj_fifo.pixels[slot].color = 0 /\ ShownAt(s, r, x) = {}
      BY <1>4, <3>1, <3>2
    <3>4. SlotOK(s, r, next)
      BY <3>2 DEF SlotsOK
    <3>5. CASE v.obj_fifo.pixels[slot] = r.obj_fifo.pixels[next]
      BY <1>1, <2>1, <3>2, <3>4, <3>5 DEF SlotOK
    <3>6. CASE v.obj_fifo.pixels[slot].color = 0 /\ ShownAt(s, r, x) = {}
      BY <1>1, <2>1, <3>6 DEF SlotOK
    <3> QED
      BY <3>3, <3>5, <3>6
  <2> QED
    BY <2>2, <2>3
<1>7. ASSUME NEW slot \in 0 .. 15, slot >= v.obj_fifo.count
      PROVE  v.obj_fifo.pixels[slot].color = 0
  <2>1. CASE r.obj_fifo.count = 0
    BY <1>7, <2>1 DEF pop_obj_fifo, SlotsOK
  <2>2. CASE r.obj_fifo.count # 0 /\ slot # 15
    <3>1. v.obj_fifo.pixels[slot] = r.obj_fifo.pixels[slot + 1] /\ v.obj_fifo.count = r.obj_fifo.count - 1
      BY <2>2 DEF pop_obj_fifo
    <3>2. r.obj_fifo.count \in 0 .. 16
      BY <1>2 DEF ObjQueues
    <3>3. slot + 1 \in 0 .. 15 /\ slot + 1 >= r.obj_fifo.count
      BY <1>7, <2>2, <3>1, <3>2
    <3> QED
      BY <3>1, <3>3 DEF SlotsOK
  <2> QED
    BY <1>5, <2>1, <2>2
<1>8. v.obj_fifo \in ObjQueues
  <2>1. CASE r.obj_fifo.count = 0
    BY <1>2, <2>1 DEF pop_obj_fifo
  <2>2. CASE r.obj_fifo.count # 0
    <3>1. r.obj_fifo.count - 1 \in 0 .. 16
      BY <1>2, <2>2 DEF ObjQueues
    <3>2. \A slot \in 0 .. 15 : slot # 15 => r.obj_fifo.pixels[slot + 1] \in ObjPixels
      <4>1. \A slot \in 0 .. 15 : slot # 15 => slot + 1 \in 0 .. 15
        OBVIOUS
      <4> QED
        BY <1>2, <4>1 DEF ObjQueues
    <3>3. [slot \in 0 .. 15 |-> IF slot = 15 THEN zero_obj_pixel ELSE r.obj_fifo.pixels[slot + 1]]
            \in [0 .. 15 -> ObjPixels]
      BY <3>2, EmptyQueue
    <3> QED
      BY <2>2, <3>1, <3>3 DEF pop_obj_fifo, ObjQueues
  <2> QED
    BY <2>1, <2>2
<1> QED
  BY <1>6, <1>7, <1>8 DEF SlotsOK

\* What the reference shows with the registers of this very dot.
Now == build_scanline(ly, regs, scene.oam, counted)

(* The line as the reference sees it now differs from the line at its start   *)
(* in the palettes only: same colours, same objects.                          *)
LEMMA NowFields ==
    ASSUME Linked, regs \in PpuRegisters
    PROVE  /\ Now.ly = ly /\ Now.regs = regs /\ Now.oam = Scanline.oam /\ Now.oam \in ObjectTable
           /\ Now.ly = Scanline.ly /\ Now.ly \in Nat
           /\ Now.window_line_counter = Scanline.window_line_counter
           /\ Now.window_line_counter \in Nat
           /\ Windowed(Now) <=> Windowed(Scanline)
           /\ \A layer, column : Colour(Now, layer, column) = Colour(Scanline, layer, column)
           /\ \A x, i : ObjColor(x, Now, i) = ObjColor(x, Scanline, i)
           /\ _selected_line_sprites(Now) = Chosen(Scanline, OAM_ENTRIES)
<1>1. /\ Scanline.ly = ly /\ Scanline.oam = scene.oam
      /\ Scanline.window_line_counter = IF LineTriggered(LineRegs(ly), ly) THEN counted ELSE 0
      /\ Scanline.oam \in ObjectTable /\ Scanline.window_line_counter \in Nat
      /\ Scanline.ly \in Nat /\ Scanline.regs = LineRegs(ly)
      /\ Windowed(Scanline) <=> LineTriggered(LineRegs(ly), ly)
  BY ScanlineFields DEF Linked
<1>2. /\ Now.ly = ly /\ Now.regs = regs /\ Now.oam = scene.oam
      /\ Now.wy_triggered = LineTriggered(regs, ly)
      /\ Now.window_line_counter = IF LineTriggered(regs, ly) THEN counted ELSE 0
  BY DEF Now, build_scanline
<1>3. /\ regs.scx = Scanline.regs.scx /\ regs.scy = Scanline.regs.scy
      /\ regs.wx = Scanline.regs.wx /\ regs.wy = Scanline.regs.wy
      /\ regs.obj_size_8x16 = Scanline.regs.obj_size_8x16
      /\ regs.bg_map_hi = Scanline.regs.bg_map_hi /\ regs.win_map_hi = Scanline.regs.win_map_hi
      /\ regs.bgwin_data_hi = Scanline.regs.bgwin_data_hi
      /\ regs.win_enable = Scanline.regs.win_enable
  BY LinkedFields
<1>4. LineTriggered(regs, ly) <=> LineTriggered(LineRegs(ly), ly)
  BY <1>1, <1>3 DEF LineTriggered
<1>5. Now.window_line_counter = Scanline.window_line_counter
  BY <1>1, <1>2, <1>4
<1>6. Windowed(Now) <=> Windowed(Scanline)
  BY <1>1, <1>2, <1>4 DEF Windowed, LineTriggered
<1>7. /\ \A layer, tile : MapColumn(Now, layer, tile) = MapColumn(Scanline, layer, tile)
      /\ \A layer : LayerLine(Now, layer) = LayerLine(Scanline, layer)
      /\ \A layer : MapHi(Now, layer) = MapHi(Scanline, layer)
  BY <1>1, <1>2, <1>3, <1>5 DEF MapColumn, LayerLine, MapHi
<1>8. \A layer, mx, my : TileNumber(Now, layer, mx, my) = TileNumber(Scanline, layer, mx, my)
  BY <1>7 DEF TileNumber
<1>9. \A id, row : bgwin_tile_addr(Now.regs, id, row) = bgwin_tile_addr(Scanline.regs, id, row)
  BY <1>2, <1>3 DEF bgwin_tile_addr
<1>10. \A layer, mx, my, row :
         TileAddress(Now, layer, mx, my, row) = TileAddress(Scanline, layer, mx, my, row)
  BY <1>8, <1>9 DEF TileAddress
<1>11. \A layer, column : Colour(Now, layer, column) = Colour(Scanline, layer, column)
  BY <1>7, <1>10 DEF Colour
<1>12. obj_height(Now.regs) = obj_height(Scanline.regs)
  BY <1>2, <1>3 DEF obj_height
<1>13. \A tile, row, flip :
         obj_tile_addr(Now.regs, tile, row, flip) = obj_tile_addr(Scanline.regs, tile, row, flip)
  BY <1>2, <1>3, <1>12 DEF obj_tile_addr
<1>14. \A x, i : ObjColor(x, Now, i) = ObjColor(x, Scanline, i)
  BY <1>1, <1>2, <1>13 DEF ObjColor
<1>15. _selected_line_sprites(Now) = Chosen(Scanline, OAM_ENTRIES)
  <2>1. \A i : Meets(Now, i) <=> Meets(Scanline, i)
    BY <1>1, <1>2, <1>12 DEF Meets
  <2>2. _selected_line_sprites(Now) = Chosen(Now, OAM_ENTRIES)
    BY DEF _selected_line_sprites, Chosen, RankOf, MeetBefore, Meets
  <2>3. \A i : RankOf(Now, i) = RankOf(Scanline, i)
    BY <2>1 DEF RankOf, MeetBefore
  <2> QED
    BY <2>1, <2>2, <2>3 DEF Chosen
<1> QED
  BY <1>1, <1>2, <1>5, <1>6, <1>11, <1>14, <1>15

(******************************** the mixer ********************************)
\* The tile layer the pixel is of, and its colour.
EffectiveBg(x) ==
    IF window_sample(x, Now) # None THEN window_sample(x, Now) ELSE bg_sample(x, Now)

(* The layer the reference chooses at a column is the one the queue holds,    *)
(* and its colour the one at the head.                                        *)
LEMMA EffectiveColour ==
    ASSUME Linked, regs \in PpuRegisters, NEW r, r \in Renders, WindowOK(Scanline, r),
           ~ WindowBegins(r), r.discard = 0
    PROVE  LET color == Colour(Scanline, Layer(r), HeadColumn(Scanline, r))
           IN /\ EffectiveBg(r.x_out).color_idx = color
              /\ EffectiveBg(r.x_out).shade = palette_lookup(color, regs.bgp)
<1>1. /\ Now.regs \in PpuRegisters /\ Now.regs = regs /\ Now.ly \in Nat
      /\ Now.window_line_counter \in Nat /\ (Windowed(Now) <=> Windowed(Scanline))
      /\ \A layer, column : Colour(Now, layer, column) = Colour(Scanline, layer, column)
  BY NowFields
<1>2. regs.wx = Scanline.regs.wx /\ regs.scx = Scanline.regs.scx
  BY LinkedFields
<1>3. r.x_out \in Nat /\ regs.wx \in 0 .. 255
  BY SpatialAssumption DEF Renders, PpuRegisters, Bytes
<1>4. PICK x : x = r.x_out
  OBVIOUS
<1>5. CASE r.window = "Active"
  <2>1. Windowed(Now) /\ x >= Now.regs.wx - 7
    <3>1. r.x_out + 7 >= Scanline.regs.wx /\ Windowed(Scanline)
      BY <1>5 DEF WindowOK
    <3> QED
      BY <1>1, <1>2, <1>3, <1>4, <3>1
  <2>2. /\ window_sample(x, Now) # None
        /\ window_sample(x, Now).color_idx = Colour(Now, "Window", x - (Now.regs.wx - 7))
        /\ window_sample(x, Now).shade = palette_lookup(window_sample(x, Now).color_idx, Now.regs.bgp)
    BY <1>1, <1>3, <1>4, <2>1, WindowColour
  <2>3. Layer(r) = "Window" /\ HeadColumn(Scanline, r) = x - (Now.regs.wx - 7)
    BY <1>1, <1>2, <1>4, <1>5 DEF Layer, HeadColumn
  <2> QED
    BY <1>1, <1>4, <2>2, <2>3 DEF EffectiveBg
<1>6. CASE r.window # "Active"
  <2>1. window_sample(x, Now) = None
    <3>1. r.window = "Inactive" => ~ Windowed(Now)
      BY <1>1 DEF WindowOK
    <3>2. r.window = "Armed" => ~ (x >= Now.regs.wx - 7)
      <4>1. r.window = "Armed" => ~ (x + 7 >= Now.regs.wx)
        BY <1>1, <1>4 DEF WindowBegins, window_triggered
      <4> QED
        BY <1>1, <1>3, <1>4, <4>1
    <3>3. r.window \in {"Inactive", "Armed"}
      BY <1>6 DEF Renders
    <3> QED
      BY <3>1, <3>2, <3>3 DEF window_sample, Windowed
  <2>2. /\ bg_sample(x, Now).color_idx = Colour(Now, "Background", x + (Now.regs.scx % 8))
        /\ bg_sample(x, Now).shade = palette_lookup(bg_sample(x, Now).color_idx, Now.regs.bgp)
    BY <1>1, <1>3, <1>4, BackgroundColour
  <2>3. HeadColumn(Scanline, r) = x + (Now.regs.scx % 8)
    <3>1. HeadColumn(Scanline, r) = r.x_out + (regs.scx % 8) - r.discard
      BY <1>2, <1>6 DEF HeadColumn
    <3>2. regs.scx % 8 \in 0 .. 7
      BY DEF PpuRegisters, Bytes
    <3> QED
      BY <1>1, <1>3, <1>4, <3>1, <3>2
  <2>4. Layer(r) = "Background"
    BY <1>6 DEF Layer
  <2> QED
    BY <1>1, <1>4, <2>1, <2>2, <2>3, <2>4 DEF EffectiveBg
<1> QED
  BY <1>5, <1>6

\* What the slot at the head of the object queue holds is what the reference
\* finds on top, as no object is due.
LEMMA ObjectOnTop ==
    ASSUME Linked, regs \in PpuRegisters, NEW r, r \in Renders, FetchedOK(Scanline, r),
           SlotsOK(Scanline, r), Caught(Scanline, r), NEW pixel, pixel = r.obj_fifo.pixels[0],
           NEW sample, sample = obj_sample(r.x_out, Now)
    PROVE  IF regs.obj_enable /\ pixel.color # 0
           THEN /\ r.obj_fifo.count > 0 /\ sample # None
                /\ sample.bg_over_obj = pixel.bg_over_obj
                /\ sample.shade = palette_lookup(pixel.color, IF pixel.palette = 1 THEN regs.obp1
                                                              ELSE regs.obp0)
           ELSE sample = None
<1> DEFINE s == Scanline
           x == r.x_out
           shown == {i \in _selected_line_sprites(Now) : ObjColor(x, Now, i) # 0}
           over(i, j) == Now.oam[i].x < Now.oam[j].x \/ (Now.oam[i].x = Now.oam[j].x /\ i <= j)
           winner == CHOOSE i \in shown : \A j \in shown : over(i, j)
<1>1. /\ Now.oam = s.oam /\ Now.regs = regs /\ s.oam \in ObjectTable
      /\ _selected_line_sprites(Now) = Chosen(s, OAM_ENTRIES)
      /\ \A y, i : ObjColor(y, Now, i) = ObjColor(y, s, i)
  BY NowFields
<1>2. s.regs.obj_enable = regs.obj_enable
  BY LinkedFields
<1>3. CASE ~ regs.obj_enable
  <2>1. sample = None
    BY <1>1, <1>3 DEF obj_sample
  <2> QED
    BY <1>3, <2>1
<1>4. CASE regs.obj_enable
  <2>1. LineObjs(s) = Chosen(s, OAM_ENTRIES)
    BY <1>2, <1>4 DEF LineObjs
  <2>2. shown = ShownAt(s, r, x)
    <3>1. ASSUME NEW i \in LineObjs(s), ObjColor(x, s, i) # 0
          PROVE  RankOf(s, i) \in r.fetched
      <4>1. s.oam[i].x \in 0 .. 255 /\ x - (s.oam[i].x - 8) \in 0 .. 7
        BY <1>1, <3>1, ShownColumn
      <4>2. x \in Nat
        BY SpatialAssumption DEF Renders
      <4>3. s.oam[i].x - 8 <= x
        <5>1. PICK a \in 0 .. 255 : a = s.oam[i].x
          BY <4>1
        <5>2. PICK n \in Nat : n = x
          BY <4>2
        <5>3. n - (a - 8) \in 0 .. 7
          BY <4>1, <5>1, <5>2
        <5>4. a - 8 <= n
          BY <5>3
        <5> QED
          BY <5>1, <5>2, <5>4
      <4> QED
        BY <3>1, <4>3 DEF Caught
    <3> QED
      BY <1>1, <2>1, <3>1 DEF ShownAt
  <2>3. SlotOK(s, r, 0) /\ (0 >= r.obj_fifo.count => pixel.color = 0)
    BY DEF SlotsOK
  <2>4. PICK y : y = x
    OBVIOUS
  <2>5. r.x_out + 0 = y
    BY <2>4, SpatialAssumption DEF Renders
  <2>6. CASE shown = {}
    <3>1. pixel.color = 0
      BY <2>2, <2>3, <2>4, <2>5, <2>6 DEF SlotOK
    <3>2. sample = None
      BY <2>6 DEF obj_sample
    <3> QED
      BY <3>1, <3>2
  <2>7. CASE shown # {}
    <3>1. PICK i \in shown : (\A j \in shown : OnTop(s, i, j)) /\ pixel = PixelOf(s, i, y)
      BY <2>2, <2>3, <2>4, <2>5, <2>7 DEF SlotOK
    <3>2. \A j, k : over(j, k) <=> OnTop(s, j, k)
      BY <1>1 DEF OnTop
    <3>3. winner = i
      <4>1. \A j \in shown : over(i, j)
        BY <3>1, <3>2
      <4>2. ASSUME NEW k \in shown, \A j \in shown : over(k, j) PROVE k = i
        <5>1. OnTop(s, k, i) /\ OnTop(s, i, k)
          BY <3>1, <3>2, <4>2
        <5>2. /\ i \in 0 .. OAM_ENTRIES - 1 /\ k \in 0 .. OAM_ENTRIES - 1
          BY <1>1 DEF Chosen
        <5>3. s.oam[i].x \in 0 .. 255 /\ s.oam[k].x \in 0 .. 255
          BY <1>1, <5>2 DEF ObjectTable, Bytes
        <5>4. i \in Int /\ k \in Int
          BY <5>2, SpatialAssumption
        <5>5. PICK a \in 0 .. 255, b \in 0 .. 255 : a = s.oam[i].x /\ b = s.oam[k].x
          BY <5>3
        <5>6. PICK m \in Int, n \in Int : m = i /\ n = k
          BY <5>4
        <5>7. (b < a \/ (b = a /\ n <= m)) /\ (a < b \/ (a = b /\ m <= n))
          BY <5>1, <5>5, <5>6 DEF OnTop
        <5>8. a \in Int /\ b \in Int
          BY <5>5
        <5>9. a = b
          BY <5>7, <5>8
        <5>10. m <= n /\ n <= m
          BY <5>7, <5>8, <5>9
        <5>11. m = n
          BY <5>6, <5>10
        <5> QED
          BY <5>6, <5>11
      <4> HIDE DEF shown, over
      <4> QED
        BY <4>1, <4>2, Zenon
    <3>4. ObjColor(y, Now, i) = pixel.color /\ pixel.color # 0
      BY <1>1, <2>4, <3>1 DEF PixelOf
    <3>5. sample = [source |-> "object", sprite_index |-> i, tile_id |-> Now.oam[i].tile,
                    bg_over_obj |-> BitOf(Now.oam[i].flags, 7),
                    shade |-> palette_lookup(ObjColor(y, Now, i),
                                IF BitOf(Now.oam[i].flags, 4) THEN Now.regs.obp1 ELSE Now.regs.obp0)]
      <4>1. sample = [source |-> "object", sprite_index |-> winner, tile_id |-> Now.oam[winner].tile,
                      bg_over_obj |-> BitOf(Now.oam[winner].flags, 7),
                      shade |-> palette_lookup(ObjColor(y, Now, winner),
                                  IF BitOf(Now.oam[winner].flags, 4) THEN Now.regs.obp1
                                  ELSE Now.regs.obp0)]
        BY <1>1, <1>4, <2>4, <2>7 DEF obj_sample
      <4> HIDE DEF winner
      <4> QED
        BY <3>3, <4>1
    <3>6. sample # None
      BY <3>5 DEF None
    <3>7. /\ pixel.palette = CarryOf(BitOf(s.oam[i].flags, 4))
          /\ pixel.bg_over_obj = BitOf(s.oam[i].flags, 7)
      BY <3>1 DEF PixelOf
    <3>8. pixel.palette = 1 <=> BitOf(s.oam[i].flags, 4)
      BY <3>7 DEF CarryOf, BitOf
    <3>9. /\ sample.bg_over_obj = pixel.bg_over_obj
          /\ sample.shade = palette_lookup(pixel.color, IF pixel.palette = 1 THEN regs.obp1
                                                        ELSE regs.obp0)
      <4> HIDE DEF shown
      <4> QED
        BY <1>1, <3>4, <3>5, <3>7, <3>8
    <3>10. r.obj_fifo.count > 0
      <4>1. r.obj_fifo.count \in 0 .. 16
        BY DEF Renders
      <4> QED
        BY <2>3, <3>4, <4>1
    <3> QED
      BY <1>4, <3>4, <3>6, <3>9, <3>10
  <2> QED
    BY <2>6, <2>7
<1>5. regs.obj_enable \in BOOLEAN
  BY LinkedFields
<1> QED
  BY <1>3, <1>4, <1>5

\* So the pixel of the dot is the one of the reference.
LEMMA MixedPixel ==
    ASSUME Linked, regs \in PpuRegisters, NEW r, r \in Renders, WindowOK(Scanline, r),
           FetchedOK(Scanline, r), SlotsOK(Scanline, r), Caught(Scanline, r),
           ~ WindowBegins(r), r.discard = 0,
           NEW color, color = Colour(Scanline, Layer(r), HeadColumn(Scanline, r))
    PROVE  mix_bg_obj_pixel(color, obj_enabled /\ r.obj_fifo.count > 0, r.obj_fifo.pixels[0])
             = PixelResult(r.x_out, Now).shade
<1> DEFINE bg == EffectiveBg(r.x_out)
           obj == obj_sample(r.x_out, Now)
           pixel == r.obj_fifo.pixels[0]
           shows_obj == obj # None /\ ~ (regs.bg_enable /\ bg.color_idx # 0 /\ obj.bg_over_obj)
<1>1. bg.color_idx = color /\ bg.shade = palette_lookup(color, regs.bgp)
  BY EffectiveColour
<1>2. IF regs.obj_enable /\ pixel.color # 0
      THEN /\ r.obj_fifo.count > 0 /\ obj # None
           /\ obj.bg_over_obj = pixel.bg_over_obj
           /\ obj.shade = palette_lookup(pixel.color, IF pixel.palette = 1 THEN regs.obp1
                                                      ELSE regs.obp0)
      ELSE obj = None
  BY ObjectOnTop
<1>3. PixelResult(r.x_out, Now).shade =
        IF shows_obj THEN obj.shade ELSE IF regs.bg_enable THEN bg.shade ELSE 0
  BY NowFields DEF PixelResult, EffectiveBg
<1>4. obj_enabled <=> regs.obj_enable
  BY LinkedFields
<1> HIDE DEF bg, obj, pixel
<1>5. mix_bg_obj_pixel(color, obj_enabled /\ r.obj_fifo.count > 0, pixel) =
        IF /\ regs.obj_enable /\ (obj_enabled /\ r.obj_fifo.count > 0) /\ pixel.color # 0
           /\ ~ (regs.bg_enable /\ color # 0 /\ pixel.bg_over_obj)
        THEN palette_lookup(pixel.color, IF pixel.palette = 1 THEN regs.obp1 ELSE regs.obp0)
        ELSE IF regs.bg_enable THEN palette_lookup(color, regs.bgp) ELSE 0
  BY DEF mix_bg_obj_pixel
<1>6. mix_bg_obj_pixel(color, obj_enabled /\ r.obj_fifo.count > 0, pixel)
        = PixelResult(r.x_out, Now).shade
  BY <1>1, <1>2, <1>3, <1>4, <1>5
<1> QED
  BY <1>6 DEF pixel

(***************************** a dot, all of it ****************************)
WindowLineOK(r) == r.window_line = (counted + CarryOf(r.window = "Active")) % 256
RightPixel(out, x) == out.pixel = <<>> \/ out.pixel = <<PixelResult(x, Now).shade>>

DotOK(out, x) ==
    /\ DrawingOK(Scanline, out.render, out.req) /\ WindowLineOK(out.render)
    /\ Resting(out.render) /\ RightPixel(out, x)

\* The dot in which the window begins: the queue starts again at its first
\* column, and no fine scroll is left to throw away.
LEMMA WindowDot ==
    ASSUME Linked, WindowInside(Scanline.regs), NEW r, DrawingOK(Scanline, r, reply),
           WindowLineOK(r), r.fetcher.source # "Object", WindowBegins(r),
           obj_profile_enabled => r.stall_dots = 0, NEW x,
           NEW out, out = BackgroundDot(r, FALSE)
    PROVE  DotOK(out, x)
<1> DEFINE s == Scanline
           v == out.render
           f == restart_window_fetcher(r.window_line)
           stall == IF obj_profile_enabled THEN r.stall_dots + 6 ELSE 6
           objs == IF ~ obj_enabled THEN empty_obj_fifo ELSE r.obj_fifo
           line == Low8(r.window_line + 1)
<1>1. r \in Renders /\ QueueOK(s, r) /\ WindowOK(s, r) /\ FetchedOK(s, r) /\ SlotsOK(s, r)
  BY DEF DrawingOK
<1>2. /\ r.x_out \in 0 .. SCREEN_WIDTH /\ r.x_out \in Int /\ r.window_line \in 0 .. 255
      /\ r.discard \in 0 .. 7 /\ r.stall_dots \in 0 .. 6 /\ r.obj_fifo \in ObjQueues
  BY <1>1, SpatialAssumption DEF Renders, Bytes, ObjQueues
<1>3. /\ s.regs \in PpuRegisters /\ s.ly \in Nat /\ s.window_line_counter \in Nat
      /\ s.oam \in ObjectTable
  BY ScanlineFields DEF Linked
<1>4. /\ regs.wx = s.regs.wx /\ s.regs.wx \in 0 .. 255 /\ s.regs.scx \in 0 .. 255
  BY <1>3, LinkedFields DEF PpuRegisters, Bytes
<1>5. /\ r.window = "Armed" /\ Windowed(s) /\ r.x_out + 7 = s.regs.wx
      /\ r.window_line = s.window_line_counter % 256
  <2>1. r.window = "Armed" /\ r.x_out + 7 >= s.regs.wx
    BY <1>4 DEF WindowBegins, window_triggered
  <2>2. Windowed(s) /\ r.x_out + 7 <= s.regs.wx /\ r.window_line = s.window_line_counter % 256
    BY <1>1, <2>1 DEF WindowOK
  <2> QED
    BY <1>2, <1>4, <2>1, <2>2
<1>6. r.discard = 0
  <2> SUFFICES ASSUME r.discard > 0 PROVE FALSE
    BY <1>2
  <2>1. r.x_out = 0 /\ r.discard <= s.regs.scx % 8
    BY <1>1 DEF WindowOK
  <2>2. s.regs.wx = 7
    BY <1>5, <2>1
  <2>3. s.regs.scx % 8 = 0
    BY <1>5, <2>2 DEF WindowInside, Windowed
  <2> QED
    BY <1>2, <2>1, <2>3
<1>7. /\ out.req = NoReply /\ out.pixel = <<>>
      /\ v = [r EXCEPT !.window = "Active", !.window_line = line, !.fetcher = f,
                       !.stall_dots = stall, !.bg_fifo = <<>>, !.discard = r.discard,
                       !.obj_fifo = objs, !.x_out = r.x_out]
  BY <1>1, BeginningRender
<1>8. /\ f \in Fetchers /\ f.source = "Window" /\ f.map_x = 0
      /\ f.map_y = (r.window_line \div 8) % 32 /\ f.row = r.window_line % 8
      /\ f.step = "GetTile" /\ ~ f.pending
  <2>1. PICK my : my = (r.window_line \div 8) % 32
    OBVIOUS
  <2>2. PICK row : row = r.window_line % 8
    OBVIOUS
  <2>3. PICK mx : mx = 0
    OBVIOUS
  <2>4. f = fetcher_reset("Window", mx, my, row)
    BY <2>1, <2>2, <2>3 DEF restart_window_fetcher
  <2>5. PICK n \in 0 .. 255 : n = r.window_line
    BY <1>2
  <2>6. (n \div 8) % 32 \in 0 .. 31 /\ n % 8 \in 0 .. 7
    BY <2>5
  <2>7. mx \in 0 .. 31 /\ my \in 0 .. 31 /\ row \in 0 .. 7
    BY <2>1, <2>2, <2>3, <2>5, <2>6
  <2>8. PICK source : source = "Window"
    OBVIOUS
  <2>9. f = fetcher_reset(source, mx, my, row) /\ source \in {"Background", "Window", "Object"}
    BY <2>4, <2>8
  <2> HIDE DEF f
  <2> QED
    BY <2>1, <2>2, <2>3, <2>7, <2>8, <2>9, ResetFetcher
<1>9. stall \in 0 .. 6
  BY <1>2
<1>10. objs \in ObjQueues
  BY <1>2, EmptyQueue
<1>11. line \in Bytes
  BY <1>2 DEF Low8, Bytes
<1> HIDE DEF f, stall, objs, line
<1>12. /\ v \in Renders
       /\ v.window = "Active" /\ v.window_line = line /\ v.fetcher = f /\ v.bg_fifo = <<>>
       /\ v.discard = r.discard /\ v.obj_fifo = objs /\ v.x_out = r.x_out
       /\ v.line_objs = r.line_objs /\ v.fetched = r.fetched
  <2>1. <<>> \in Seq(0 .. 3)
    OBVIOUS
  <2>2. PICK window : window = "Active"
    OBVIOUS
  <2>3. PICK fifo : fifo = <<>>
    OBVIOUS
  <2>4. v = Moved(r, window, line, f, stall, fifo, r.discard, objs, r.x_out)
    BY <1>7, <2>2, <2>3 DEF Moved
  <2>5. objs \in [count : 0 .. 16, pixels : [0 .. 15 -> ObjPixels]]
    BY <1>10 DEF ObjQueues
  <2> HIDE DEF v
  <2>6. /\ window \in {"Inactive", "Armed", "Active"} /\ line \in Bytes
        /\ f \in Fetchers /\ stall \in 0 .. 6 /\ fifo \in Seq(0 .. 3)
        /\ r.discard \in 0 .. 7 /\ r.x_out \in 0 .. SCREEN_WIDTH
    BY <1>2, <1>8, <1>9, <1>11, <2>1, <2>2, <2>3
  <2>7. /\ v.window = window /\ v.window_line = line /\ v.fetcher = f /\ v.bg_fifo = fifo
        /\ v.discard = r.discard /\ v.obj_fifo = objs /\ v.x_out = r.x_out
        /\ v.line_objs = r.line_objs /\ v.fetched = r.fetched /\ v \in Renders
    BY <1>1, <2>4, <2>5, <2>6, RenderExcept
  <2> QED
    BY <2>2, <2>3, <2>7
<1> HIDE DEF v
<1>13. QueueOK(s, v)
  <2>1. Layer(v) = "Window" /\ TileFetcher(v) = f /\ v.bg_fifo = <<>>
    BY <1>8, <1>12 DEF Layer, TileFetcher
  <2>2. HeadColumn(s, v) = 0
    BY <1>2, <1>4, <1>5, <1>12 DEF HeadColumn
  <2>3. Fetching(s, f, 0)
    <3>1. LayerLine(s, "Window") = r.window_line
      BY <1>5 DEF LayerLine
    <3>2. PICK n \in 0 .. 255 : n = r.window_line
      BY <1>2
    <3>3. (n \div 8) % 32 = n \div 8
      OBVIOUS
    <3>4. MapColumn(s, "Window", 0) = 0
      BY DEF MapColumn
    <3> QED
      BY <1>8, <3>1, <3>2, <3>3, <3>4 DEF Fetching
  <2>4. 0 + Len(<<>>) = 8 * 0
    OBVIOUS
  <2>5. \E tile \in Nat : HeadColumn(s, v) + Len(v.bg_fifo) = 8 * tile /\ Fetching(s, f, tile)
    BY <2>1, <2>2, <2>3, <2>4
  <2>6. \A i \in 1 .. Len(v.bg_fifo) : FALSE
    BY <2>1
  <2> QED
    BY <1>8, <2>1, <2>2, <2>5, <2>6 DEF QueueOK, QueueHolds
<1>14. WindowOK(s, v)
  <2>1. v.x_out + 7 >= s.regs.wx
    BY <1>2, <1>4, <1>5, <1>12
  <2>2. r.discard <= s.regs.scx % 8 /\ (r.discard > 0 => r.x_out = 0)
    BY <1>1 DEF WindowOK
  <2> QED
    BY <1>5, <1>6, <1>12, <2>1, <2>2 DEF WindowOK
<1>15. FetchedOK(s, v)
  BY <1>1, <1>12, FetchedStays
<1>16. SlotsOK(s, v)
  <2>1. CASE obj_enabled
    BY <1>1, <1>12, <2>1, SlotsStay DEF objs
  <2>2. CASE ~ obj_enabled
    <3>1. LineObjs(s) = {}
      BY <2>2, LinkedFields DEF LineObjs
    <3> QED
      BY <1>12, <2>2, <3>1, NoObjects DEF objs
  <2> QED
    BY <2>1, <2>2
<1>17. DrawingOK(s, v, out.req)
  <2>1. NoReply \in Replies
    BY DEF NoReply, Replies, Bytes
  <2>2. Answering(s, v.fetcher, NoReply) /\ v.fetcher.source # "Object"
    BY <1>8, <1>12 DEF Answering
  <2> QED
    BY <1>7, <1>12, <1>13, <1>14, <1>15, <1>16, <2>1, <2>2 DEF DrawingOK
<1>18. WindowLineOK(v)
  <2>1. counted \in Nat
    BY DEF Linked, LineTypeOK
  <2>2. r.window_line = (counted + 0) % 256
    BY <1>5 DEF WindowLineOK, CarryOf
  <2>3. ((((counted + 0) % 256) + 1) % 256) = (counted + 1) % 256
    BY <2>1
  <2>4. v.window_line = (counted + 1) % 256
    BY <1>12, <2>2, <2>3 DEF line, Low8
  <2> QED
    BY <1>12, <2>4 DEF WindowLineOK, CarryOf
<1>19. Resting(v)
  BY <1>8, <1>12 DEF Resting
<1>20. RightPixel(out, x)
  BY <1>7 DEF RightPixel
<1> QED
  BY <1>17, <1>18, <1>19, <1>20 DEF DotOK, v

\* Every other dot: the fetcher moves, and the head of the queue is thrown away
\* for the fine scroll or becomes the pixel.
LEMMA OrdinaryDot ==
    ASSUME Linked, regs \in PpuRegisters, reply \in Replies, NEW r,
           DrawingOK(Scanline, r, reply), WindowLineOK(r), r.fetcher.source # "Object",
           ~ WindowBegins(r), Caught(Scanline, r), r.x_out < SCREEN_WIDTH,
           obj_profile_enabled => r.stall_dots = 0,
           NEW out, out = BackgroundDot(r, FALSE)
    PROVE  DotOK(out, r.x_out)
<1> DEFINE s == Scanline
           v == out.render
           layer == Layer(r)
           head == HeadColumn(s, r)
<1>1. r \in Renders /\ QueueOK(s, r) /\ WindowOK(s, r) /\ FetchedOK(s, r) /\ SlotsOK(s, r)
      /\ Answering(s, r.fetcher, reply)
  BY DEF DrawingOK
<1>2. /\ r.x_out \in 0 .. SCREEN_WIDTH /\ r.x_out \in Int /\ SCREEN_WIDTH \in Int
      /\ r.discard \in 0 .. 7 /\ r.stall_dots \in 0 .. 6 /\ r.obj_fifo \in ObjQueues
      /\ r.fetcher \in Fetchers /\ r.bg_fifo \in Seq(0 .. 3)
      /\ r.window \in {"Inactive", "Armed", "Active"} /\ r.window_line \in Bytes
  BY <1>1, SpatialAssumption DEF Renders, ObjQueues
<1>3. /\ s.regs \in PpuRegisters /\ s.oam \in ObjectTable
  BY ScanlineFields DEF Linked
<1>4. /\ regs.wx = s.regs.wx /\ s.regs.wx \in 0 .. 255 /\ s.regs.scx \in 0 .. 255
  BY <1>3, LinkedFields DEF PpuRegisters, Bytes
<1>5. PICK fetched : fetched = advance_bg_fetcher(r.fetcher, r.bg_fifo)
  OBVIOUS
<1>6. PICK fifo : fifo = r.bg_fifo \o fetched.push
  OBVIOUS
<1>7. PICK popped : popped = pop_bg_fifo(fifo, r.discard)
  OBVIOUS
<1>8. /\ fetched.fetcher \in Fetchers /\ fetched.req \in Replies
      /\ Answering(s, fetched.fetcher, fetched.req) /\ fifo \in Seq(0 .. 3)
      /\ QueueHolds(s, layer, head, fifo, fetched.fetcher)
  <2>1. QueueHolds(s, layer, head, r.bg_fifo, r.fetcher)
    BY <1>1 DEF QueueOK, TileFetcher
  <2> HIDE DEF s, layer, head
  <2> QED
    BY <1>1, <1>2, <1>5, <1>6, <2>1, PushKept DEF s
<1>9. fetched.fetcher.source = layer /\ head \in Nat
      /\ layer \in {"Background", "Window"} /\ (layer = "Window" <=> r.window = "Active")
  BY <1>8 DEF QueueHolds, Layer
<1>22. PICK stall : stall = IF obj_profile_enabled THEN r.stall_dots + 0 ELSE 0
  OBVIOUS
<1>23. PICK objs : objs = (IF ~ obj_enabled THEN empty_obj_fifo
                           ELSE IF popped.pixel_valid THEN pop_obj_fifo(r.obj_fifo)
                           ELSE r.obj_fifo)
  OBVIOUS
<1>24. PICK next : next = IF popped.pixel_valid THEN r.x_out + 1 ELSE r.x_out
  OBVIOUS
<1>10. /\ out.req = fetched.req
       /\ out.pixel = IF popped.pixel_valid
                      THEN <<mix_bg_obj_pixel(Head(fifo), obj_enabled /\ r.obj_fifo.count > 0,
                                              r.obj_fifo.pixels[0])>>
                      ELSE <<>>
       /\ v = Moved(r, r.window, r.window_line, fetched.fetcher, stall, popped.fifo,
                    popped.discard, objs, next)
  <2>1. step_window_state(r) =
          [state |-> r.window, window_line |-> r.window_line, restart |-> FALSE]
    BY DEF WindowBegins, step_window_state
  <2> QED
    BY <1>1, <1>5, <1>6, <1>7, <1>22, <1>23, <1>24, <2>1 DEF BackgroundDot, Moved
<1>11. stall = 0
  BY <1>2, <1>22
<1>12. /\ popped.fifo = (IF fifo = <<>> THEN fifo ELSE Tail(fifo))
       /\ popped.pixel_valid \in BOOLEAN
       /\ popped.pixel_valid <=> (fifo # <<>> /\ r.discard = 0)
       /\ popped.discard = IF fifo # <<>> /\ r.discard > 0 THEN r.discard - 1 ELSE r.discard
  BY <1>7 DEF pop_bg_fifo
<1>13. fifo # <<>> =>
         /\ Tail(fifo) \in Seq(0 .. 3) /\ Head(fifo) = Colour(s, layer, head)
         /\ QueueHolds(s, layer, head + 1, Tail(fifo), fetched.fetcher)
  <2> HIDE DEF s, layer, head
  <2> QED
    BY <1>8, PopKept
<1>14. /\ v.window = r.window /\ v.window_line = r.window_line /\ v.fetcher = fetched.fetcher
       /\ v.stall_dots = 0 /\ v.bg_fifo = popped.fifo /\ v.discard = popped.discard
       /\ v.obj_fifo = objs /\ v.x_out = next
       /\ v.line_objs = r.line_objs /\ v.fetched = r.fetched
       /\ (/\ popped.fifo \in Seq(0 .. 3) /\ popped.discard \in 0 .. 7
           /\ objs \in ObjQueues /\ next \in 0 .. SCREEN_WIDTH) => v \in Renders
  <2> HIDE DEF v
  <2>1. stall \in 0 .. 6
    BY <1>11
  <2>2. PICK window : window = r.window
    OBVIOUS
  <2>3. PICK line : line = r.window_line
    OBVIOUS
  <2>4. PICK f : f = fetched.fetcher
    OBVIOUS
  <2>5. PICK bg : bg = popped.fifo
    OBVIOUS
  <2>6. PICK discard : discard = popped.discard
    OBVIOUS
  <2>7. v = Moved(r, window, line, f, stall, bg, discard, objs, next)
    BY <1>10, <2>2, <2>3, <2>4, <2>5, <2>6
  <2>8. /\ v.window = window /\ v.window_line = line /\ v.fetcher = f
        /\ v.stall_dots = stall /\ v.bg_fifo = bg /\ v.discard = discard
        /\ v.obj_fifo = objs /\ v.x_out = next
        /\ v.line_objs = r.line_objs /\ v.fetched = r.fetched
    BY <1>1, <2>7, RenderExcept
  <2>9. ASSUME bg \in Seq(0 .. 3), discard \in 0 .. 7, next \in 0 .. SCREEN_WIDTH, objs \in ObjQueues
        PROVE  v \in Renders
    <3>1. /\ window \in {"Inactive", "Armed", "Active"} /\ line \in Bytes /\ f \in Fetchers
          /\ objs \in [count : 0 .. 16, pixels : [0 .. 15 -> ObjPixels]]
      BY <1>2, <1>8, <2>2, <2>3, <2>4, <2>9 DEF ObjQueues
    <3> QED
      BY <1>1, <2>1, <2>7, <2>9, <3>1, RenderExcept
  <2> QED
    BY <1>11, <2>2, <2>3, <2>4, <2>5, <2>6, <2>8, <2>9
<1> HIDE DEF v
<1>15. TileFetcher(v) = fetched.fetcher /\ Layer(v) = layer
  BY <1>9, <1>14 DEF TileFetcher, Layer
<1>16. LineObjs(s) = {} \/ obj_enabled
  BY LinkedFields DEF LineObjs
<1>17. obj_enabled \in BOOLEAN
  BY LinkedFields

\* the colours of the queue, and the object pixels above them
<1>18. ASSUME v \in Renders, QueueOK(s, v), WindowOK(s, v), FetchedOK(s, v), SlotsOK(s, v),
              RightPixel(out, r.x_out)
       PROVE  DotOK(out, r.x_out)
  <2>1. DrawingOK(s, v, out.req)
    BY <1>8, <1>9, <1>10, <1>14, <1>18 DEF DrawingOK
  <2>2. WindowLineOK(v)
    BY <1>14 DEF WindowLineOK
  <2>3. Resting(v)
    BY <1>14 DEF Resting
  <2> QED
    BY <1>18, <2>1, <2>2, <2>3 DEF DotOK, v
<1>19. CASE ~ popped.pixel_valid
  <2>1. next = r.x_out /\ objs = (IF ~ obj_enabled THEN empty_obj_fifo ELSE r.obj_fifo)
        /\ out.pixel = <<>>
    BY <1>10, <1>19, <1>23, <1>24
  <2>2. objs \in ObjQueues
    BY <1>2, <2>1, EmptyQueue
  <2>3. FetchedOK(s, v)
    BY <1>1, <1>14, <2>1, FetchedStays
  <2>4. SlotsOK(s, v)
    <3>1. CASE obj_enabled
      BY <1>1, <1>14, <2>1, <3>1, SlotsStay
    <3>2. CASE ~ obj_enabled
      BY <1>14, <1>16, <2>1, <3>2, NoObjects
    <3> QED
      BY <3>1, <3>2
  <2>5. RightPixel(out, r.x_out)
    BY <2>1 DEF RightPixel
  <2>6. CASE fifo = <<>>
    <3>1. popped.fifo = fifo /\ popped.discard = r.discard
      BY <1>12, <2>6
    <3>2. v \in Renders
      BY <1>2, <1>8, <1>14, <2>1, <2>2, <3>1
    <3>3. HeadColumn(s, v) = head
      BY <1>14, <2>1, <3>1 DEF HeadColumn
    <3>4. QueueOK(s, v)
      BY <1>8, <1>14, <1>15, <3>1, <3>3 DEF QueueOK
    <3>5. WindowOK(s, v)
      BY <1>1, <1>14, <2>1, <3>1 DEF WindowOK
    <3> QED
      BY <1>18, <2>3, <2>4, <2>5, <3>2, <3>4, <3>5
  <2>7. CASE fifo # <<>>
    <3>1. r.discard > 0 /\ popped.fifo = Tail(fifo) /\ popped.discard = r.discard - 1
      BY <1>2, <1>12, <1>19, <2>7
    <3>2. v \in Renders
      BY <1>2, <1>13, <1>14, <2>1, <2>2, <2>7, <3>1
    <3>3. r.window # "Active" /\ r.x_out = 0 /\ r.discard <= s.regs.scx % 8
      BY <1>1, <3>1 DEF WindowOK
    <3>4. HeadColumn(s, v) = head + 1
      <4>1. s.regs.scx % 8 \in 0 .. 7
        BY <1>4
      <4>2. head = r.x_out + (s.regs.scx % 8) - r.discard
        BY <3>3 DEF HeadColumn
      <4>3. HeadColumn(s, v) = r.x_out + (s.regs.scx % 8) - (r.discard - 1)
        BY <1>14, <2>1, <3>1, <3>3 DEF HeadColumn
      <4> HIDE DEF head
      <4> QED
        BY <1>2, <4>1, <4>2, <4>3
    <3>5. QueueOK(s, v)
      BY <1>13, <1>14, <1>15, <2>7, <3>1, <3>4 DEF QueueOK
    <3>6. WindowOK(s, v)
      <4>1. s.regs.scx % 8 \in 0 .. 7
        BY <1>4
      <4>2. v.discard <= s.regs.scx % 8 /\ (v.discard > 0 => v.x_out = 0)
        BY <1>2, <1>14, <2>1, <3>1, <3>3, <4>1
      <4> QED
        BY <1>1, <1>14, <2>1, <3>3, <4>2 DEF WindowOK
    <3> QED
      BY <1>18, <2>3, <2>4, <2>5, <3>2, <3>5, <3>6
  <2> QED
    BY <2>6, <2>7
<1>20. CASE popped.pixel_valid
  <2>1. fifo # <<>> /\ r.discard = 0 /\ popped.fifo = Tail(fifo) /\ popped.discard = 0
    BY <1>2, <1>12, <1>20
  <2>2. /\ next = r.x_out + 1
        /\ objs = (IF ~ obj_enabled THEN empty_obj_fifo ELSE pop_obj_fifo(r.obj_fifo))
        /\ out.pixel = <<mix_bg_obj_pixel(Head(fifo), obj_enabled /\ r.obj_fifo.count > 0,
                                          r.obj_fifo.pixels[0])>>
    BY <1>10, <1>20, <1>23, <1>24
  <2>3. FetchedOK(s, v)
    BY <1>1, <1>3, <1>14, <2>2, FetchedOn
  <2>4. SlotsOK(s, v) /\ objs \in ObjQueues
    <3>1. CASE obj_enabled
      <4>1. v.obj_fifo = pop_obj_fifo(r.obj_fifo) /\ v.obj_fifo = objs
        BY <1>14, <2>2, <3>1
      <4> QED
        BY <1>1, <1>3, <1>14, <2>2, <4>1, SlotsPopped
    <3>2. CASE ~ obj_enabled
      BY <1>14, <1>16, <2>2, <3>2, NoObjects, EmptyQueue
    <3> QED
      BY <3>1, <3>2
  <2>5. RightPixel(out, r.x_out)
    <3>1. PICK color : color = Head(fifo)
      OBVIOUS
    <3>2. color = Colour(Scanline, Layer(r), HeadColumn(Scanline, r))
      BY <1>13, <2>1, <3>1
    <3>3. mix_bg_obj_pixel(color, obj_enabled /\ r.obj_fifo.count > 0, r.obj_fifo.pixels[0])
            = PixelResult(r.x_out, Now).shade
      BY <1>1, <2>1, <3>2, MixedPixel
    <3> QED
      BY <2>2, <3>1, <3>3 DEF RightPixel
  <2>6. next \in 0 .. SCREEN_WIDTH
    BY <1>2, <2>2
  <2>7. v \in Renders
    BY <1>13, <1>14, <2>1, <2>4, <2>6
  <2>11. PICK n \in Int : n = r.x_out /\ v.x_out = n + 1
    BY <1>2, <1>14, <2>2
  <2>12. PICK w \in 0 .. 255 : w = s.regs.wx
    BY <1>4
  <2>8. HeadColumn(s, v) = head + 1
    <3>1. s.regs.scx % 8 \in 0 .. 7
      BY <1>4
    <3>2. CASE r.window = "Active"
      <4>1. head = n - (w - 7)
        BY <2>11, <2>12, <3>2 DEF HeadColumn
      <4>2. HeadColumn(s, v) = n + 1 - (w - 7)
        <5>1. v.window = "Active" /\ v.x_out = n + 1
          BY <1>14, <2>11, <3>2
        <5> QED
          BY <2>12, <5>1 DEF HeadColumn
      <4> HIDE DEF head
      <4> QED
        BY <4>1, <4>2
    <3>3. CASE r.window # "Active"
      <4>1. head = r.x_out + (s.regs.scx % 8) - 0
            /\ HeadColumn(s, v) = r.x_out + 1 + (s.regs.scx % 8) - 0
        BY <1>14, <2>1, <2>2, <3>3 DEF HeadColumn
      <4> HIDE DEF head
      <4> QED
        BY <1>2, <3>1, <4>1
    <3> HIDE DEF head
    <3> QED
      BY <3>2, <3>3
  <2>9. QueueOK(s, v)
    BY <1>13, <1>14, <1>15, <2>1, <2>8 DEF QueueOK
  <2>10. WindowOK(s, v)
    <3>1. r.window = "Armed" => v.x_out + 7 <= s.regs.wx
      <4>1. r.window = "Armed" => ~ (r.x_out + 7 >= s.regs.wx)
        BY <1>4 DEF WindowBegins, window_triggered
      <4> QED
        BY <2>11, <2>12, <4>1
    <3>2. r.window = "Active" => v.x_out + 7 >= s.regs.wx
      <4>1. r.window = "Active" => r.x_out + 7 >= s.regs.wx
        BY <1>1 DEF WindowOK
      <4> QED
        BY <2>11, <2>12, <4>1
    <3>3. v.discard <= s.regs.scx % 8 /\ v.discard = 0
      <4>1. s.regs.scx % 8 \in 0 .. 7
        BY <1>4
      <4>2. v.discard = 0
        BY <1>14, <2>1
      <4> QED
        BY <4>1, <4>2
    <3> QED
      BY <1>1, <1>14, <3>1, <3>2, <3>3 DEF WindowOK
  <2> QED
    BY <1>18, <2>3, <2>4, <2>5, <2>7, <2>9, <2>10
<1>21. popped.pixel_valid \in BOOLEAN
  BY <1>12
<1> QED
  BY <1>19, <1>20, <1>21

(* A dot that draws: the pixel it gives is the pixel of the reference, and    *)
(* the queue, the window, the slots and the fetched objects stay right.       *)
LEMMA BackgroundKept ==
    ASSUME Linked, regs \in PpuRegisters, WindowInside(Scanline.regs), reply \in Replies, NEW r,
           DrawingOK(Scanline, r, reply), WindowLineOK(r), r.fetcher.source # "Object",
           Caught(Scanline, r), r.x_out < SCREEN_WIDTH,
           obj_profile_enabled => r.stall_dots = 0
    PROVE  DotOK(BackgroundDot(r, FALSE), r.x_out)
<1>1. PICK out : out = BackgroundDot(r, FALSE)
  OBVIOUS
<1>2. PICK x : x = r.x_out
  OBVIOUS
<1>3. CASE WindowBegins(r)
  BY <1>1, <1>2, <1>3, WindowDot
<1>4. CASE ~ WindowBegins(r)
  BY <1>1, <1>4, OrdinaryDot
<1> QED
  BY <1>3, <1>4

(****************************** ranks of objects ***************************)
LEMMA RankStrict ==
    ASSUME NEW s, NEW i, i \in Nat, Meets(s, i), NEW j, j \in Nat, i < j
    PROVE  RankOf(s, i) < RankOf(s, j)
<1> DEFINE A == MeetBefore(s, i)
           B == MeetBefore(s, j)
<1>1. IsFiniteSet(0 .. j - 1)
  BY FS_Interval
<1>2. B \in SUBSET (0 .. j - 1) /\ A \cup {i} \subseteq B /\ i \notin A
  BY DEF MeetBefore
<1>3. IsFiniteSet(B)
  BY <1>1, <1>2, FS_Subset
<1>4. A \in SUBSET B /\ A \cup {i} \in SUBSET B
  BY <1>2
<1>5. IsFiniteSet(A) /\ Cardinality(A \cup {i}) <= Cardinality(B)
  BY <1>3, <1>4, FS_Subset
<1>6. Cardinality(A \cup {i}) = Cardinality(A) + 1
  BY <1>2, <1>5, FS_AddElement
<1>7. Cardinality(A) \in Nat /\ Cardinality(B) \in Nat
  BY <1>3, <1>5, FS_CardinalityType
<1> HIDE DEF A, B
<1>8. Cardinality(A) < Cardinality(B)
  BY <1>5, <1>6, <1>7
<1> QED
  BY <1>8 DEF A, B, RankOf

\* The rank of an object is a number.
LEMMA RankNatural ==
    ASSUME NEW s, NEW n, n \in Nat
    PROVE  RankOf(s, n) \in Nat /\ IsFiniteSet(MeetBefore(s, n))
<1>1. IsFiniteSet(0 .. n - 1)
  BY FS_Interval
<1>2. MeetBefore(s, n) \in SUBSET (0 .. n - 1)
  BY DEF MeetBefore
<1>3. IsFiniteSet(MeetBefore(s, n))
  BY <1>1, <1>2, FS_Subset
<1> QED
  BY <1>3, FS_CardinalityType DEF RankOf

\* What is known of an object of the line.
LEMMA LineObjFields ==
    ASSUME NEW s, s.oam \in ObjectTable, NEW i, i \in LineObjs(s)
    PROVE  /\ i \in 0 .. OAM_ENTRIES - 1 /\ i \in Nat /\ Meets(s, i) /\ s.regs.obj_enable
           /\ RankOf(s, i) \in Nat
           /\ s.oam[i].x \in 0 .. 255 /\ s.oam[i].y \in 0 .. 255
           /\ s.oam[i].tile \in Bytes /\ s.oam[i].flags \in Bytes
<1>1. i \in 0 .. OAM_ENTRIES - 1 /\ Meets(s, i) /\ s.regs.obj_enable
  BY DEF LineObjs, Chosen
<1>2. i \in Nat
  BY <1>1, SpatialAssumption
<1>3. RankOf(s, i) \in Nat
  BY <1>2, RankNatural
<1>4. s.oam[i] \in [y : Bytes, x : Bytes, tile : Bytes, flags : Bytes]
  BY <1>1 DEF ObjectTable
<1>5. s.oam[i].x \in Bytes /\ s.oam[i].y \in Bytes /\ s.oam[i].tile \in Bytes /\ s.oam[i].flags \in Bytes
  BY <1>4
<1> QED
  BY <1>1, <1>2, <1>3, <1>5 DEF Bytes

\* Objects of a line have different ranks, in the order of the table.
LEMMA RanksDiffer ==
    ASSUME NEW s, s.oam \in ObjectTable, NEW i, i \in LineObjs(s), NEW j, j \in LineObjs(s)
    PROVE  /\ RankOf(s, i) = RankOf(s, j) => i = j
           /\ RankOf(s, i) < RankOf(s, j) => i < j
<1>1. i \in Nat /\ j \in Nat /\ Meets(s, i) /\ Meets(s, j)
      /\ RankOf(s, i) \in Nat /\ RankOf(s, j) \in Nat
  BY LineObjFields
<1>2. i < j => RankOf(s, i) < RankOf(s, j)
  BY <1>1, RankStrict
<1>3. j < i => RankOf(s, j) < RankOf(s, i)
  BY <1>1, RankStrict
<1> QED
  BY <1>1, <1>2, <1>3

\* A set of ranks has a least one.
LEMMA LeastRank ==
    ASSUME NEW T, T \subseteq Nat, T # {}
    PROVE  \E x \in T : \A y \in T : x <= y
<1>1. IsWellFoundedOn(OpToRel(<, Nat), Nat)
  BY NatLessThanWellFounded
<1>2. PICK x \in T : \A y \in T : ~ (<<y, x>> \in OpToRel(<, Nat))
  BY <1>1, WFMin
<1>3. \A y \in T : ~ y < x
  BY <1>2 DEF OpToRel
<1> QED
  BY <1>3

(****************************** objects that are due ***********************)
LEMMA TicketFields ==
    ASSUME NEW s, NEW i
    PROVE  /\ TicketOf(s, i).oam_index = i /\ TicketOf(s, i).x = s.oam[i].x
           /\ TicketOf(s, i).y = s.oam[i].y /\ TicketOf(s, i).rank = RankOf(s, i)
BY DEF TicketOf

\* No object reaches into the left edge.
ClearOfEdge(s) == \A i \in LineObjs(s) : s.oam[i].x > 8

\* An object that is due begins at this very column.
LEMMA DueTicket ==
    ASSUME NEW s, s.oam \in ObjectTable, ClearOfEdge(s), NEW r, r \in Renders, FetchedOK(s, r),
           NEW t, t \in DueTickets(r)
    PROVE  \E i \in LineObjs(s) : /\ t = TicketOf(s, i) /\ RankOf(s, i) \notin r.fetched
                                  /\ s.oam[i].x - 8 = r.x_out
<1>1. t \in Tickets(r) /\ t.rank \notin r.fetched /\ r.x_out >= obj_trigger_x(t)
  BY DEF DueTickets, Tickets
<1>2. PICK i \in LineObjs(s) : t = TicketOf(s, i)
  BY <1>1 DEF FetchedOK
<1>3. t.x = s.oam[i].x /\ t.rank = RankOf(s, i)
  BY <1>2, TicketFields
<1>4. PICK a \in 0 .. 255 : a = s.oam[i].x
  BY LineObjFields
<1>5. PICK n \in Nat : n = r.x_out
  BY SpatialAssumption DEF Renders
<1>6. a > 8
  BY <1>4 DEF ClearOfEdge
<1>7. obj_trigger_x(t) = a - 8
  BY <1>3, <1>4, <1>6 DEF obj_trigger_x
<1>8. ~ (a - 8 < n)
  BY <1>1, <1>3, <1>4, <1>5 DEF FetchedOK
<1>9. n >= a - 8
  BY <1>1, <1>5, <1>7
<1>10. a - 8 = n
  BY <1>8, <1>9
<1> QED
  BY <1>1, <1>2, <1>3, <1>4, <1>5, <1>10

\* Of the due objects one comes first, and it is the one that is chosen.
LEMMA NextDue ==
    ASSUME NEW s, s.oam \in ObjectTable, ClearOfEdge(s), NEW r, r \in Renders, FetchedOK(s, r),
           DueTickets(r) # {}
    PROVE  next_due_line_obj_ticket(r) \in DueTickets(r)
<1> DEFINE D == DueTickets(r)
           ranks == {t.rank : t \in D}
<1>1. \A t \in D : \E i \in LineObjs(s) : t = TicketOf(s, i) /\ s.oam[i].x - 8 = r.x_out
  BY DueTicket
<1>2. \A t \in D : t.rank \in Nat
  <2> SUFFICES ASSUME NEW t \in D PROVE t.rank \in Nat
    OBVIOUS
  <2>1. PICK i \in LineObjs(s) : t = TicketOf(s, i)
    BY <1>1
  <2> QED
    BY <2>1, TicketFields, LineObjFields
<1>3. PICK first \in D : \A t \in D : first.rank <= t.rank
  <2>1. ranks \subseteq Nat /\ ranks # {}
    BY <1>2
  <2>2. PICK n \in ranks : \A m \in ranks : n <= m
    BY <2>1, LeastRank
  <2> QED
    BY <2>2
<1>4. ASSUME NEW t \in D
      PROVE  first = t \/ line_obj_ticket_precedes(first, t)
  <2>1. PICK i \in LineObjs(s) : first = TicketOf(s, i) /\ s.oam[i].x - 8 = r.x_out
    BY <1>1
  <2>2. PICK j \in LineObjs(s) : t = TicketOf(s, j) /\ s.oam[j].x - 8 = r.x_out
    BY <1>1
  <2>3. s.oam[i].x = s.oam[j].x
    <3>1. PICK a \in 0 .. 255, b \in 0 .. 255 : a = s.oam[i].x /\ b = s.oam[j].x
      BY LineObjFields
    <3>2. PICK n \in Nat : n = r.x_out
      BY SpatialAssumption DEF Renders
    <3>3. a - 8 = n /\ b - 8 = n
      BY <2>1, <2>2, <3>1, <3>2
    <3>4. a = b
      BY <3>3
    <3> QED
      BY <3>1, <3>4
  <2>4. first.x = t.x
    BY <2>1, <2>2, <2>3, TicketFields
  <2>5. first.rank = t.rank => first = t
    BY <2>1, <2>2, TicketFields, RanksDiffer
  <2>6. first.rank \in Nat /\ t.rank \in Nat /\ first.rank <= t.rank
    BY <1>2, <1>3
  <2> QED
    BY <2>4, <2>5, <2>6 DEF line_obj_ticket_precedes
<1>5. \E t \in D : \A u \in D : t = u \/ line_obj_ticket_precedes(t, u)
  BY <1>4
<1>6. next_due_line_obj_ticket(r) =
        CHOOSE t \in D : \A u \in D : t = u \/ line_obj_ticket_precedes(t, u)
  BY DEF next_due_line_obj_ticket
<1> HIDE DEF D
<1>7. (CHOOSE t \in D : \A u \in D : t = u \/ line_obj_ticket_precedes(t, u)) \in D
  BY <1>5, Zenon
<1> QED
  BY <1>6, <1>7 DEF D

\* Where nothing is due nothing is late.
LEMMA NothingDue ==
    ASSUME NEW s, s.oam \in ObjectTable, ClearOfEdge(s), NEW r, FetchedOK(s, r),
           LineObjs(s) = {} \/ DueTickets(r) = {}
    PROVE  Caught(s, r)
<1> SUFFICES ASSUME NEW i \in LineObjs(s), s.oam[i].x - 8 <= r.x_out
             PROVE  RankOf(s, i) \in r.fetched
  BY DEF Caught
<1> DEFINE t == TicketOf(s, i)
<1>1. t \in Tickets(r)
  BY DEF FetchedOK
<1>2. t.x = s.oam[i].x /\ t.rank = RankOf(s, i)
  BY TicketFields
<1>3. s.oam[i].x > 8
  BY DEF ClearOfEdge
<1>4. obj_trigger_x(t) = s.oam[i].x - 8
  BY <1>2, <1>3 DEF obj_trigger_x
<1> HIDE DEF t
<1>5. r.x_out >= obj_trigger_x(t)
  BY <1>4
<1> QED
  BY <1>1, <1>2, <1>5 DEF DueTickets, Tickets

(**************************** the fetch of an object ***********************)
LEMMA TicketTyped ==
    ASSUME NEW s, s.oam \in ObjectTable, NEW i, i \in LineObjs(s)
    PROVE  TicketOf(s, i) \in TicketSet
<1>1. i \in 0 .. OAM_ENTRIES - 1 /\ RankOf(s, i) \in Nat
      /\ s.oam[i].x \in Bytes /\ s.oam[i].y \in Bytes
  BY LineObjFields DEF Bytes
<1> QED
  BY <1>1 DEF TicketOf, TicketSet

Started(r, stall, ticket, resume, fetcher) ==
    [r EXCEPT !.stall_dots = stall, !.ticket = ticket, !.obj_flags = 0,
              !.bg_fetcher_resume = resume, !.fetcher = fetcher]

\* The fields of a render that the start of an object fetch changes.
LEMMA StartedRender ==
    ASSUME NEW r, r \in Renders, NEW stall, NEW ticket, NEW resume, NEW fetcher,
           NEW v, v = Started(r, stall, ticket, resume, fetcher)
    PROVE  /\ v.stall_dots = stall /\ v.ticket = ticket /\ v.bg_fetcher_resume = resume
           /\ v.fetcher = fetcher /\ v.x_out = r.x_out /\ v.window = r.window
           /\ v.window_line = r.window_line /\ v.discard = r.discard /\ v.line_objs = r.line_objs
           /\ v.fetched = r.fetched /\ v.bg_fifo = r.bg_fifo /\ v.obj_fifo = r.obj_fifo
           /\ (stall \in 0 .. 6 /\ ticket \in TicketSet /\ resume \in Fetchers /\ fetcher \in Fetchers)
                => v \in Renders
<1>1. 0 \in Bytes
  BY DEF Bytes
<1> QED
  BY <1>1 DEF Renders, Started

\* What is said of the queues does not look at what else the render holds.
SameQueues(v, r) ==
    /\ v.x_out = r.x_out /\ v.window = r.window /\ v.window_line = r.window_line
    /\ v.discard = r.discard /\ v.bg_fifo = r.bg_fifo

\* The queue and the window stay right when nothing of theirs changes.
LEMMA QueueStays ==
    ASSUME NEW s, NEW r, NEW v, SameQueues(v, r)
    PROVE  /\ WindowOK(s, r) => WindowOK(s, v)
           /\ WindowLineOK(r) => WindowLineOK(v)
           /\ Layer(v) = Layer(r) /\ HeadColumn(s, v) = HeadColumn(s, r)
           /\ TileFetcher(v) = TileFetcher(r) /\ QueueOK(s, r) => QueueOK(s, v)
<1>1. Layer(v) = Layer(r) /\ HeadColumn(s, v) = HeadColumn(s, r) /\ v.bg_fifo = r.bg_fifo
  BY DEF Layer, HeadColumn, SameQueues
<1>2. WindowOK(s, r) => WindowOK(s, v)
  BY DEF WindowOK, SameQueues
<1>3. WindowLineOK(r) => WindowLineOK(v)
  BY DEF WindowLineOK, SameQueues
<1>4. TileFetcher(v) = TileFetcher(r) /\ QueueOK(s, r) => QueueOK(s, v)
  BY <1>1 DEF QueueOK
<1> QED
  BY <1>1, <1>2, <1>3, <1>4

\* The fetch of the next object takes the tile fetcher over, which keeps the
\* answer it has just received.
LEMMA StartKept ==
    ASSUME Linked, NEW r, DrawingOK(Scanline, r, reply), reply \in Replies, WindowLineOK(r),
           r.fetcher.source # "Object", DueTickets(r) # {}, ClearOfEdge(Scanline),
           NEW v, v = start_live_obj_fetch(r)
    PROVE  /\ DrawingOK(Scanline, v, reply) /\ WindowLineOK(v) /\ v.x_out = r.x_out
           /\ v.stall_dots = r.stall_dots /\ v.fetcher.source = "Object" /\ ~ v.fetcher.pending
<1> DEFINE s == Scanline
<1>1. /\ r \in Renders /\ QueueOK(s, r) /\ WindowOK(s, r) /\ FetchedOK(s, r) /\ SlotsOK(s, r)
      /\ Answering(s, r.fetcher, reply)
  BY DEF DrawingOK
<1>2. s.oam \in ObjectTable
  BY ScanlineFields DEF Linked
<1>3. PICK ticket : ticket = next_due_line_obj_ticket(r)
  OBVIOUS
<1>4. PICK i \in LineObjs(s) : /\ ticket = TicketOf(s, i) /\ RankOf(s, i) \notin r.fetched
                               /\ s.oam[i].x - 8 = r.x_out
  <2>1. ticket \in DueTickets(r)
    BY <1>1, <1>2, <1>3, NextDue
  <2> QED
    BY <1>1, <1>2, <2>1, DueTicket
<1>5. ticket \in TicketSet /\ ticket.x # 0
  <2>1. s.oam[i].x > 8 /\ s.oam[i].x \in 0 .. 255
    BY <1>2, LineObjFields DEF ClearOfEdge
  <2>2. ticket.x = s.oam[i].x
    BY <1>4, TicketFields
  <2> QED
    BY <1>2, <1>4, <2>1, <2>2, TicketTyped
<1>6. PICK resume : resume = capture_bg_fetcher_resume_state(r.fetcher)
  OBVIOUS
<1>7. PICK tile \in Nat : HeadColumn(s, r) + Len(r.bg_fifo) = 8 * tile /\ Fetching(s, r.fetcher, tile)
  BY <1>1 DEF QueueOK, QueueHolds, TileFetcher
<1>8. r.fetcher \in Fetchers /\ r.stall_dots \in 0 .. 6
  BY <1>1 DEF Renders
<1>9. /\ resume \in Fetchers /\ resume.source = r.fetcher.source /\ Fetching(s, resume, tile)
      /\ resume.pending => reply.to # "BgFetcher" /\ resume = r.fetcher
  BY <1>1, <1>6, <1>7, <1>8, CaptureKept
<1>10. PICK fetcher : fetcher = [initial_fetcher_state EXCEPT !.source = "Object"]
  OBVIOUS
<1>11. fetcher \in Fetchers /\ fetcher.source = "Object" /\ ~ fetcher.pending /\ fetcher.step = "GetTile"
  <2>1. 0 \in Bytes
    BY DEF Bytes
  <2>2. fetcher = [source |-> "Object", step |-> "GetTile", step_phase |-> FALSE, pending |-> FALSE,
                   tile_id |-> 0, tile_lo |-> 0, tile_hi |-> 0, map_x |-> 0, map_y |-> 0, row |-> 0,
                   pending_push |-> FALSE]
    BY <1>10 DEF initial_fetcher_state
  <2> QED
    BY <2>1, <2>2 DEF Fetchers
<1>12. PICK stall : stall = r.stall_dots
  OBVIOUS
<1>13. v = Started(r, stall, ticket, resume, fetcher)
  <2>1. r.stall_dots + (IF ticket.x = 0 THEN 1 ELSE 0) = stall
    BY <1>5, <1>8, <1>12
  <2>2. start_live_obj_fetch(r) =
          [r EXCEPT !.stall_dots = r.stall_dots + (IF ticket.x = 0 THEN 1 ELSE 0),
                    !.ticket = ticket, !.obj_flags = 0,
                    !.bg_fetcher_resume = resume, !.fetcher = fetcher]
    BY <1>1, <1>3, <1>6, <1>10 DEF start_live_obj_fetch
  <2> QED
    BY <2>1, <2>2 DEF Started
<1>14. /\ v.stall_dots = stall /\ v.ticket = ticket /\ v.bg_fetcher_resume = resume
       /\ v.fetcher = fetcher /\ v.x_out = r.x_out /\ v.window = r.window
       /\ v.window_line = r.window_line /\ v.discard = r.discard /\ v.line_objs = r.line_objs
       /\ v.fetched = r.fetched /\ v.bg_fifo = r.bg_fifo /\ v.obj_fifo = r.obj_fifo
       /\ v \in Renders
  BY <1>1, <1>5, <1>8, <1>9, <1>11, <1>12, <1>13, StartedRender
<1>15. SameQueues(v, r)
  BY <1>14 DEF SameQueues
<1>16. WindowOK(s, v) /\ WindowLineOK(v) /\ Layer(v) = Layer(r) /\ HeadColumn(s, v) = HeadColumn(s, r)
  BY <1>1, <1>15, QueueStays
<1>17. QueueOK(s, v)
  <2>1. TileFetcher(v) = resume /\ TileFetcher(r) = r.fetcher
    BY <1>11, <1>14 DEF TileFetcher
  <2>2. resume.source = Layer(v)
    BY <1>1, <1>9, <1>16, <2>1 DEF QueueOK, QueueHolds
  <2>3. \E n \in Nat : HeadColumn(s, v) + Len(v.bg_fifo) = 8 * n /\ Fetching(s, resume, n)
    BY <1>7, <1>9, <1>14, <1>16
  <2>4. HeadColumn(s, v) \in Nat /\ \A k \in 1 .. Len(v.bg_fifo) :
          v.bg_fifo[k] = Colour(s, Layer(v), HeadColumn(s, v) + k - 1)
    BY <1>1, <1>14, <1>16 DEF QueueOK, QueueHolds
  <2> QED
    BY <2>1, <2>2, <2>3, <2>4 DEF QueueOK, QueueHolds
<1>18. FetchedOK(s, v) /\ SlotsOK(s, v)
  BY <1>1, <1>14, FetchedStays, SlotsStay
<1>19. ObjFetching(s, v, reply, i)
  BY <1>4, <1>11, <1>14 DEF ObjFetching
<1>20. Answering(s, resume, NoReply)
  BY <1>1, <1>9 DEF Answering, NoReply
<1>21. DrawingOK(s, v, reply)
  BY <1>11, <1>14, <1>16, <1>17, <1>18, <1>19, <1>20 DEF DrawingOK
<1> QED
  BY <1>11, <1>12, <1>14, <1>16, <1>21

\* What an object does to the line before the dot proper.
LEMMA ObjectsKept ==
    ASSUME Linked, NEW r, DrawingOK(Scanline, r, reply), reply \in Replies, WindowLineOK(r),
           Resting(r), ClearOfEdge(Scanline), NEW t, t = WithObjects(r)
    PROVE  /\ DrawingOK(Scanline, t, reply) /\ WindowLineOK(t) /\ Resting(t) /\ t.x_out = r.x_out
           /\ t.fetcher.source = "Object" => obj_enabled
           /\ t.fetcher.source # "Object" => Caught(Scanline, t) /\ t = r
<1>1. Scanline.oam \in ObjectTable /\ r \in Renders /\ FetchedOK(Scanline, r)
  BY ScanlineFields DEF Linked, DrawingOK
<1>2. regs.obj_enable = Scanline.regs.obj_enable /\ regs.obj_enable = obj_enabled
      /\ obj_enabled \in BOOLEAN
  BY LinkedFields
<1>3. r.fetcher.source = "Object" => obj_enabled
  <2> SUFFICES ASSUME r.fetcher.source = "Object" PROVE obj_enabled
    OBVIOUS
  <2>1. PICK i \in LineObjs(Scanline) : TRUE
    BY DEF DrawingOK
  <2>2. Scanline.regs.obj_enable
    BY <2>1 DEF LineObjs
  <2> QED
    BY <1>2, <2>2
<1>4. CASE should_start_live_obj_fetch(r)
  <2>1. regs.obj_enable /\ r.fetcher.source # "Object" /\ DueTickets(r) # {}
    BY <1>4 DEF should_start_live_obj_fetch
  <2>2. t = start_live_obj_fetch(r)
    BY <1>2, <1>4, <2>1 DEF WithObjects
  <2>3. /\ DrawingOK(Scanline, t, reply) /\ WindowLineOK(t) /\ t.x_out = r.x_out
        /\ t.stall_dots = r.stall_dots /\ t.fetcher.source = "Object" /\ ~ t.fetcher.pending
    BY <2>1, <2>2, StartKept
  <2> QED
    BY <1>2, <2>1, <2>3 DEF Resting
<1>5. CASE ~ should_start_live_obj_fetch(r)
  <2>1. t = r
    BY <1>3, <1>5 DEF WithObjects
  <2>2. r.fetcher.source # "Object" => Caught(Scanline, r)
    <3>1. r.fetcher.source # "Object" => LineObjs(Scanline) = {} \/ DueTickets(r) = {}
      BY <1>2, <1>5 DEF should_start_live_obj_fetch, LineObjs
    <3> QED
      BY <1>1, <3>1, NothingDue
  <2> QED
    BY <1>3, <2>1, <2>2
<1> QED
  BY <1>4, <1>5

(************************* the row of an object ****************************)
\* The rows and bytes of an object on the line.
LEMMA ObjRowRange ==
    ASSUME NEW s, s.oam \in ObjectTable, s.regs \in PpuRegisters, s.ly \in Nat,
           NEW i, i \in LineObjs(s)
    PROVE  /\ ObjRow(s, i) \in 0 .. 15 /\ ObjRow(s, i) < obj_height(s.regs)
           /\ (s.ly + 16 - s.oam[i].y) % 16 = ObjRow(s, i)
           /\ VramByte(ObjAddress(s, i)) \in Bytes /\ VramByte(ObjAddress(s, i) + 1) \in Bytes
<1>1. PICK y \in 0 .. 255 : y = s.oam[i].y
  BY LineObjFields
<1>2. PICK height \in {8, 16} : height = obj_height(s.regs)
  BY DEF obj_height
<1>3. PICK n \in Nat : n = s.ly
  OBVIOUS
<1>4. n + 16 \in y .. y + height - 1
  BY <1>1, <1>2, <1>3, LineObjFields DEF Meets
<1>5. PICK row : row = n + 16 - y
  OBVIOUS
<1>6. row \in 0 .. 15 /\ row < height /\ row % 16 = row
  BY <1>2, <1>4, <1>5
<1>7. ObjRow(s, i) = row /\ s.ly + 16 - s.oam[i].y = row
  BY <1>1, <1>3, <1>5 DEF ObjRow
<1>8. s.oam[i].tile \in Bytes
  BY LineObjFields
<1>9. row < obj_height(s.regs)
  BY <1>2, <1>6
<1>10. /\ VramByte(obj_tile_addr(s.regs, s.oam[i].tile, row, BitOf(s.oam[i].flags, 6))) \in Bytes
       /\ VramByte(obj_tile_addr(s.regs, s.oam[i].tile, row, BitOf(s.oam[i].flags, 6)) + 1) \in Bytes
  <2>1. PICK rg : rg = s.regs
    OBVIOUS
  <2>2. PICK tile \in Bytes : tile = s.oam[i].tile
    BY <1>8
  <2>3. PICK flip : flip = BitOf(s.oam[i].flags, 6)
    OBVIOUS
  <2>4. row < obj_height(rg)
    BY <1>9, <2>1
  <2>5. /\ VramByte(obj_tile_addr(rg, tile, row, flip)) \in Bytes
        /\ VramByte(obj_tile_addr(rg, tile, row, flip) + 1) \in Bytes
    BY <1>6, <2>4, ObjBytes
  <2> QED
    BY <2>1, <2>2, <2>3, <2>5
<1> QED
  BY <1>6, <1>7, <1>9, <1>10 DEF ObjAddress

\* The colours of the row are those the reference shows in its eight columns.
LEMMA ObjRowColours ==
    ASSUME NEW s, s.oam \in ObjectTable, s.regs \in PpuRegisters, s.ly \in Nat,
           NEW i, i \in LineObjs(s), NEW lo, lo = VramByte(ObjAddress(s, i)),
           NEW hi, hi = VramByte(ObjAddress(s, i) + 1), NEW col, col \in 0 .. 7,
           NEW x, x = s.oam[i].x - 8 + col
    PROVE  ObjColor(x, s, i) =
             decode_tile_row(lo, hi)[IF BitOf(s.oam[i].flags, 5) THEN 7 - col ELSE col]
<1>1. PICK a \in 0 .. 255, y \in 0 .. 255 : a = s.oam[i].x /\ y = s.oam[i].y
  BY LineObjFields
<1>2. PICK n \in Nat : n = s.ly
  OBVIOUS
<1>3. n - (y - 16) = n + 16 - y
  OBVIOUS
<1>4. s.ly - (s.oam[i].y - 16) = ObjRow(s, i)
  BY <1>1, <1>2, <1>3 DEF ObjRow
<1>5. x - (s.oam[i].x - 8) = col
  BY <1>1
<1>6. _tile_row_from_addr(ObjAddress(s, i)) = decode_tile_row(lo, hi)
  BY DEF _tile_row_from_addr
<1> QED
  BY <1>4, <1>5, <1>6 DEF ObjColor, ObjAddress

\* Which of two pixels stays is which of the two objects is on top.
LEMMA OnTopOrder ==
    ASSUME NEW s, s.oam \in ObjectTable, NEW i, i \in LineObjs(s), NEW j, j \in LineObjs(s),
           NEW x
    PROVE  /\ OnTop(s, i, i)
           /\ line_obj_ticket_precedes(PixelOf(s, i, x), PixelOf(s, j, x)) => OnTop(s, i, j)
           /\ ~ line_obj_ticket_precedes(PixelOf(s, i, x), PixelOf(s, j, x)) => OnTop(s, j, i)
           /\ \A k \in LineObjs(s) : OnTop(s, i, j) /\ OnTop(s, j, k) => OnTop(s, i, k)
<1>1. PICK a \in 0 .. 255, b \in 0 .. 255 : a = s.oam[i].x /\ b = s.oam[j].x
  BY LineObjFields
<1>2. PICK p \in Nat, q \in Nat : p = RankOf(s, i) /\ q = RankOf(s, j)
  BY LineObjFields
<1>3. PICK m \in Nat, n \in Nat : m = i /\ n = j
  BY LineObjFields
<1>4. (p = q => m = n) /\ (p < q => m < n) /\ (q < p => n < m)
  BY <1>2, <1>3, RanksDiffer
<1>5. line_obj_ticket_precedes(PixelOf(s, i, x), PixelOf(s, j, x)) <=> (a < b \/ (a = b /\ p < q))
  BY <1>1, <1>2 DEF line_obj_ticket_precedes, PixelOf
<1>6. (OnTop(s, i, j) <=> (a < b \/ (a = b /\ m <= n)))
      /\ (OnTop(s, j, i) <=> (b < a \/ (b = a /\ n <= m)))
      /\ (OnTop(s, i, i) <=> (a < a \/ (a = a /\ m <= m)))
  BY <1>1, <1>3 DEF OnTop
<1>7. ASSUME NEW k \in LineObjs(s), OnTop(s, i, j), OnTop(s, j, k) PROVE OnTop(s, i, k)
  <2>1. PICK c \in 0 .. 255, o \in Nat : c = s.oam[k].x /\ o = k
    BY <1>7, LineObjFields
  <2>2. b < c \/ (b = c /\ n <= o)
    BY <1>1, <1>3, <1>7, <2>1 DEF OnTop
  <2>3. a < b \/ (a = b /\ m <= n)
    BY <1>6, <1>7
  <2>4. a < c \/ (a = c /\ m <= o)
    BY <2>2, <2>3
  <2> QED
    BY <1>1, <1>3, <2>1, <2>4 DEF OnTop
<1>8. /\ (a < b \/ (a = b /\ p < q)) => (a < b \/ (a = b /\ m <= n))
      /\ ~ (a < b \/ (a = b /\ p < q)) => (b < a \/ (b = a /\ n <= m))
  BY <1>4
<1> QED
  BY <1>5, <1>6, <1>7, <1>8

\* A slot after the object's row is laid over it.
LEMMA SlotOverlaid ==
    ASSUME NEW s, s.oam \in ObjectTable, NEW r, NEW v, NEW i, i \in LineObjs(s),
           RankOf(s, i) \notin r.fetched, v.fetched = r.fetched \cup {RankOf(s, i)},
           v.x_out = r.x_out, NEW slot, SlotOK(s, r, slot), NEW incoming,
           NEW x, x = r.x_out + slot, incoming.color = ObjColor(x, s, i),
           incoming.color # 0 => incoming = PixelOf(s, i, x),
           v.obj_fifo.pixels[slot] = resolve_obj_priority(r.obj_fifo.pixels[slot], incoming)
    PROVE  SlotOK(s, v, slot)
<1> DEFINE existing == r.obj_fifo.pixels[slot]
           before == ShownAt(s, r, x)
           after == ShownAt(s, v, x)
<1>1. \A j \in LineObjs(s) : RankOf(s, j) \in v.fetched <=> RankOf(s, j) \in r.fetched \/ j = i
  BY RanksDiffer
<1>2. before \subseteq LineObjs(s) /\ after \subseteq LineObjs(s)
  BY DEF ShownAt
<1>3. after = before \cup (IF incoming.color # 0 THEN {i} ELSE {})
  BY <1>1 DEF ShownAt
<1>4. IF before = {} THEN existing.color = 0
      ELSE \E j \in before : (\A k \in before : OnTop(s, j, k)) /\ existing = PixelOf(s, j, x)
  BY DEF SlotOK
<1>5. \A j \in before : PixelOf(s, j, x).color # 0
  BY DEF ShownAt, PixelOf
<1>6. v.obj_fifo.pixels[slot] = resolve_obj_priority(existing, incoming) /\ v.x_out + slot = x
  OBVIOUS
<1>7. SUFFICES IF after = {} THEN resolve_obj_priority(existing, incoming).color = 0
               ELSE \E j \in after : /\ \A k \in after : OnTop(s, j, k)
                                     /\ resolve_obj_priority(existing, incoming) = PixelOf(s, j, x)
  BY <1>6 DEF SlotOK
<1> HIDE DEF existing, before, after
<1>8. CASE existing.color = 0
  <2>1. before = {}
    BY <1>4, <1>5, <1>8
  <2>2. resolve_obj_priority(existing, incoming) = incoming
    BY <1>8 DEF resolve_obj_priority
  <2>3. CASE incoming.color = 0
    BY <1>3, <2>1, <2>2, <2>3
  <2>4. CASE incoming.color # 0
    BY <1>3, <2>1, <2>2, <2>4, OnTopOrder
  <2> QED
    BY <2>3, <2>4
<1>9. CASE existing.color # 0
  <2>1. PICK j \in before : (\A k \in before : OnTop(s, j, k)) /\ existing = PixelOf(s, j, x)
    BY <1>4, <1>9
  <2>2. j \in LineObjs(s)
    BY <1>2
  <2>3. CASE incoming.color # 0 /\ line_obj_ticket_precedes(incoming, existing)
    <3>1. resolve_obj_priority(existing, incoming) = PixelOf(s, i, x)
      BY <2>3 DEF resolve_obj_priority
    <3>2. OnTop(s, i, j) /\ OnTop(s, i, i)
      BY <2>1, <2>2, <2>3, OnTopOrder
    <3>3. \A k \in before : OnTop(s, i, k)
      BY <1>2, <2>1, <2>2, <3>2, OnTopOrder
    <3>4. i \in after /\ \A k \in after : OnTop(s, i, k)
      BY <1>3, <2>3, <3>2, <3>3
    <3> QED
      BY <3>1, <3>4
  <2>4. CASE ~ (incoming.color # 0 /\ line_obj_ticket_precedes(incoming, existing))
    <3>1. resolve_obj_priority(existing, incoming) = PixelOf(s, j, x)
      BY <1>9, <2>1, <2>4 DEF resolve_obj_priority
    <3>2. incoming.color # 0 => OnTop(s, j, i)
      BY <2>1, <2>2, <2>4, OnTopOrder
    <3>3. j \in after /\ \A k \in after : OnTop(s, j, k)
      BY <1>3, <2>1, <3>2
    <3> QED
      BY <3>1, <3>3
  <2> QED
    BY <2>3, <2>4
<1> QED
  BY <1>8, <1>9

\* The row that has been read, as it comes to lie over the queue.
Incoming(r, slot) == IF slot \in 0 .. 7 THEN decode_obj_row(r)[slot] ELSE zero_obj_pixel

(* A pixel of an object that has been read is the pixel the reference gives   *)
(* that object at that column.                                                *)
LEMMA IncomingPixel ==
    ASSUME Linked, NEW r, r \in Renders, NEW rep, NEW i, i \in LineObjs(Scanline),
           ObjFetching(Scanline, r, rep, i), r.fetcher.step = "Push", NEW slot, slot \in 0 .. 15,
           NEW x, x = r.x_out + slot, NEW incoming, incoming = Incoming(r, slot)
    PROVE  /\ incoming \in ObjPixels /\ incoming.color = ObjColor(x, Scanline, i)
           /\ incoming.color # 0 => incoming = PixelOf(Scanline, i, x)
<1> DEFINE s == Scanline
           f == r.fetcher
<1>1. s.oam \in ObjectTable /\ s.regs \in PpuRegisters /\ s.ly \in Nat
  BY ScanlineFields DEF Linked
<1>2. /\ r.ticket = TicketOf(s, i) /\ r.obj_flags = s.oam[i].flags
      /\ f.tile_lo = VramByte(ObjAddress(s, i)) /\ f.tile_hi = VramByte(ObjAddress(s, i) + 1)
      /\ s.oam[i].x - 8 = r.x_out
  BY DEF ObjFetching
<1>3. r.ticket.x = s.oam[i].x /\ r.ticket.rank = RankOf(s, i)
  BY <1>2, TicketFields
<1>4. s.oam[i].x \in Bytes /\ RankOf(s, i) \in Nat /\ s.oam[i].x \in 0 .. 255
  BY <1>1, LineObjFields DEF Bytes
<1>5. r.x_out \in Nat
  BY SpatialAssumption DEF Renders
<1>6. CASE slot \in 0 .. 7
  <2> DEFINE place == IF BitOf(r.obj_flags, 5) THEN 7 - slot ELSE slot
             color == decode_tile_row(f.tile_lo, f.tile_hi)[place]
  <2>1. incoming = [color |-> color, palette |-> CarryOf(BitOf(r.obj_flags, 4)),
                    bg_over_obj |-> BitOf(r.obj_flags, 7), x |-> r.ticket.x, rank |-> r.ticket.rank]
    BY <1>6 DEF Incoming, decode_obj_row
  <2>2. place \in 0 .. 7
    BY <1>6
  <2>3. color \in 0 .. 3
    BY <2>2, ColourRange
  <2>4. x = s.oam[i].x - 8 + slot
    BY <1>2, <1>5
  <2>5. color = ObjColor(x, s, i)
    BY <1>1, <1>2, <1>6, <2>4, ObjRowColours
  <2> HIDE DEF color, place
  <2>6. CarryOf(BitOf(r.obj_flags, 4)) \in 0 .. 1 /\ BitOf(r.obj_flags, 7) \in BOOLEAN
    BY DEF CarryOf, BitOf
  <2>7. incoming \in ObjPixels
    BY <1>3, <1>4, <2>1, <2>3, <2>6 DEF ObjPixels
  <2>8. incoming = PixelOf(s, i, x)
    BY <1>2, <1>3, <2>1, <2>5 DEF PixelOf
  <2> QED
    BY <2>1, <2>5, <2>7, <2>8
<1>7. CASE slot \notin 0 .. 7
  <2>1. incoming = zero_obj_pixel
    BY <1>7 DEF Incoming
  <2>2. x - (s.oam[i].x - 8) \notin 0 .. 7
    <3>1. PICK a \in 0 .. 255 : a = s.oam[i].x
      BY <1>4
    <3>2. PICK n \in Nat : n = r.x_out
      BY <1>5
    <3>3. x - (a - 8) = slot
      BY <1>2, <3>1, <3>2
    <3> QED
      BY <1>7, <3>1, <3>3
  <2>3. ObjColor(x, s, i) = 0
    BY <2>2 DEF ObjColor
  <2> QED
    BY <2>1, <2>3, EmptyQueue DEF zero_obj_pixel
<1> QED
  BY <1>6, <1>7

\* The row goes over the queue where it begins, all eight columns of it.
LEMMA OverlaidQueue ==
    ASSUME NEW r, r \in Renders, obj_trigger_x(r.ticket) = r.x_out, r.ticket.x > 8,
           r.ticket.x - 8 = r.x_out, NEW v, v = complete_live_obj_fetch(r)
    PROVE  /\ v.obj_fifo.count = IF r.obj_fifo.count > 8 THEN r.obj_fifo.count ELSE 8
           /\ v.obj_fifo.pixels = [slot \in 0 .. 15 |->
                  resolve_obj_priority(r.obj_fifo.pixels[slot], Incoming(r, slot))]
           /\ v.obj_fifo = [count |-> v.obj_fifo.count, pixels |-> v.obj_fifo.pixels]
<1>1. r.x_out \in Nat /\ r.ticket.x \in 0 .. 255
  BY SpatialAssumption DEF Renders, TicketSet, Bytes
<1>2. obj_fifo_start_offset(r.ticket, r.x_out) = 0
  BY <1>1 DEF obj_fifo_start_offset
<1>3. obj_fifo_left_clip(r.ticket, r.x_out) = 0
  BY <1>1 DEF obj_fifo_left_clip
<1>4. PICK row : row = decode_obj_row(r)
  OBVIOUS
<1>5. v.obj_fifo = obj_fifo_overlay_row_clipped(r.obj_fifo, row, 0, 0)
  <2>1. v = [r EXCEPT !.fetched = r.fetched \cup {r.ticket.rank}, !.ticket = NoTicket, !.obj_flags = 0,
                      !.fetcher = r.bg_fetcher_resume,
                      !.obj_fifo = obj_fifo_overlay_row_clipped(r.obj_fifo, row, 0, 0)]
    BY <1>2, <1>3, <1>4 DEF complete_live_obj_fetch
  <2> QED
    BY <2>1 DEF Renders
<1> DEFINE incoming(slot) == IF slot \in 0 + 0 .. 0 + 7 THEN row[slot - 0] ELSE zero_obj_pixel
<1>6. obj_fifo_overlay_row_clipped(r.obj_fifo, row, 0, 0) =
        [count |-> IF r.obj_fifo.count > 8 THEN r.obj_fifo.count ELSE 8,
         pixels |-> [slot \in 0 .. 15 |-> resolve_obj_priority(r.obj_fifo.pixels[slot], incoming(slot))]]
  <2>1. (IF 0 + 8 - 0 > 16 THEN 16 ELSE 0 + 8 - 0) = 8
    OBVIOUS
  <2> QED
    BY <2>1 DEF obj_fifo_overlay_row_clipped
<1>7. \A slot \in 0 .. 15 : incoming(slot) = Incoming(r, slot)
  <2> SUFFICES ASSUME NEW slot \in 0 .. 15 PROVE incoming(slot) = Incoming(r, slot)
    OBVIOUS
  <2>1. slot - 0 = slot
    OBVIOUS
  <2> QED
    BY <1>4, <2>1 DEF Incoming
<1> HIDE DEF incoming
<1>8. [slot \in 0 .. 15 |-> resolve_obj_priority(r.obj_fifo.pixels[slot], incoming(slot))]
        = [slot \in 0 .. 15 |-> resolve_obj_priority(r.obj_fifo.pixels[slot], Incoming(r, slot))]
  BY <1>7
<1> QED
  BY <1>5, <1>6, <1>8
Completed(r, fetched, resume, obj_fifo) ==
    [r EXCEPT !.fetched = fetched, !.ticket = NoTicket, !.obj_flags = 0, !.fetcher = resume,
              !.obj_fifo = obj_fifo]

\* The fields of a render that the end of an object fetch changes.
LEMMA CompletedRender ==
    ASSUME NEW r, r \in Renders, NEW fetched, NEW resume, NEW obj_fifo,
           NEW v, v = Completed(r, fetched, resume, obj_fifo)
    PROVE  /\ v.stall_dots = r.stall_dots /\ v.fetcher = resume /\ v.x_out = r.x_out
           /\ v.window = r.window /\ v.window_line = r.window_line /\ v.discard = r.discard
           /\ v.line_objs = r.line_objs /\ v.fetched = fetched /\ v.bg_fifo = r.bg_fifo
           /\ v.obj_fifo = obj_fifo
BY DEF Renders, Completed

\* The end of an object fetch keeps the types.
LEMMA CompletedTyped ==
    ASSUME NEW r, r \in Renders, NEW fetched, fetched \subseteq Nat,
           NEW resume, resume \in Fetchers, NEW obj_fifo, obj_fifo \in ObjQueues
    PROVE  Completed(r, fetched, resume, obj_fifo) \in Renders
<1>1. 0 \in Bytes
  BY DEF Bytes
<1>2. NoTicket \in TicketSet
  BY <1>1, SpatialAssumption DEF NoTicket, TicketSet
<1> QED
  BY <1>1, <1>2 DEF Renders, Completed, ObjQueues

\* The end of a fetch: the object is over the queue and the tile fetcher goes on.
LEMMA CompleteKept ==
    ASSUME Linked, NEW r, DrawingOK(Scanline, r, reply), WindowLineOK(r), ClearOfEdge(Scanline),
           r.fetcher.source = "Object", r.fetcher.step = "Push",
           NEW v, v = complete_live_obj_fetch(r)
    PROVE  /\ DrawingOK(Scanline, v, NoReply) /\ WindowLineOK(v) /\ v.x_out = r.x_out
           /\ v.stall_dots = r.stall_dots
<1> DEFINE s == Scanline
<1>1. /\ r \in Renders /\ QueueOK(s, r) /\ WindowOK(s, r) /\ FetchedOK(s, r) /\ SlotsOK(s, r)
      /\ Answering(s, r.bg_fetcher_resume, NoReply)
  BY DEF DrawingOK
<1>2. PICK i \in LineObjs(s) : ObjFetching(s, r, reply, i)
  BY DEF DrawingOK
<1>3. s.oam \in ObjectTable
  BY ScanlineFields DEF Linked
<1>4. /\ r.ticket = TicketOf(s, i) /\ RankOf(s, i) \notin r.fetched /\ s.oam[i].x - 8 = r.x_out
  BY <1>2 DEF ObjFetching
<1>5. r.ticket.x = s.oam[i].x /\ r.ticket.rank = RankOf(s, i) /\ RankOf(s, i) \in Nat
  BY <1>3, <1>4, TicketFields, LineObjFields
<1>6. r.ticket.x > 8
  BY <1>5 DEF ClearOfEdge
<1>7. obj_trigger_x(r.ticket) = r.x_out
  BY <1>4, <1>5, <1>6 DEF obj_trigger_x
<1>8. PICK rank : rank = RankOf(s, i)
  OBVIOUS
<1>9. PICK fetched : fetched = r.fetched \cup {rank}
  OBVIOUS
<1>10. PICK resume : resume = r.bg_fetcher_resume
  OBVIOUS
<1>11. PICK objs : objs = obj_fifo_overlay_row_clipped(r.obj_fifo, decode_obj_row(r),
                            obj_fifo_start_offset(r.ticket, r.x_out),
                            obj_fifo_left_clip(r.ticket, r.x_out))
  OBVIOUS
<1>12. v = Completed(r, fetched, resume, objs)
  BY <1>5, <1>8, <1>9, <1>10, <1>11 DEF complete_live_obj_fetch, Completed
<1>13. /\ v.stall_dots = r.stall_dots /\ v.fetcher = resume /\ v.x_out = r.x_out
       /\ v.window = r.window /\ v.window_line = r.window_line /\ v.discard = r.discard
       /\ v.line_objs = r.line_objs /\ v.fetched = fetched /\ v.bg_fifo = r.bg_fifo
       /\ v.obj_fifo = objs
  BY <1>1, <1>12, CompletedRender
<1>14. /\ v.obj_fifo.count = IF r.obj_fifo.count > 8 THEN r.obj_fifo.count ELSE 8
       /\ v.obj_fifo.pixels = [slot \in 0 .. 15 |->
              resolve_obj_priority(r.obj_fifo.pixels[slot], Incoming(r, slot))]
       /\ v.obj_fifo = [count |-> v.obj_fifo.count, pixels |-> v.obj_fifo.pixels]
  BY <1>1, <1>4, <1>5, <1>6, <1>7, OverlaidQueue
<1>15. r.obj_fifo.count \in 0 .. 16 /\ r.obj_fifo.pixels \in [0 .. 15 -> ObjPixels]
       /\ r.fetched \in SUBSET Nat /\ r.bg_fetcher_resume \in Fetchers
  BY <1>1 DEF Renders
<1>16. ASSUME NEW slot, slot \in 0 .. 15
       PROVE  /\ SlotOK(s, v, slot) /\ v.obj_fifo.pixels[slot] \in ObjPixels
              /\ slot >= v.obj_fifo.count => v.obj_fifo.pixels[slot].color = 0
  <2>1. PICK x : x = r.x_out + slot
    OBVIOUS
  <2>2. PICK incoming : incoming = Incoming(r, slot)
    OBVIOUS
  <2>3. /\ incoming \in ObjPixels /\ incoming.color = ObjColor(x, s, i)
        /\ incoming.color # 0 => incoming = PixelOf(s, i, x)
    BY <1>1, <1>2, <1>16, <2>1, <2>2, IncomingPixel
  <2>4. v.obj_fifo.pixels[slot] = resolve_obj_priority(r.obj_fifo.pixels[slot], incoming)
    BY <1>14, <1>16, <2>2
  <2>5. SlotOK(s, r, slot)
    BY <1>1, <1>16 DEF SlotsOK
  <2>6. SlotOK(s, v, slot)
    BY <1>3, <1>4, <1>8, <1>9, <1>13, <2>1, <2>3, <2>4, <2>5, SlotOverlaid
  <2>7. v.obj_fifo.pixels[slot] \in ObjPixels
    <3>1. r.obj_fifo.pixels[slot] \in ObjPixels
      BY <1>15, <1>16
    <3> QED
      BY <2>3, <2>4, <3>1 DEF resolve_obj_priority
  <2>8. ASSUME slot >= v.obj_fifo.count PROVE v.obj_fifo.pixels[slot].color = 0
    <3>1. slot >= r.obj_fifo.count /\ slot \notin 0 .. 7
      BY <1>14, <1>15, <1>16, <2>8
    <3>2. r.obj_fifo.pixels[slot].color = 0
      BY <1>1, <1>16, <3>1 DEF SlotsOK
    <3>3. incoming.color = 0
      BY <2>2, <3>1 DEF Incoming, zero_obj_pixel
    <3> QED
      BY <2>4, <3>2, <3>3 DEF resolve_obj_priority
  <2> QED
    BY <2>6, <2>7, <2>8
<1>17. SlotsOK(s, v)
  BY <1>16 DEF SlotsOK
<1>18. objs \in ObjQueues
  <2>1. PICK pixels : pixels = v.obj_fifo.pixels
    OBVIOUS
  <2>2. pixels \in [0 .. 15 -> ObjPixels]
    <3>1. \A slot \in 0 .. 15 :
            resolve_obj_priority(r.obj_fifo.pixels[slot], Incoming(r, slot)) \in ObjPixels
      BY <1>14, <1>16
    <3> QED
      BY <1>14, <2>1, <3>1
  <2>3. PICK count : count = v.obj_fifo.count
    OBVIOUS
  <2>4. count \in 0 .. 16
    BY <1>14, <1>15, <2>3
  <2>5. objs = [count |-> count, pixels |-> pixels]
    BY <1>13, <1>14, <2>1, <2>3
  <2> QED
    BY <2>2, <2>4, <2>5 DEF ObjQueues
<1>19. v \in Renders
  <2>1. fetched \subseteq Nat
    BY <1>5, <1>8, <1>9, <1>15
  <2>2. resume \in Fetchers
    BY <1>10, <1>15
  <2> QED
    BY <1>1, <1>12, <1>18, <2>1, <2>2, CompletedTyped
<1>20. SameQueues(v, r)
  BY <1>13 DEF SameQueues
<1>21. resume.source # "Object" /\ TileFetcher(r) = resume
  <2>1. TileFetcher(r) = resume
    BY <1>10 DEF TileFetcher
  <2>2. resume.source \in {"Background", "Window"}
    BY <1>1, <2>1 DEF QueueOK, QueueHolds, Layer
  <2> QED
    BY <2>1, <2>2
<1>22. TileFetcher(v) = resume
  BY <1>13, <1>21 DEF TileFetcher
<1>23. QueueOK(s, v) /\ WindowOK(s, v) /\ WindowLineOK(v)
  BY <1>1, <1>20, <1>21, <1>22, QueueStays
<1>24. FetchedOK(s, v)
  <2>1. Tickets(v) = Tickets(r)
    BY <1>13 DEF Tickets
  <2>2. ASSUME NEW j \in LineObjs(s)
        PROVE  /\ s.oam[j].x - 8 < v.x_out => RankOf(s, j) \in v.fetched
               /\ RankOf(s, j) \in v.fetched => s.oam[j].x - 8 <= v.x_out
    <3>1. /\ s.oam[j].x - 8 < r.x_out => RankOf(s, j) \in r.fetched
          /\ RankOf(s, j) \in r.fetched => s.oam[j].x - 8 <= r.x_out
      BY <1>1, <2>2 DEF FetchedOK
    <3>2. RankOf(s, j) \in v.fetched => RankOf(s, j) \in r.fetched \/ j = i
      BY <1>3, <1>8, <1>9, <1>13, <2>2, RanksDiffer
    <3>3. j = i => s.oam[j].x - 8 <= r.x_out
      <4>1. r.x_out \in Int
        BY <1>1, SpatialAssumption DEF Renders
      <4> QED
        BY <1>4, <4>1
    <3> QED
      BY <1>9, <1>13, <3>1, <3>2, <3>3
  <2> QED
    BY <1>1, <2>1, <2>2 DEF FetchedOK
<1>25. NoReply \in Replies
  BY DEF NoReply, Replies, Bytes
<1>26. DrawingOK(s, v, NoReply)
  BY <1>1, <1>10, <1>13, <1>17, <1>19, <1>21, <1>23, <1>24, <1>25 DEF DrawingOK
<1> QED
  BY <1>13, <1>23, <1>26

\* A dot that only moves the object's fetch on.
OnlyFetch(v, r, fetcher, flags) ==
    /\ v \in Renders /\ v.fetcher = fetcher /\ v.obj_flags = flags
    /\ SameQueues(v, r) /\ v.stall_dots = r.stall_dots /\ v.line_objs = r.line_objs
    /\ v.fetched = r.fetched /\ v.obj_fifo = r.obj_fifo /\ v.ticket = r.ticket
    /\ v.bg_fetcher_resume = r.bg_fetcher_resume

\* A step of an object fetch that changes the fetcher only.
LEMMA OnlyFetcher ==
    ASSUME NEW r, r \in Renders, NEW fetcher, fetcher \in Fetchers
    PROVE  OnlyFetch([r EXCEPT !.fetcher = fetcher], r, fetcher, r.obj_flags)
<1>1. PICK v : v = [r EXCEPT !.fetcher = fetcher]
  OBVIOUS
<1>2. OnlyFetch(v, r, fetcher, r.obj_flags)
  BY <1>1 DEF OnlyFetch, SameQueues, Renders
<1> QED
  BY <1>1, <1>2

\* A step of an object fetch that takes the flags too.
LEMMA FetcherAndFlags ==
    ASSUME NEW r, r \in Renders, NEW fetcher, fetcher \in Fetchers, NEW flags, flags \in Bytes
    PROVE  OnlyFetch([r EXCEPT !.fetcher = fetcher, !.obj_flags = flags], r, fetcher, flags)
<1>1. PICK v : v = [r EXCEPT !.fetcher = fetcher, !.obj_flags = flags]
  OBVIOUS
<1>2. OnlyFetch(v, r, fetcher, flags)
  BY <1>1 DEF OnlyFetch, SameQueues, Renders
<1> QED
  BY <1>1, <1>2

(* A step of an object fetch keeps all that is drawn, when what it has read   *)
(* is what the object holds.                                                  *)
LEMMA FetchKept ==
    ASSUME Linked, NEW r, DrawingOK(Scanline, r, reply), WindowLineOK(r),
           r.fetcher.source = "Object", NEW fetcher, fetcher \in Fetchers, fetcher.source = "Object",
           NEW flags, flags \in Bytes, NEW v, OnlyFetch(v, r, fetcher, flags),
           NEW req, req \in Replies, NEW i, i \in LineObjs(Scanline),
           r.ticket = TicketOf(Scanline, i), RankOf(Scanline, i) \notin r.fetched,
           Scanline.oam[i].x - 8 = r.x_out,
           fetcher.step # "GetTile" => fetcher.tile_id = Scanline.oam[i].tile,
           fetcher.step \notin {"GetTile", "GetLo"} => flags = Scanline.oam[i].flags,
           fetcher.step \in {"Sleep", "Push"} => fetcher.tile_lo = VramByte(ObjAddress(Scanline, i)),
           fetcher.step = "Push" => fetcher.tile_hi = VramByte(ObjAddress(Scanline, i) + 1),
           fetcher.pending => fetcher.step # "Push" /\ req.data = ObjWanted(Scanline, i, fetcher.step)
    PROVE  /\ DrawingOK(Scanline, v, req) /\ WindowLineOK(v) /\ v.x_out = r.x_out
           /\ v.stall_dots = r.stall_dots
<1> DEFINE s == Scanline
<1>1. /\ r \in Renders /\ QueueOK(s, r) /\ WindowOK(s, r) /\ FetchedOK(s, r) /\ SlotsOK(s, r)
      /\ Answering(s, r.bg_fetcher_resume, NoReply)
  BY DEF DrawingOK
<1>2. /\ v.fetcher = fetcher /\ v.obj_flags = flags /\ v.stall_dots = r.stall_dots
      /\ v.x_out = r.x_out /\ v.window = r.window /\ v.window_line = r.window_line
      /\ v.discard = r.discard /\ v.line_objs = r.line_objs /\ v.fetched = r.fetched
      /\ v.bg_fifo = r.bg_fifo /\ v.obj_fifo = r.obj_fifo /\ v.ticket = r.ticket
      /\ v.bg_fetcher_resume = r.bg_fetcher_resume /\ v \in Renders
  BY DEF OnlyFetch, SameQueues
<1>3. SameQueues(v, r)
  BY <1>2 DEF SameQueues
<1>4. TileFetcher(v) = TileFetcher(r)
  BY <1>2 DEF TileFetcher
<1>5. QueueOK(s, v) /\ WindowOK(s, v) /\ WindowLineOK(v)
  BY <1>1, <1>3, <1>4, QueueStays
<1>6. FetchedOK(s, v) /\ SlotsOK(s, v)
  BY <1>1, <1>2, FetchedStays, SlotsStay
<1>7. ObjFetching(s, v, req, i)
  BY <1>2 DEF ObjFetching
<1>8. DrawingOK(s, v, req)
  BY <1>1, <1>2, <1>5, <1>6, <1>7 DEF DrawingOK
<1> QED
  BY <1>2, <1>5, <1>8

\* The bytes of the object that are asked for are its own.
LEMMA AsksForObject ==
    ASSUME Linked, NEW r, NEW i, i \in LineObjs(Scanline), NEW rep,
           ObjFetching(Scanline, r, rep, i), r.fetcher.step \in {"GetTile", "GetLo", "GetHi", "Sleep"}
    PROVE  /\ ObjByte(r) = ObjWanted(Scanline, i, r.fetcher.step)
           /\ ObjWanted(Scanline, i, r.fetcher.step) \in Bytes
<1> DEFINE s == Scanline
           f == r.fetcher
<1>1. /\ s.oam \in ObjectTable /\ s.regs \in PpuRegisters /\ s.ly \in Nat /\ s.oam = scene.oam
      /\ s.ly = ly
  BY ScanlineFields DEF Linked
<1>2. regs.obj_size_8x16 = s.regs.obj_size_8x16
  BY LinkedFields
<1>3. r.ticket.oam_index = i /\ r.ticket.y = s.oam[i].y
  BY TicketFields DEF ObjFetching
<1>4. /\ s.oam[i].tile \in Bytes /\ s.oam[i].flags \in Bytes
      /\ VramByte(ObjAddress(s, i)) \in Bytes /\ VramByte(ObjAddress(s, i) + 1) \in Bytes
      /\ (s.ly + 16 - s.oam[i].y) % 16 = ObjRow(s, i)
  BY <1>1, LineObjFields, ObjRowRange
<1>5. row_in_object(r.ticket) = ObjRow(s, i)
  BY <1>1, <1>3, <1>4 DEF row_in_object
<1>6. ASSUME f.step \in {"GetHi", "Sleep"}
      PROVE  obj_tile_addr(regs, f.tile_id, row_in_object(r.ticket), BitOf(r.obj_flags, 6))
               = ObjAddress(s, i)
  <2>1. f.tile_id = s.oam[i].tile /\ r.obj_flags = s.oam[i].flags
    BY <1>6 DEF ObjFetching
  <2>2. \A tile, row, flip : obj_tile_addr(regs, tile, row, flip) = obj_tile_addr(s.regs, tile, row, flip)
    BY <1>2 DEF obj_tile_addr, obj_height
  <2> QED
    BY <1>5, <2>1, <2>2 DEF ObjAddress
<1>7. CASE f.step = "GetTile"
  BY <1>1, <1>3, <1>4, <1>7 DEF ObjByte, ObjWanted
<1>8. CASE f.step = "GetLo"
  BY <1>1, <1>3, <1>4, <1>8 DEF ObjByte, ObjWanted
<1>9. CASE f.step = "GetHi"
  BY <1>4, <1>6, <1>9 DEF ObjByte, ObjWanted
<1>10. CASE f.step = "Sleep"
  BY <1>4, <1>6, <1>10 DEF ObjByte, ObjWanted
<1> QED
  BY <1>7, <1>8, <1>9, <1>10

\* A dot of an object's fetch.
LEMMA ObjectDot ==
    ASSUME Linked, NEW r, DrawingOK(Scanline, r, reply), WindowLineOK(r), ClearOfEdge(Scanline),
           r.fetcher.source = "Object", r.stall_dots = 0,
           NEW out, out = advance_live_obj_fetch(r), NEW x
    PROVE  DotOK(out, x)
<1> DEFINE s == Scanline
           f == r.fetcher
<1>1. r \in Renders /\ reply \in Replies
  BY DEF DrawingOK
<1>2. PICK i \in LineObjs(s) : ObjFetching(s, r, reply, i)
  BY DEF DrawingOK
<1>3. /\ r.ticket = TicketOf(s, i) /\ RankOf(s, i) \notin r.fetched /\ s.oam[i].x - 8 = r.x_out
      /\ f.step # "GetTile" => f.tile_id = s.oam[i].tile
      /\ f.step \notin {"GetTile", "GetLo"} => r.obj_flags = s.oam[i].flags
      /\ f.step \in {"Sleep", "Push"} => f.tile_lo = VramByte(ObjAddress(s, i))
      /\ f.step = "Push" => f.tile_hi = VramByte(ObjAddress(s, i) + 1)
      /\ f.pending => f.step # "Push" /\ reply.data = ObjWanted(s, i, f.step)
  BY <1>2 DEF ObjFetching
<1>4. f \in Fetchers /\ r.obj_flags \in Bytes /\ reply.data \in Bytes
  BY <1>1 DEF Renders, Replies
<1>5. NoReply \in Replies
  BY DEF NoReply, Replies, Bytes
<1>6. f.step \in {"GetTile", "GetLo", "GetHi", "Sleep", "Push"} /\ f.pending \in BOOLEAN
      /\ f.pending_push \in BOOLEAN
  BY <1>4 DEF Fetchers
<1>7. ASSUME DrawingOK(s, out.render, out.req), WindowLineOK(out.render),
             out.render.stall_dots = 0, out.pixel = <<>>
      PROVE  DotOK(out, x)
  BY <1>7 DEF DotOK, Resting, RightPixel

\* an answer
<1>8. CASE f.pending
  <2>1. out = [render |-> ObjAnswered(r), req |-> NoReply, pixel |-> <<>>]
    BY <1>8 DEF advance_live_obj_fetch
  <2>2. f.step # "Push" /\ reply.data = ObjWanted(s, i, f.step)
    BY <1>3, <1>8
  <2>3. ASSUME NEW fetcher, fetcher \in Fetchers, fetcher.source = "Object",
               NEW flags, flags \in Bytes, OnlyFetch(out.render, r, fetcher, flags),
               fetcher.step # "GetTile" => fetcher.tile_id = s.oam[i].tile,
               fetcher.step \notin {"GetTile", "GetLo"} => flags = s.oam[i].flags,
               fetcher.step \in {"Sleep", "Push"} => fetcher.tile_lo = VramByte(ObjAddress(s, i)),
               fetcher.step = "Push" => fetcher.tile_hi = VramByte(ObjAddress(s, i) + 1),
               ~ fetcher.pending
        PROVE  DotOK(out, x)
    <3>1. /\ DrawingOK(s, out.render, NoReply) /\ WindowLineOK(out.render)
          /\ out.render.stall_dots = r.stall_dots
      BY <1>3, <1>5, <2>3, FetchKept
    <3> QED
      BY <1>7, <2>1, <3>1
  <2>4. CASE f.step = "GetTile"
    <3>1. PICK g : g = [f EXCEPT !.step = "GetLo", !.pending = FALSE, !.tile_id = reply.data]
      OBVIOUS
    <3>2. g \in Fetchers /\ g.source = "Object" /\ g.step = "GetLo" /\ g.tile_id = reply.data
          /\ ~ g.pending
      BY <1>4, <3>1 DEF Fetchers
    <3>3. OnlyFetch(out.render, r, g, r.obj_flags)
      <4>1. ObjAnswered(r) = [r EXCEPT !.fetcher = g]
        BY <1>4, <2>4, <3>1 DEF ObjAnswered, Fetchers
      <4> QED
        BY <1>1, <2>1, <3>2, <4>1, OnlyFetcher
    <3>4. reply.data = s.oam[i].tile
      BY <2>2, <2>4 DEF ObjWanted
    <3> QED
      BY <1>4, <2>3, <3>2, <3>3, <3>4
  <2>5. CASE f.step = "GetLo"
    <3>1. PICK g : g = [f EXCEPT !.step = "GetHi", !.pending = FALSE]
      OBVIOUS
    <3>2. g \in Fetchers /\ g.source = "Object" /\ g.step = "GetHi" /\ g.tile_id = f.tile_id
          /\ ~ g.pending
      BY <1>4, <3>1 DEF Fetchers
    <3>3. OnlyFetch(out.render, r, g, reply.data)
      <4>1. PICK flags : flags = reply.data
        OBVIOUS
      <4>2. ObjAnswered(r) = [r EXCEPT !.fetcher = g, !.obj_flags = flags]
        BY <2>5, <3>1, <4>1 DEF ObjAnswered
      <4>3. OnlyFetch([r EXCEPT !.fetcher = g, !.obj_flags = flags], r, g, flags)
        BY <1>1, <1>4, <3>2, <4>1, FetcherAndFlags
      <4>4. out.render = [r EXCEPT !.fetcher = g, !.obj_flags = flags]
        BY <2>1, <4>2
      <4> QED
        BY <4>1, <4>3, <4>4
    <3>4. reply.data = s.oam[i].flags
      BY <2>2, <2>5 DEF ObjWanted
    <3> QED
      BY <1>3, <1>4, <2>3, <2>5, <3>2, <3>3, <3>4
  <2>6. CASE f.step = "GetHi"
    <3>1. PICK g : g = [f EXCEPT !.step = "Sleep", !.pending = FALSE, !.tile_lo = reply.data]
      OBVIOUS
    <3>2. g \in Fetchers /\ g.source = "Object" /\ g.step = "Sleep" /\ g.tile_id = f.tile_id
          /\ g.tile_lo = reply.data /\ ~ g.pending
      BY <1>4, <3>1 DEF Fetchers
    <3>3. OnlyFetch(out.render, r, g, r.obj_flags)
      <4>1. ObjAnswered(r) = [r EXCEPT !.fetcher = g]
        BY <1>4, <2>6, <3>1 DEF ObjAnswered, Fetchers
      <4> QED
        BY <1>1, <2>1, <3>2, <4>1, OnlyFetcher
    <3>4. reply.data = VramByte(ObjAddress(s, i))
      BY <2>2, <2>6 DEF ObjWanted
    <3> QED
      BY <1>3, <1>4, <2>3, <2>6, <3>2, <3>3, <3>4
  <2>7. CASE f.step = "Sleep"
    <3>1. PICK g : g = [f EXCEPT !.step = "Push", !.pending = FALSE, !.tile_hi = reply.data,
                                 !.pending_push = TRUE]
      OBVIOUS
    <3>2. g \in Fetchers /\ g.source = "Object" /\ g.step = "Push" /\ g.tile_id = f.tile_id
          /\ g.tile_lo = f.tile_lo /\ g.tile_hi = reply.data /\ ~ g.pending
      BY <1>4, <3>1 DEF Fetchers
    <3>3. OnlyFetch(out.render, r, g, r.obj_flags)
      <4>1. ObjAnswered(r) = [r EXCEPT !.fetcher = g]
        BY <1>4, <2>7, <3>1 DEF ObjAnswered, Fetchers
      <4> QED
        BY <1>1, <2>1, <3>2, <4>1, OnlyFetcher
    <3>4. reply.data = VramByte(ObjAddress(s, i) + 1)
      BY <2>2, <2>7 DEF ObjWanted
    <3> QED
      BY <1>3, <1>4, <2>3, <2>7, <3>2, <3>3, <3>4
  <2> QED
    BY <1>6, <2>2, <2>4, <2>5, <2>6, <2>7

\* a request
<1>9. CASE ~ f.pending /\ f.step # "Push"
  <2>1. PICK g : g = [f EXCEPT !.pending = TRUE]
    OBVIOUS
  <2>2. PICK req : req = Reply("ObjFetcher", ObjByte(r))
    OBVIOUS
  <2>4. /\ g \in Fetchers /\ g.source = "Object" /\ g.step = f.step /\ g.tile_id = f.tile_id
        /\ g.tile_lo = f.tile_lo /\ g.tile_hi = f.tile_hi
    BY <1>4, <2>1 DEF Fetchers
  <2>3. OnlyFetch(out.render, r, g, r.obj_flags) /\ out.req = req /\ out.pixel = <<>>
    <3>1. out = [render |-> [r EXCEPT !.fetcher = g], req |-> req, pixel |-> <<>>]
      BY <1>1, <1>9, <2>1, <2>2 DEF advance_live_obj_fetch
    <3> QED
      BY <1>1, <2>4, <3>1, OnlyFetcher
  <2>5. req \in Replies /\ req.data = ObjWanted(s, i, f.step)
    <3>1. ObjByte(r) = ObjWanted(s, i, f.step) /\ ObjWanted(s, i, f.step) \in Bytes
      BY <1>2, <1>6, <1>9, AsksForObject
    <3> QED
      BY <2>2, <3>1 DEF Reply, Replies
  <2>6. /\ DrawingOK(s, out.render, req) /\ WindowLineOK(out.render)
        /\ out.render.stall_dots = r.stall_dots
    BY <1>3, <1>4, <1>9, <2>3, <2>4, <2>5, FetchKept
  <2> QED
    BY <1>7, <2>3, <2>6

\* a dot of rest
<1>10. CASE ~ f.pending /\ f.step = "Push" /\ f.pending_push
  <2>1. PICK g : g = [f EXCEPT !.pending_push = FALSE]
    OBVIOUS
  <2>3. /\ g \in Fetchers /\ g.source = "Object" /\ g.step = f.step /\ g.tile_id = f.tile_id
        /\ g.tile_lo = f.tile_lo /\ g.tile_hi = f.tile_hi /\ g.pending = f.pending
    BY <1>4, <2>1 DEF Fetchers
  <2>2. OnlyFetch(out.render, r, g, r.obj_flags) /\ out.req = NoReply /\ out.pixel = <<>>
    <3>1. out = [render |-> [r EXCEPT !.fetcher = g], req |-> NoReply, pixel |-> <<>>]
      BY <1>1, <1>10, <2>1 DEF advance_live_obj_fetch
    <3> QED
      BY <1>1, <2>3, <3>1, OnlyFetcher
  <2>4. /\ DrawingOK(s, out.render, NoReply) /\ WindowLineOK(out.render)
        /\ out.render.stall_dots = r.stall_dots
    BY <1>3, <1>4, <1>5, <1>10, <2>2, <2>3, FetchKept
  <2> QED
    BY <1>7, <2>2, <2>4

\* the end
<1>11. CASE ~ f.pending /\ f.step = "Push" /\ ~ f.pending_push
  <2>1. out = [render |-> complete_live_obj_fetch(r), req |-> NoReply, pixel |-> <<>>]
    BY <1>11 DEF advance_live_obj_fetch
  <2>2. /\ DrawingOK(s, out.render, NoReply) /\ WindowLineOK(out.render)
        /\ out.render.stall_dots = r.stall_dots
    BY <1>11, <2>1, CompleteKept
  <2> QED
    BY <1>7, <2>1, <2>2
<1> QED
  BY <1>6, <1>8, <1>9, <1>10, <1>11

(******************************** the scan *********************************)
LEMMA RankStep ==
    ASSUME NEW s, NEW n, n \in Nat
    PROVE  RankOf(s, n + 1) = IF Meets(s, n) THEN RankOf(s, n) + 1 ELSE RankOf(s, n)
<1>1. RankOf(s, n) \in Nat /\ IsFiniteSet(MeetBefore(s, n))
  BY RankNatural
<1>2. CASE Meets(s, n)
  <2>1. MeetBefore(s, n + 1) = MeetBefore(s, n) \cup {n} /\ n \notin MeetBefore(s, n)
    BY <1>2 DEF MeetBefore
  <2>2. Cardinality(MeetBefore(s, n) \cup {n}) = Cardinality(MeetBefore(s, n)) + 1
    BY <1>1, <2>1, FS_AddElement
  <2> QED
    BY <1>2, <2>1, <2>2 DEF RankOf
<1>3. CASE ~ Meets(s, n)
  <2>1. MeetBefore(s, n + 1) = MeetBefore(s, n)
    BY <1>3 DEF MeetBefore
  <2> QED
    BY <1>3, <2>1 DEF RankOf
<1> QED
  BY <1>2, <1>3

(* The objects chosen among the first n + 1 of the table: one more when it    *)
(* meets the line and there is room.                                          *)
LEMMA ChosenStep ==
    ASSUME NEW s, NEW n, n \in Nat
    PROVE  Chosen(s, n + 1) =
             IF Meets(s, n) /\ RankOf(s, n) < MAX_LINE_OBJS THEN Chosen(s, n) \cup {n}
             ELSE Chosen(s, n)
<1>1. 0 .. n + 1 - 1 = (0 .. n - 1) \cup {n}
  OBVIOUS
<1> QED
  BY <1>1 DEF Chosen

\* A dot of the scan that keeps everything but what it found.
Scanned(r, dot, scan, pending_y, line_objs) ==
    [r EXCEPT !.dot = dot, !.scan = scan, !.pending_y = pending_y, !.line_objs = line_objs]

\* The fields of a render that a dot of the scan changes.
LEMMA ScannedRender ==
    ASSUME NEW r, r \in Renders, NEW dot, NEW scan, NEW pending_y, NEW line_objs,
           NEW v, v = Scanned(r, dot, scan, pending_y, line_objs)
    PROVE  /\ v.dot = dot /\ v.scan = scan /\ v.pending_y = pending_y /\ v.line_objs = line_objs
           /\ v.x_out = r.x_out /\ v.discard = r.discard /\ v.stall_dots = r.stall_dots
           /\ v.fetched = r.fetched /\ v.fetcher = r.fetcher /\ v.bg_fifo = r.bg_fifo
           /\ v.obj_fifo = r.obj_fifo /\ v.window = r.window /\ v.window_line = r.window_line
           /\ (/\ dot \in Nat /\ scan \in 0 .. OAM_ENTRIES /\ pending_y \in ScanRows
               /\ line_objs \in Seq(TicketSet)) => v \in Renders
BY DEF Renders, Scanned

\* What has been found stays found when no entry is completed.
LEMMA ScannedStays ==
    ASSUME NEW s, NEW r, NEW v, v.scan = r.scan, v.line_objs = r.line_objs, ScannedOK(s, r)
    PROVE  ScannedOK(s, v)
<1>1. Tickets(v) = Tickets(r)
  BY DEF Tickets
<1> QED
  BY <1>1 DEF ScannedOK

\* What a dot of the scan makes of the line.
ScanAfter(r) == [advance_live_oam_scan(r) EXCEPT !.dot = @ + 1]
ScanDot(v, r) ==
    /\ v.dot = r.dot + 1 /\ v.window_line = r.window_line

(* Without objects in the profile a dot of the scan finds nothing and counts  *)
(* on.                                                                        *)
LEMMA ScanOff ==
    ASSUME ~ obj_profile_enabled, Linked, NEW r, ScanningOK(Scanline, r, reply),
           NEW v, v = ScanAfter(r)
    PROVE  ScanHeld(Scanline, v) /\ ScanDot(v, r)
<1>1. reply = NoReply /\ r \in Renders /\ ScanHeld(Scanline, r)
  BY DEF ScanningOK, ScanHeld, live_oam_scan_req
<1>2. advance_live_oam_scan(r) = r
  BY <1>1 DEF advance_live_oam_scan, NoReply
<1>4. r.dot \in Nat /\ r.scan \in 0 .. OAM_ENTRIES /\ r.pending_y \in ScanRows
      /\ r.line_objs \in Seq(TicketSet)
  BY <1>1 DEF Renders
<1>5. PICK dot, scan, row, objs : /\ dot = r.dot + 1 /\ scan = r.scan /\ row = r.pending_y
                                  /\ objs = r.line_objs
  OBVIOUS
<1>3. v = Scanned(r, dot, scan, row, objs)
  BY <1>1, <1>2, <1>5 DEF Scanned, ScanAfter, Renders
<1>6. /\ dot \in Nat /\ scan \in 0 .. OAM_ENTRIES /\ row \in ScanRows
      /\ objs \in Seq(TicketSet)
  BY <1>4, <1>5
<1>7. /\ v.dot = dot /\ v.scan = scan /\ v.pending_y = row /\ v.line_objs = objs
      /\ v.x_out = r.x_out /\ v.discard = r.discard /\ v.stall_dots = r.stall_dots
      /\ v.fetched = r.fetched /\ v.fetcher = r.fetcher /\ v.bg_fifo = r.bg_fifo
      /\ v.obj_fifo = r.obj_fifo /\ v.window = r.window /\ v.window_line = r.window_line
      /\ v \in Renders
  BY <1>1, <1>3, <1>6, ScannedRender
<1>8. ScannedOK(Scanline, v)
  <2>1. ScannedOK(Scanline, r)
    BY <1>1 DEF ScanHeld
  <2> QED
    BY <1>5, <1>7, <2>1, ScannedStays
<1> QED
  BY <1>1, <1>5, <1>7, <1>8 DEF ScanHeld, ScanDot

\* The row of an entry comes in.
LEMMA ScanRow ==
    ASSUME obj_profile_enabled, Linked, NEW r, ScanningOK(Scanline, r, reply), r.pending_y < 0,
           NEW v, v = ScanAfter(r)
    PROVE  ScanHeld(Scanline, v) /\ ScanDot(v, r)
<1>1. r \in Renders /\ ScanHeld(Scanline, r) /\ reply = live_oam_scan_req(r)
  BY DEF ScanningOK, ScanHeld
<1>2. Scanline.oam = scene.oam /\ scene.oam \in ObjectTable
  BY ScanlineFields DEF Linked
<1>3. r.dot \in Nat /\ r.scan \in 0 .. OAM_ENTRIES /\ r.line_objs \in Seq(TicketSet)
      /\ r.scan \in Nat /\ OAM_ENTRIES \in Nat
  BY <1>1, SpatialAssumption DEF Renders
<1>4. r.dot = 2 * r.scan /\ r.scan < OAM_ENTRIES
  <2>1. r.dot = 2 * r.scan + 0
    BY <1>1 DEF ScanHeld
  <2>2. r.dot < 2 * OAM_ENTRIES
    BY DEF ScanningOK
  <2> QED
    BY <1>3, <2>1, <2>2
<1>5. PICK y : y = scene.oam[r.scan].y
  OBVIOUS
<1>6. reply = Reply("OamScanner", y)
  BY <1>1, <1>3, <1>4, <1>5 DEF live_oam_scan_req
<1>7. y \in Bytes /\ y \in 0 .. 255
  <2>1. r.scan \in 0 .. OAM_ENTRIES - 1
    BY <1>3, <1>4
  <2> QED
    BY <1>2, <1>5, <2>1 DEF ObjectTable, Bytes
<1>8. PICK dot, scan, objs : dot = r.dot + 1 /\ scan = r.scan /\ objs = r.line_objs
  OBVIOUS
<1>9. v = Scanned(r, dot, scan, y, objs)
  <2>1. advance_live_oam_scan(r) = [r EXCEPT !.pending_y = y]
    BY <1>6 DEF advance_live_oam_scan, Reply
  <2> QED
    BY <1>1, <1>8, <2>1 DEF Scanned, ScanAfter, Renders
<1>10. /\ v.dot = dot /\ v.scan = scan /\ v.pending_y = y /\ v.line_objs = objs
       /\ v.x_out = r.x_out /\ v.discard = r.discard /\ v.stall_dots = r.stall_dots
       /\ v.fetched = r.fetched /\ v.fetcher = r.fetcher /\ v.bg_fifo = r.bg_fifo
       /\ v.obj_fifo = r.obj_fifo /\ v.window = r.window /\ v.window_line = r.window_line
       /\ v \in Renders
  <2>1. /\ dot \in Nat /\ y \in ScanRows /\ scan \in 0 .. OAM_ENTRIES
        /\ objs \in Seq(TicketSet)
    BY <1>3, <1>7, <1>8 DEF ScanRows
  <2> QED
    BY <1>1, <1>9, <2>1, ScannedRender
<1>11. ScannedOK(Scanline, v)
  <2>1. ScannedOK(Scanline, r)
    BY <1>1 DEF ScanHeld
  <2> QED
    BY <1>8, <1>10, <2>1, ScannedStays
<1>12. v.dot = 2 * v.scan + (IF v.pending_y < 0 THEN 0 ELSE 1) /\ v.pending_y = Scanline.oam[v.scan].y
  <2>1. PICK n \in Nat : n = r.scan
    BY <1>3
  <2>2. ~ y < 0
    BY <1>7
  <2>3. dot = 2 * n + 1
    BY <1>4, <1>8, <2>1
  <2>4. v.dot = 2 * v.scan + 1
    BY <1>8, <1>10, <2>1, <2>3
  <2>5. v.pending_y = Scanline.oam[v.scan].y
    BY <1>2, <1>5, <1>8, <1>10
  <2> QED
    BY <1>10, <2>2, <2>4, <2>5
<1> QED
  BY <1>1, <1>8, <1>10, <1>11, <1>12 DEF ScanHeld, ScanDot

\* The column of an entry comes in, and the object is on the line or not.
LEMMA ScanColumn ==
    ASSUME obj_profile_enabled, Linked, regs = LineRegs(ly), NEW r,
           ScanningOK(Scanline, r, reply), r.pending_y >= 0,
           NEW v, v = ScanAfter(r)
    PROVE  ScanHeld(Scanline, v) /\ ScanDot(v, r)
<1> DEFINE s == Scanline
<1>1. r \in Renders /\ ScanHeld(s, r) /\ ScannedOK(s, r) /\ reply = live_oam_scan_req(r)
  BY DEF ScanningOK, ScanHeld
<1>2. /\ s.oam = scene.oam /\ s.oam \in ObjectTable /\ s.ly = ly /\ s.regs = regs
      /\ s.regs \in PpuRegisters /\ s.ly \in Nat
  BY ScanlineFields DEF Linked
<1>3. PICK n : n = r.scan
  OBVIOUS
<1>4. PICK objs : objs = r.line_objs
  OBVIOUS
<1>5. /\ r.dot \in Nat /\ n \in 0 .. OAM_ENTRIES /\ n \in Nat /\ OAM_ENTRIES \in Nat
      /\ objs \in Seq(TicketSet) /\ Len(objs) \in Nat /\ MAX_LINE_OBJS \in Nat
      /\ r.pending_y \in 0 .. 255
  <2>1. r.pending_y \in 0 .. 255
    BY <1>1 DEF Renders, ScanRows, Bytes
  <2>2. /\ r.dot \in Nat /\ n \in 0 .. OAM_ENTRIES /\ n \in Nat /\ OAM_ENTRIES \in Nat
        /\ MAX_LINE_OBJS \in Nat
    BY <1>1, <1>3, SpatialAssumption DEF Renders
  <2>3. objs \in Seq(TicketSet) /\ Len(objs) \in Nat
    BY <1>1, <1>4 DEF Renders
  <2> QED
    BY <2>1, <2>2, <2>3
<1>6. r.dot = 2 * n + 1 /\ r.pending_y = s.oam[n].y
  <2>1. PICK row \in 0 .. 255 : row = r.pending_y
    BY <1>5
  <2>2. ~ (row < 0) /\ row >= 0
    OBVIOUS
  <2> QED
    BY <1>1, <1>3, <2>1, <2>2 DEF ScanHeld
<1>7. n < OAM_ENTRIES /\ n \in 0 .. OAM_ENTRIES - 1
  <2>1. r.dot < 2 * OAM_ENTRIES
    BY DEF ScanningOK
  <2> QED
    BY <1>5, <1>6, <2>1
<1>8. PICK y : y = r.pending_y
  OBVIOUS
<1>9. PICK x : x = s.oam[n].x
  OBVIOUS
<1>10. x \in Bytes /\ y \in Bytes /\ x \in 0 .. 255 /\ y \in 0 .. 255
  BY <1>2, <1>5, <1>7, <1>8, <1>9 DEF ObjectTable, Bytes
<1>11. reply = Reply("OamScanner", x)
  <2>1. ~ (r.pending_y < 0)
    <3>1. PICK row \in 0 .. 255 : row = r.pending_y
      BY <1>5
    <3>2. ~ (row < 0)
      OBVIOUS
    <3> QED
      BY <3>1, <3>2
  <2>2. ~ (r.scan >= OAM_ENTRIES)
    <3>1. ~ (n >= OAM_ENTRIES)
      BY <1>5, <1>7
    <3> QED
      BY <1>3, <3>1
  <2> QED
    BY <1>1, <1>2, <1>3, <1>9, <2>1, <2>2 DEF live_oam_scan_req
<1>12. obj_overlaps_scanline(y) <=> Meets(s, n)
  <2>1. obj_height(regs) \in 8 .. 16 /\ obj_height(s.regs) = obj_height(regs)
    BY <1>2 DEF obj_height
  <2>2. PICK h \in 8 .. 16 : h = obj_height(regs)
    BY <2>1
  <2>3. s.oam[n].y = y /\ s.ly = ly /\ ly \in Nat
    BY <1>2, <1>6, <1>8
  <2>4. (ly + 16 >= y /\ ly + 16 < y + h) <=> ly + 16 \in y .. y + h - 1
    BY <1>10, <2>2, <2>3
  <2> QED
    BY <2>1, <2>2, <2>3, <2>4 DEF obj_overlaps_scanline, Meets
<1> DEFINE rank == RankOf(s, n)
           selected == regs.obj_enable /\ Meets(s, n) /\ Len(objs) < MAX_LINE_OBJS
           found == IF selected
                    THEN Append(objs, [oam_index |-> n, x |-> x, y |-> y, rank |-> Len(objs)])
                    ELSE objs
<1>13. advance_live_oam_scan(r) =
         [r EXCEPT !.scan = n + 1, !.pending_y = -1, !.line_objs = found]
  <2>1. reply.to = "OamScanner" /\ reply.data = x
    BY <1>11 DEF Reply
  <2>2. ~ (r.pending_y < 0)
    <3>1. ~ (y < 0)
      BY <1>10
    <3> QED
      BY <1>8, <3>1
  <2>3. obj_overlaps_scanline(r.pending_y) <=> Meets(s, n)
    BY <1>8, <1>12
  <2>4. (/\ regs.obj_enable /\ obj_overlaps_scanline(r.pending_y)
         /\ Len(r.line_objs) < MAX_LINE_OBJS) <=> selected
    BY <1>4, <2>3
  <2>5. [oam_index |-> r.scan, x |-> reply.data, y |-> r.pending_y, rank |-> Len(r.line_objs)]
          = [oam_index |-> n, x |-> x, y |-> y, rank |-> Len(objs)]
    BY <1>3, <1>4, <1>8, <2>1
  <2>6. (IF /\ regs.obj_enable /\ obj_overlaps_scanline(r.pending_y)
            /\ Len(r.line_objs) < MAX_LINE_OBJS
         THEN Append(r.line_objs, [oam_index |-> r.scan, x |-> reply.data, y |-> r.pending_y,
                                   rank |-> Len(r.line_objs)])
         ELSE r.line_objs) = found
    BY <1>4, <2>4, <2>5
  <2> HIDE DEF found, selected
  <2> QED
    BY <1>1, <1>3, <2>1, <2>2, <2>6 DEF advance_live_oam_scan
<1>14. rank \in Nat
  BY <1>5, RankNatural
<1>15. selected => TicketOf(s, n) = [oam_index |-> n, x |-> x, y |-> y, rank |-> Len(objs)]
                   /\ rank < MAX_LINE_OBJS
  <2> SUFFICES ASSUME selected PROVE TicketOf(s, n) =
                         [oam_index |-> n, x |-> x, y |-> y, rank |-> Len(objs)]
                       /\ rank < MAX_LINE_OBJS
    OBVIOUS
  <2>1. Len(objs) = IF rank < MAX_LINE_OBJS THEN rank ELSE MAX_LINE_OBJS
    BY <1>1, <1>2, <1>3, <1>4 DEF ScannedOK
  <2>2. Len(objs) = rank /\ rank < MAX_LINE_OBJS
    BY <1>5, <1>14, <2>1
  <2> QED
    BY <1>6, <1>8, <1>9, <2>2 DEF TicketOf
<1>16. found \in Seq(TicketSet)
  <2>1. CASE selected
    <3>1. PICK ticket : ticket = [oam_index |-> n, x |-> x, y |-> y, rank |-> Len(objs)]
      OBVIOUS
    <3>2. ticket \in TicketSet
      BY <1>5, <1>7, <1>10, <3>1 DEF TicketSet
    <3>3. found = Append(objs, ticket)
      BY <2>1, <3>1
    <3> QED
      BY <1>5, <3>2, <3>3
  <2>2. CASE ~ selected
    BY <1>5, <2>2
  <2> QED
    BY <2>1, <2>2
<1>17. PICK dot, scan, row : dot = r.dot + 1 /\ scan = n + 1 /\ row = -1
  OBVIOUS
<1>18. PICK list : list = found
  OBVIOUS
<1>19. v = Scanned(r, dot, scan, row, list)
  <2> HIDE DEF found
  <2> QED
    BY <1>1, <1>13, <1>17, <1>18 DEF Scanned, ScanAfter, Renders
<1>20. /\ v.dot = dot /\ v.scan = scan /\ v.pending_y = row /\ v.line_objs = list
       /\ v.x_out = r.x_out /\ v.discard = r.discard /\ v.stall_dots = r.stall_dots
       /\ v.fetched = r.fetched /\ v.fetcher = r.fetcher /\ v.bg_fifo = r.bg_fifo
       /\ v.obj_fifo = r.obj_fifo /\ v.window = r.window /\ v.window_line = r.window_line
       /\ v \in Renders
  <2>1. /\ dot \in Nat /\ scan \in 0 .. OAM_ENTRIES /\ row \in ScanRows
        /\ list \in Seq(TicketSet)
    BY <1>5, <1>7, <1>16, <1>17, <1>18 DEF ScanRows
  <2> HIDE DEF found
  <2> QED
    BY <1>1, <1>19, <2>1, ScannedRender
<1>21. ScannedOK(s, v)
  <2>1. CASE ~ regs.obj_enable
    BY <1>1, <1>2, <1>4, <1>18, <1>20, <2>1 DEF ScannedOK
  <2>2. CASE regs.obj_enable
    <3>1. /\ Len(objs) = IF rank < MAX_LINE_OBJS THEN rank ELSE MAX_LINE_OBJS
          /\ Tickets(r) = {TicketOf(s, i) : i \in Chosen(s, n)}
      BY <1>1, <1>2, <1>3, <1>4, <2>2 DEF ScannedOK
    <3>2. RankOf(s, n + 1) = IF Meets(s, n) THEN rank + 1 ELSE rank
      BY <1>5, RankStep
    <3>3. Chosen(s, n + 1) = IF Meets(s, n) /\ rank < MAX_LINE_OBJS THEN Chosen(s, n) \cup {n}
                             ELSE Chosen(s, n)
      BY <1>5, ChosenStep
    <3>4. CASE selected
      <4>1. PICK ticket : ticket = TicketOf(s, n)
        OBVIOUS
      <4>2. list = Append(objs, ticket)
        BY <1>15, <1>18, <3>4, <4>1
      <4>3. Len(list) = Len(objs) + 1 /\ DOMAIN list = DOMAIN objs \cup {Len(objs) + 1}
            /\ list[Len(objs) + 1] = ticket /\ \A k \in DOMAIN objs : list[k] = objs[k]
        BY <1>5, <4>2
      <4>4. Tickets(v) = Tickets(r) \cup {ticket}
        BY <1>4, <1>20, <4>3 DEF Tickets
      <4>5. Tickets(v) = {TicketOf(s, i) : i \in Chosen(s, n + 1)}
        BY <1>15, <3>1, <3>3, <3>4, <4>1, <4>4
      <4>6. Len(list) = IF RankOf(s, n + 1) < MAX_LINE_OBJS THEN RankOf(s, n + 1)
                        ELSE MAX_LINE_OBJS
        BY <1>5, <1>14, <1>15, <3>1, <3>2, <3>4, <4>3
      <4> QED
        BY <1>2, <1>17, <1>20, <2>2, <4>5, <4>6 DEF ScannedOK
    <3>5. CASE ~ selected
      <4>1. list = objs
        BY <1>18, <3>5
      <4>2. Tickets(v) = Tickets(r)
        BY <1>4, <1>20, <4>1 DEF Tickets
      <4>3. ~ (Meets(s, n) /\ rank < MAX_LINE_OBJS)
        BY <1>5, <1>14, <2>2, <3>1, <3>5
      <4>4. Tickets(v) = {TicketOf(s, i) : i \in Chosen(s, n + 1)}
        BY <3>1, <3>3, <4>2, <4>3
      <4>5. Len(list) = IF RankOf(s, n + 1) < MAX_LINE_OBJS THEN RankOf(s, n + 1)
                        ELSE MAX_LINE_OBJS
        BY <1>5, <1>14, <3>1, <3>2, <4>1, <4>3
      <4> QED
        BY <1>2, <1>17, <1>20, <2>2, <4>4, <4>5 DEF ScannedOK
    <3> QED
      BY <3>4, <3>5
  <2> QED
    BY <2>1, <2>2
<1>22. /\ v.dot = 2 * v.scan + (IF v.pending_y < 0 THEN 0 ELSE 1)
       /\ ~ v.pending_y >= 0
  <2>1. row < 0 /\ ~ row >= 0
    BY <1>17
  <2>2. dot = 2 * scan
    BY <1>5, <1>6, <1>17
  <2>3. dot = 2 * scan + 0
    BY <1>5, <1>17, <2>2
  <2> QED
    BY <1>20, <2>1, <2>3
<1>23. v.dot = r.dot + 1
  BY <1>17, <1>20
<1> HIDE DEF found, selected, rank
<1> QED
  BY <1>1, <1>20, <1>21, <1>22, <1>23 DEF ScanHeld, ScanDot

(* A dot of the scan, in either profile: the objects found are the first of   *)
(* the table that meet the line (advance_live_oam_scan).                      *)
LEMMA ScanStep ==
    ASSUME Linked, regs = LineRegs(ly), NEW r, ScanningOK(Scanline, r, reply),
           NEW v, v = ScanAfter(r)
    PROVE  ScanHeld(Scanline, v) /\ ScanDot(v, r)
<1>1. r.pending_y \in ScanRows
  BY DEF ScanningOK, ScanHeld, Renders
<1>2. r.pending_y < 0 \/ r.pending_y >= 0
  BY <1>1 DEF ScanRows, Bytes
<1> QED
  BY <1>2, ScanOff, ScanRow, ScanColumn

(**************************** a dot of the transfer ************************)
Rested(t, stall) == [t EXCEPT !.stall_dots = stall]

\* The fields of a render that a resting dot changes.
LEMMA RestedRender ==
    ASSUME NEW t, t \in Renders, NEW stall, stall \in 0 .. 6, NEW v, v = Rested(t, stall)
    PROVE  /\ v \in Renders /\ SameQueues(v, t) /\ v.fetcher = t.fetcher
           /\ v.bg_fetcher_resume = t.bg_fetcher_resume /\ v.ticket = t.ticket
           /\ v.obj_flags = t.obj_flags /\ v.line_objs = t.line_objs /\ v.fetched = t.fetched
           /\ v.obj_fifo = t.obj_fifo /\ v.x_out = t.x_out /\ v.window_line = t.window_line
BY DEF Renders, Rested, SameQueues

\* A dot in which the line rests.
LEMMA RestKept ==
    ASSUME Linked, NEW t, DrawingOK(Scanline, t, reply), WindowLineOK(t), ~ t.fetcher.pending,
           NEW stall, stall \in 0 .. 6, NEW v, v = Rested(t, stall)
    PROVE  DrawingOK(Scanline, v, NoReply) /\ WindowLineOK(v) /\ ~ v.fetcher.pending
<1> DEFINE s == Scanline
<1>1. /\ t \in Renders /\ QueueOK(s, t) /\ WindowOK(s, t) /\ FetchedOK(s, t) /\ SlotsOK(s, t)
      /\ t.fetcher.source = "Object" =>
            /\ \E i \in LineObjs(s) : ObjFetching(s, t, reply, i)
            /\ Answering(s, t.bg_fetcher_resume, NoReply)
  BY DEF DrawingOK
<1>2. /\ v \in Renders /\ SameQueues(v, t) /\ v.fetcher = t.fetcher
      /\ v.bg_fetcher_resume = t.bg_fetcher_resume /\ v.ticket = t.ticket
      /\ v.obj_flags = t.obj_flags /\ v.line_objs = t.line_objs /\ v.fetched = t.fetched
      /\ v.obj_fifo = t.obj_fifo /\ v.x_out = t.x_out /\ v.window_line = t.window_line
  BY <1>1, RestedRender
<1>3. TileFetcher(v) = TileFetcher(t)
  BY <1>2 DEF TileFetcher
<1>4. QueueOK(s, v) /\ WindowOK(s, v) /\ WindowLineOK(v)
  BY <1>1, <1>2, <1>3, QueueStays
<1>5. FetchedOK(s, v) /\ SlotsOK(s, v)
  BY <1>1, <1>2, FetchedStays, SlotsStay
<1>6. NoReply \in Replies
  BY DEF NoReply, Replies, Bytes
<1>7. CASE t.fetcher.source = "Object"
  <2>1. PICK i \in LineObjs(s) : ObjFetching(s, t, reply, i)
    BY <1>1, <1>7
  <2>2. ObjFetching(s, v, NoReply, i)
    BY <1>2, <2>1 DEF ObjFetching
  <2> QED
    BY <1>1, <1>2, <1>4, <1>5, <1>6, <1>7, <2>2 DEF DrawingOK
<1>8. CASE t.fetcher.source # "Object"
  <2>1. Answering(s, v.fetcher, NoReply)
    BY <1>2 DEF Answering
  <2> QED
    BY <1>2, <1>4, <1>5, <1>6, <1>8, <2>1 DEF DrawingOK
<1> QED
  BY <1>2, <1>4, <1>7, <1>8

\* A dot that draws nothing is right when what it leaves is.
LEMMA NoPixelDot ==
    ASSUME NEW v, NEW req, DrawingOK(Scanline, v, req), WindowLineOK(v), Resting(v),
           NEW out, out = [render |-> v, req |-> req, pixel |-> <<>>], NEW x
    PROVE  DotOK(out, x)
BY DEF DotOK, RightPixel

\* Whatever a dot of the line does, it goes on as the reference has it.
LEMMA TransferKept ==
    ASSUME Linked, regs \in PpuRegisters, WindowInside(Scanline.regs), ClearOfEdge(Scanline),
           NEW r, DrawingOK(Scanline, r, reply), WindowLineOK(r), Resting(r),
           r.x_out < SCREEN_WIDTH, NEW out, out = apply_live_transfer(r, FALSE)
    PROVE  DotOK(out, r.x_out)
<1>1. PICK t : t = WithObjects(r)
  OBVIOUS
<1>2. reply \in Replies
  BY DEF DrawingOK
<1>3. /\ DrawingOK(Scanline, t, reply) /\ WindowLineOK(t) /\ Resting(t) /\ t.x_out = r.x_out
      /\ t.fetcher.source = "Object" => obj_enabled
      /\ t.fetcher.source # "Object" => Caught(Scanline, t) /\ t = r
  BY <1>1, <1>2, ObjectsKept
<1>4. PICK stall \in 0 .. 6 : stall = t.stall_dots
  BY <1>3 DEF DrawingOK, Renders
<1>5. stall > 0 \/ stall = 0
  OBVIOUS
<1>6. CASE obj_profile_enabled /\ stall > 0
  <2>1. PICK less : less = stall - 1
    OBVIOUS
  <2>2. less \in 0 .. 6
    BY <1>6, <2>1
  <2>3. t.stall_dots - 1 = less
    BY <1>4, <2>1
  <2>4. PICK v : v = Rested(t, less)
    OBVIOUS
  <2>5. out = [render |-> v, req |-> NoReply, pixel |-> <<>>]
    <3>1. [t EXCEPT !.stall_dots = t.stall_dots - 1] = v
      BY <2>3, <2>4 DEF Rested
    <3>2. t.stall_dots > 0
      BY <1>4, <1>6
    <3>3. ~ (t.stall_dots = 0)
      BY <1>4, <1>6
    <3> QED
      BY <1>1, <1>6, <3>1, <3>2, <3>3, Zenon DEF apply_live_transfer
  <2>6. ~ t.fetcher.pending
    BY <1>3, <1>4, <1>6 DEF Resting
  <2>7. DrawingOK(Scanline, v, NoReply) /\ WindowLineOK(v) /\ ~ v.fetcher.pending
    BY <1>3, <2>2, <2>4, <2>6, RestKept
  <2> QED
    <3>1. PICK req : req = NoReply
      OBVIOUS
    <3>2. Resting(v) /\ DrawingOK(Scanline, v, req) /\ WindowLineOK(v)
      BY <2>7, <3>1 DEF Resting
    <3> QED
      BY <2>5, <3>1, <3>2, NoPixelDot
<1>7. CASE stall = 0 /\ obj_enabled /\ t.fetcher.source = "Object"
  <2>1. ~ (t.stall_dots > 0)
    BY <1>4, <1>7
  <2>2. out = advance_live_obj_fetch(t)
    BY <1>1, <1>4, <1>7, <2>1 DEF apply_live_transfer
  <2>3. t.stall_dots = 0
    BY <1>4, <1>7
  <2>4. PICK x : x = r.x_out
    OBVIOUS
  <2>5. DotOK(out, x)
    BY <1>3, <1>7, <2>2, <2>3, ObjectDot
  <2> QED
    BY <2>4, <2>5
<1>8. CASE /\ ~ (obj_profile_enabled /\ stall > 0)
           /\ ~ (stall = 0 /\ obj_enabled /\ t.fetcher.source = "Object")
  <2>1. t.fetcher.source # "Object"
    BY <1>3, <1>5, <1>8 DEF obj_enabled
  <2>2. obj_profile_enabled => t.stall_dots = 0
    BY <1>4, <1>5, <1>8
  <2>3. out = BackgroundDot(t, FALSE)
    <3>1. ~ (obj_profile_enabled /\ t.stall_dots > 0)
      BY <1>4, <1>8
    <3>2. ~ (t.stall_dots = 0 /\ obj_enabled /\ t.fetcher.source = "Object")
      BY <2>1
    <3> QED
      BY <1>1, <3>1, <3>2 DEF apply_live_transfer
  <2>4. t.x_out < SCREEN_WIDTH
    BY <1>3
  <2>5. DotOK(BackgroundDot(t, FALSE), t.x_out)
    BY <1>2, <1>3, <2>1, <2>2, <2>4, BackgroundKept
  <2> QED
    BY <1>3, <2>3, <2>5
<1> QED
  BY <1>6, <1>7, <1>8

(************************* the first dot of a line *************************)
Seeded(u, discard) == [u EXCEPT !.discard = discard]
Refetched(u, fetcher) == [u EXCEPT !.fetcher = fetcher]

\* The fields of a render that the seed of the fine scroll changes.
LEMMA SeededRender ==
    ASSUME NEW u, u \in Renders, NEW discard, discard \in 0 .. 7, NEW v, v = Seeded(u, discard)
    PROVE  /\ v \in Renders /\ v.discard = discard /\ v.x_out = u.x_out /\ v.stall_dots = u.stall_dots
           /\ v.fetched = u.fetched /\ v.fetcher = u.fetcher /\ v.bg_fifo = u.bg_fifo
           /\ v.obj_fifo = u.obj_fifo /\ v.window = u.window /\ v.window_line = u.window_line
           /\ v.line_objs = u.line_objs
BY DEF Renders, Seeded

\* The fields of a render that a new fetcher changes.
LEMMA RefetchedRender ==
    ASSUME NEW u, u \in Renders, NEW fetcher, fetcher \in Fetchers, NEW v, v = Refetched(u, fetcher)
    PROVE  /\ v \in Renders /\ v.discard = u.discard /\ v.x_out = u.x_out /\ v.stall_dots = u.stall_dots
           /\ v.fetched = u.fetched /\ v.fetcher = fetcher /\ v.bg_fifo = u.bg_fifo
           /\ v.obj_fifo = u.obj_fifo /\ v.window = u.window /\ v.window_line = u.window_line
           /\ v.line_objs = u.line_objs /\ v.dot = u.dot /\ v.scan = u.scan
           /\ v.pending_y = u.pending_y /\ v.ticket = u.ticket /\ v.obj_flags = u.obj_flags
           /\ v.bg_fetcher_resume = u.bg_fetcher_resume
BY DEF Renders, Refetched

\* A drawing dot overwrites the fetcher, whichever it started from.
LEMMA MovedAnyway ==
    ASSUME NEW r, NEW f, NEW window, NEW window_line, NEW fetcher, NEW stall,
           NEW bg_fifo, NEW discard, NEW obj_fifo, NEW x_out
    PROVE  Moved(Refetched(r, f), window, window_line, fetcher, stall, bg_fifo, discard, obj_fifo,
                 x_out)
         = Moved(r, window, window_line, fetcher, stall, bg_fifo, discard, obj_fifo, x_out)
BY DEF Moved, Refetched

\* A dot of the background, as far as it looks at the render.
DotOf(r, f, bg_fifo, discard, objs, x_out, line, stall, window) ==
    LET fetched == advance_bg_fetcher(f, bg_fifo)
        fifo == IF window.restart THEN <<>> ELSE bg_fifo \o fetched.push
        popped == pop_bg_fifo(fifo, discard)
        obj_valid == obj_enabled /\ objs.count > 0
        added == IF window.restart THEN 6 ELSE 0
    IN [render |->
            Moved(r, window.state, window.window_line,
                  IF window.restart THEN restart_window_fetcher(line) ELSE fetched.fetcher,
                  IF obj_profile_enabled THEN stall + added ELSE added,
                  popped.fifo, popped.discard,
                  IF ~ obj_enabled THEN empty_obj_fifo
                  ELSE IF popped.pixel_valid THEN pop_obj_fifo(objs) ELSE objs,
                  IF popped.pixel_valid THEN x_out + 1 ELSE x_out),
        req |-> IF window.restart THEN NoReply ELSE fetched.req,
        pixel |-> IF popped.pixel_valid
                  THEN <<mix_bg_obj_pixel(Head(fifo), obj_valid, objs.pixels[0])>> ELSE <<>>]

\* Its outcome does not depend on the fetcher the render holds.
LEMMA DotAnyway ==
    ASSUME NEW r, NEW f, NEW v, v = Refetched(r, f),
           NEW g, NEW queue, NEW discard, NEW objs, NEW x_out, NEW line, NEW stall, NEW window
    PROVE  DotOf(v, g, queue, discard, objs, x_out, line, stall, window)
         = DotOf(r, g, queue, discard, objs, x_out, line, stall, window)
<1> DEFINE fetched == advance_bg_fetcher(g, queue)
           fifo == IF window.restart THEN <<>> ELSE queue \o fetched.push
           popped == pop_bg_fifo(fifo, discard)
           added == IF window.restart THEN 6 ELSE 0
           fetcher == IF window.restart THEN restart_window_fetcher(line) ELSE fetched.fetcher
           rest == IF obj_profile_enabled THEN stall + added ELSE added
           left == IF ~ obj_enabled THEN empty_obj_fifo
                   ELSE IF popped.pixel_valid THEN pop_obj_fifo(objs) ELSE objs
           x == IF popped.pixel_valid THEN x_out + 1 ELSE x_out
           req == IF window.restart THEN NoReply ELSE fetched.req
           pixel == IF popped.pixel_valid
                    THEN <<mix_bg_obj_pixel(Head(fifo), obj_enabled /\ objs.count > 0, objs.pixels[0])>>
                    ELSE <<>>
           kept(u) == Moved(u, window.state, window.window_line, fetcher, rest, popped.fifo,
                            popped.discard, left, x)
<1>1. kept(v) = kept(r)
  <2> HIDE DEF fetcher, rest, popped, left, x
  <2> QED
    BY MovedAnyway
<1>2. DotOf(v, g, queue, discard, objs, x_out, line, stall, window)
        = [render |-> kept(v), req |-> req, pixel |-> pixel]
  BY DEF DotOf
<1>3. DotOf(r, g, queue, discard, objs, x_out, line, stall, window)
        = [render |-> kept(r), req |-> req, pixel |-> pixel]
  BY DEF DotOf
<1> HIDE DEF kept, req, pixel
<1> QED
  BY <1>1, <1>2, <1>3

\* A dot that draws looks at these fields of the render only.
LEMMA DotFields ==
    ASSUME NEW u, NEW entering
    PROVE  BackgroundDot(u, entering) =
             DotOf(u, IF entering THEN start_bg_fetcher(0) ELSE u.fetcher, u.bg_fifo, u.discard,
                   u.obj_fifo, u.x_out, u.window_line, u.stall_dots, step_window_state(u))
BY DEF BackgroundDot, DotOf, Moved

\* A dot that begins the line is a dot with the fetcher at the first tile.
LEMMA EnteringDot ==
    ASSUME NEW r, r \in Renders, NEW f, f = start_bg_fetcher(0), f \in Fetchers,
           NEW v, v = Refetched(r, f)
    PROVE  BackgroundDot(r, TRUE) = BackgroundDot(v, FALSE)
<1>1. /\ v.discard = r.discard /\ v.x_out = r.x_out /\ v.stall_dots = r.stall_dots /\ v.fetcher = f
      /\ v.bg_fifo = r.bg_fifo /\ v.obj_fifo = r.obj_fifo /\ v.window = r.window
      /\ v.window_line = r.window_line /\ v \in Renders
  BY RefetchedRender
<1>2. step_window_state(v) = step_window_state(r)
  BY <1>1 DEF step_window_state, window_triggered
<1>3. BackgroundDot(r, TRUE) =
        DotOf(r, f, r.bg_fifo, r.discard, r.obj_fifo, r.x_out, r.window_line, r.stall_dots,
              step_window_state(r))
  <2>1. (IF TRUE THEN start_bg_fetcher(0) ELSE r.fetcher) = f
    OBVIOUS
  <2> QED
    BY <2>1, DotFields
<1>4. BackgroundDot(v, FALSE) =
        DotOf(v, f, r.bg_fifo, r.discard, r.obj_fifo, r.x_out, r.window_line, r.stall_dots,
              step_window_state(r))
  <2>1. (IF FALSE THEN start_bg_fetcher(0) ELSE v.fetcher) = f
    BY <1>1
  <2> QED
    BY <1>1, <1>2, <2>1, DotFields
<1>5. DotOf(v, f, r.bg_fifo, r.discard, r.obj_fifo, r.x_out, r.window_line, r.stall_dots,
            step_window_state(r))
    = DotOf(r, f, r.bg_fifo, r.discard, r.obj_fifo, r.x_out, r.window_line, r.stall_dots,
            step_window_state(r))
  BY DotAnyway
<1> QED
  BY <1>3, <1>4, <1>5

\* A render that the scan has left, ready to draw: the fetcher at the first tile
\* and the fine scroll still to be dropped.
Undrawn(v, u, f, discard) ==
    /\ v \in Renders /\ v.discard = discard /\ v.x_out = 0 /\ v.stall_dots = 0 /\ v.fetched = {}
    /\ v.fetcher = f /\ v.bg_fifo = <<>> /\ v.obj_fifo = empty_obj_fifo
    /\ v.window = u.window /\ v.window_line = u.window_line /\ v.line_objs = u.line_objs

\* The fetcher a line begins with is at the first tile of the background.
LEMMA FirstFetcher ==
    ASSUME Linked, NEW f, f = start_bg_fetcher(0)
    PROVE  /\ f \in Fetchers /\ f.source = "Background" /\ f.step = "GetTile" /\ ~ f.pending
           /\ Fetching(Scanline, f, 0)
<1>1. /\ Scanline.regs \in PpuRegisters /\ Scanline.ly \in Nat /\ Scanline.ly = ly
      /\ Scanline.window_line_counter \in Nat
  BY ScanlineFields DEF Linked
<1>2. regs.scx = Scanline.regs.scx /\ regs.scy = Scanline.regs.scy
  BY LinkedFields
<1>3. PICK source, mx, my, row : /\ source = "Background"
                                 /\ mx = MapColumn(Scanline, "Background", 0)
                                 /\ my = LayerLine(Scanline, "Background") \div 8
                                 /\ row = LayerLine(Scanline, "Background") % 8
  OBVIOUS
<1>4. mx \in 0 .. 31 /\ my \in 0 .. 31 /\ row \in 0 .. 7
  <2>1. "Background" \in {"Background", "Window"} /\ 0 \in Nat
    OBVIOUS
  <2>2. /\ MapColumn(Scanline, "Background", 0) \in 0 .. 31
        /\ LayerLine(Scanline, "Background") \div 8 \in 0 .. 31
        /\ LayerLine(Scanline, "Background") % 8 \in 0 .. 7
    BY <1>1, <2>1, TileTyped
  <2> QED
    BY <1>3, <2>2
<1>5. f = fetcher_reset(source, mx, my, row)
  <2>1. LayerLine(Scanline, "Background") = Low8(regs.scy + ly)
    BY <1>1, <1>2 DEF LayerLine
  <2>2. MapColumn(Scanline, "Background", 0) = (regs.scx \div 8 + 0) % 32
    BY <1>2 DEF MapColumn
  <2> QED
    BY <1>3, <2>1, <2>2 DEF start_bg_fetcher
<1>6. source \in {"Background", "Window", "Object"}
  BY <1>3
<1>7. /\ f \in Fetchers /\ f.source = source /\ f.map_x = mx /\ f.map_y = my
      /\ f.row = row /\ f.step = "GetTile" /\ ~ f.pending
  BY <1>4, <1>5, <1>6, ResetFetcher
<1>8. f.source = "Background"
  BY <1>3, <1>7
<1>9. Fetching(Scanline, f, 0)
  BY <1>3, <1>7, <1>8 DEF Fetching
<1> QED
  BY <1>7, <1>8, <1>9

\* A line on which nothing has been drawn, at its first tile.
LEMMA FirstDrawing ==
    ASSUME Linked, WindowInside(Scanline.regs), ClearOfEdge(Scanline),
           reply \in Replies,
           NEW u, ScanHeld(Scanline, u), u.dot = 2 * OAM_ENTRIES,
           u.window_line = counted % 256,
           NEW f, f = start_bg_fetcher(0),
           NEW discard, discard = Scanline.regs.scx % 8,
           NEW v, Undrawn(v, u, f, discard)
    PROVE  /\ DrawingOK(Scanline, v, reply) /\ WindowLineOK(v) /\ DueTickets(v) = {}
           /\ v.fetcher.source = "Background" /\ ~ v.fetcher.pending
<1> DEFINE s == Scanline
<1> /\ v \in Renders /\ v.discard = discard /\ v.x_out = 0 /\ v.stall_dots = 0 /\ v.fetched = {}
    /\ v.fetcher = f /\ v.bg_fifo = <<>> /\ v.obj_fifo = empty_obj_fifo
    /\ v.window = u.window /\ v.window_line = u.window_line /\ v.line_objs = u.line_objs
  BY DEF Undrawn
<1>1. /\ s.regs \in PpuRegisters /\ s.ly \in Nat /\ s.ly = ly /\ s.oam \in ObjectTable
      /\ s.window_line_counter = IF Windowed(s) THEN counted ELSE 0
      /\ Windowed(s) \in BOOLEAN /\ s.regs = LineRegs(ly)
  BY ScanlineFields DEF Linked
<1>2. /\ s.regs.scx \in 0 .. 255 /\ s.regs.scy \in 0 .. 255 /\ s.regs.wx \in 0 .. 255
      /\ counted \in Nat
  BY <1>1 DEF PpuRegisters, Bytes, Linked, LineTypeOK
<1>3. u \in Renders /\ ScannedOK(s, u) /\ v.window = IF Windowed(s) THEN "Armed" ELSE "Inactive"
  BY DEF ScanHeld
<1>4. discard \in 0 .. 7
  <2>1. PICK n \in 0 .. 255 : n = Scanline.regs.scx
    BY <1>2
  <2>2. n % 8 \in 0 .. 7
    OBVIOUS
  <2>3. discard = n % 8
    BY <2>1
  <2> QED
    BY <2>2, <2>3
<1>5. /\ f \in Fetchers /\ f.source = "Background" /\ f.step = "GetTile" /\ ~ f.pending
      /\ Fetching(s, f, 0)
  BY FirstFetcher

\* the queue
<1>6. QueueOK(s, v)
  <2>1. Layer(v) = "Background" /\ TileFetcher(v) = f
    BY <1>3, <1>5 DEF Layer, TileFetcher
  <2>2. HeadColumn(s, v) = 0
    <3>1. \A n \in 0 .. 7 : 0 + n - n = 0
      OBVIOUS
    <3>2. v.window # "Active"
      BY <1>3
    <3>3. HeadColumn(s, v) = 0 + discard - discard
      BY <3>2 DEF HeadColumn
    <3> QED
      BY <1>4, <3>1, <3>3
  <2>3. 0 + Len(<<>>) = 8 * 0
    OBVIOUS
  <2>4. \E tile \in Nat : HeadColumn(s, v) + Len(v.bg_fifo) = 8 * tile /\ Fetching(s, f, tile)
    BY <1>5, <2>2, <2>3
  <2>5. \A i \in 1 .. Len(v.bg_fifo) : FALSE
    OBVIOUS
  <2> QED
    BY <1>5, <2>1, <2>2, <2>4, <2>5 DEF QueueOK, QueueHolds
<1>7. WindowOK(s, v)
  <2>1. v.window = "Armed" => v.x_out + 7 <= s.regs.wx
    BY <1>2, <1>3 DEF WindowInside, Windowed
  <2>2. v.window = "Armed" => v.window_line = s.window_line_counter % 256
    BY <1>1, <1>3
  <2>3. v.discard <= s.regs.scx % 8
    BY <1>4
  <2> QED
    BY <1>1, <1>3, <2>1, <2>2, <2>3 DEF WindowOK

\* the objects
<1>8. Tickets(v) = {TicketOf(s, i) : i \in LineObjs(s)}
  <2>1. CASE s.regs.obj_enable
    <3>1. obj_profile_enabled
      BY <1>1, <2>1, LineRegsTyped DEF Linked, LineTypeOK
    <3>2. u.scan = OAM_ENTRIES
      <4>1. PICK n \in Nat : n = u.scan
        BY <1>3, SpatialAssumption DEF Renders
      <4>2. PICK e \in {0, 1} : e = IF u.pending_y < 0 THEN 0 ELSE 1
        OBVIOUS
      <4>3. 2 * OAM_ENTRIES = 2 * n + e
        BY <3>1, <4>1, <4>2 DEF ScanHeld
      <4> QED
        BY <4>1, <4>3, SpatialAssumption
    <3>3. Tickets(v) = Tickets(u)
      BY DEF Tickets
    <3> QED
      BY <1>3, <2>1, <3>2, <3>3 DEF ScannedOK, LineObjs
  <2>2. CASE ~ s.regs.obj_enable
    <3>1. v.line_objs = <<>>
      BY <1>3, <2>2 DEF ScannedOK
    <3>2. Tickets(v) = {}
      BY <3>1 DEF Tickets
    <3> QED
      BY <2>2, <3>2 DEF LineObjs
  <2> QED
    BY <2>1, <2>2
<1>9. ASSUME NEW i, i \in LineObjs(s)
       PROVE  s.oam[i].x \in 0 .. 255 /\ s.oam[i].x > 8
  BY <1>1, <1>9, LineObjFields DEF ClearOfEdge
<1>10. FetchedOK(s, v)
  <2>1. ASSUME NEW i \in LineObjs(s)
        PROVE  ~ (s.oam[i].x - 8 < v.x_out) /\ RankOf(s, i) \notin v.fetched
    <3>1. PICK a \in 0 .. 255 : a = s.oam[i].x
      BY <1>9
    <3>2. a > 8
      BY <1>9, <3>1
    <3>3. ~ (a - 8 < 0)
      BY <3>1, <3>2
    <3> QED
      BY <3>1, <3>3
  <2> QED
    BY <1>8, <2>1 DEF FetchedOK
<1>11. DueTickets(v) = {}
  <2>1. ASSUME NEW t \in DueTickets(v) PROVE FALSE
    <3>1. t \in Tickets(v) /\ v.x_out >= obj_trigger_x(t)
      BY <2>1 DEF DueTickets, Tickets
    <3>2. PICK i \in LineObjs(s) : t = TicketOf(s, i)
      BY <1>8, <3>1
    <3>3. t.x = s.oam[i].x
      BY <3>2, TicketFields
    <3>4. PICK a \in 0 .. 255 : a = t.x
      BY <1>9, <3>2, <3>3
    <3>5. a > 8
      BY <1>9, <3>2, <3>3, <3>4
    <3>6. obj_trigger_x(t) = a - 8
      BY <3>4, <3>5 DEF obj_trigger_x
    <3>7. 0 >= a - 8
      BY <3>1, <3>6
    <3>8. \A b \in 0 .. 255 : b > 8 => ~ (0 >= b - 8)
      OBVIOUS
    <3> QED
      BY <3>4, <3>5, <3>7, <3>8
  <2> QED
    BY <2>1
<1>12. SlotsOK(s, v)
  <2>1. \A x : ShownAt(s, v, x) = {}
    BY DEF ShownAt
  <2>2. \A slot \in 0 .. 15 : v.obj_fifo.pixels[slot].color = 0
    BY DEF empty_obj_fifo, zero_obj_pixel
  <2> QED
    BY <2>1, <2>2 DEF SlotsOK, SlotOK
<1>13. Answering(s, v.fetcher, reply)
  BY <1>5 DEF Answering
<1>14. DrawingOK(s, v, reply)
  BY <1>5, <1>6, <1>7, <1>10, <1>12, <1>13 DEF DrawingOK
<1>15. WindowLineOK(v)
  BY <1>2, <1>3 DEF WindowLineOK, CarryOf
<1> QED
  BY <1>5, <1>11, <1>14, <1>15

\* The request of the scan has its type.
LEMMA ScanReply ==
    ASSUME Linked, NEW r, r \in Renders
    PROVE  live_oam_scan_req(r) \in Replies
<1>1. scene.oam \in ObjectTable
  BY ScanlineFields DEF Linked
<1>2. NoReply \in Replies
  BY DEF NoReply, Replies, Bytes
<1>3. PICK n \in 0 .. OAM_ENTRIES : n = r.scan
  BY DEF Renders
<1>4. CASE n >= OAM_ENTRIES
  BY <1>2, <1>3, <1>4 DEF live_oam_scan_req
<1>5. CASE ~ (n >= OAM_ENTRIES)
  <2>1. n \in 0 .. OAM_ENTRIES - 1
    BY <1>3, <1>5, SpatialAssumption
  <2>2. scene.oam[n].x \in Bytes /\ scene.oam[n].y \in Bytes
    BY <1>1, <2>1 DEF ObjectTable
  <2>3. \A b \in Bytes : Reply("OamScanner", b) \in Replies
    BY DEF Reply, Replies
  <2> QED
    BY <1>2, <1>3, <1>5, <2>2, <2>3 DEF live_oam_scan_req
<1> QED
  BY <1>4, <1>5

\* A scan at its last dot, and the fine scroll of the line.
Ending(r, discard) ==
    /\ ScanningOK(Scanline, r, reply) /\ r.dot = 2 * OAM_ENTRIES - 1
    /\ r.window_line = counted % 256 /\ discard = Scanline.regs.scx % 8

\* The dot that ends the scan and begins the transfer.
LEMMA StartTransferKept ==
    ASSUME Linked, regs \in PpuRegisters, regs = LineRegs(ly), WindowInside(Scanline.regs),
           ClearOfEdge(Scanline), NEW r, NEW discard, Ending(r, discard)
    PROVE  DotOK(apply_live_transfer(Seeded(ScanAfter(r), discard), TRUE), 0)
<1> /\ ScanningOK(Scanline, r, reply) /\ r.dot = 2 * OAM_ENTRIES - 1
    /\ r.window_line = counted % 256 /\ discard = Scanline.regs.scx % 8
  BY DEF Ending
<1> PICK seed, out : seed = Seeded(ScanAfter(r), discard) /\ out = apply_live_transfer(seed, TRUE)
  OBVIOUS
<1> SUFFICES DotOK(out, 0)
  OBVIOUS
<1>1. PICK u : u = ScanAfter(r)
  OBVIOUS
<1>2. ScanHeld(Scanline, u) /\ u.dot = r.dot + 1 /\ u.window_line = r.window_line
  BY <1>1, ScanStep DEF ScanDot
<1>3. u.dot = 2 * OAM_ENTRIES /\ u.window_line = counted % 256
  BY <1>2, SpatialAssumption
<1>4. /\ u \in Renders /\ u.x_out = 0 /\ u.stall_dots = 0 /\ u.fetched = {}
      /\ u.fetcher = initial_fetcher_state /\ u.bg_fifo = <<>> /\ u.obj_fifo = empty_obj_fifo
  BY <1>2 DEF ScanHeld
<1>5. discard \in 0 .. 7
  <2>1. Scanline.regs.scx \in 0 .. 255
    BY ScanlineFields DEF Linked, PpuRegisters, Bytes
  <2> QED
    BY <2>1
<1>6. /\ seed \in Renders /\ seed.discard = discard /\ seed.x_out = u.x_out
      /\ seed.stall_dots = u.stall_dots /\ seed.fetched = u.fetched /\ seed.fetcher = u.fetcher
      /\ seed.bg_fifo = u.bg_fifo /\ seed.obj_fifo = u.obj_fifo /\ seed.window = u.window
      /\ seed.window_line = u.window_line /\ seed.line_objs = u.line_objs
  <2>1. seed = Seeded(u, discard)
    BY <1>1
  <2> QED
    BY <1>4, <1>5, <2>1, SeededRender
<1>7. PICK f : f = start_bg_fetcher(0)
  OBVIOUS
<1>8. f \in Fetchers
  BY <1>7, FirstFetcher
<1>9. PICK v : v = Refetched(seed, f)
  OBVIOUS
<1>10. /\ v \in Renders /\ v.discard = discard /\ v.x_out = 0 /\ v.stall_dots = 0
       /\ v.fetched = {} /\ v.fetcher = f /\ v.bg_fifo = <<>> /\ v.obj_fifo = empty_obj_fifo
       /\ v.window = u.window /\ v.window_line = u.window_line /\ v.line_objs = u.line_objs
       /\ v.line_objs = seed.line_objs /\ v.fetched = seed.fetched /\ v.x_out = seed.x_out
  BY <1>4, <1>6, <1>8, <1>9, RefetchedRender
<1>11. reply \in Replies
  <2>1. reply = live_oam_scan_req(r) /\ r \in Renders
    BY DEF ScanningOK, ScanHeld
  <2> QED
    BY <2>1, ScanReply
<1>12. /\ DrawingOK(Scanline, v, reply) /\ WindowLineOK(v) /\ DueTickets(v) = {}
       /\ v.fetcher.source = "Background" /\ ~ v.fetcher.pending
  <2>1. Undrawn(v, u, f, discard)
    BY <1>10 DEF Undrawn
  <2> QED
    BY <1>2, <1>3, <1>7, <1>11, <2>1, FirstDrawing
<1>13. WithObjects(seed) = seed
  <2>1. seed.fetcher.source = "Background"
    BY <1>4, <1>6 DEF initial_fetcher_state
  <2>2. DueTickets(seed) = DueTickets(v)
    BY <1>10 DEF DueTickets
  <2> QED
    BY <1>12, <2>1, <2>2 DEF WithObjects, should_start_live_obj_fetch
<1>14. out = BackgroundDot(seed, TRUE)
  <2>1. seed.fetcher.source = "Background" /\ seed.stall_dots = 0
    BY <1>4, <1>6 DEF initial_fetcher_state
  <2>2. ~ (obj_profile_enabled /\ seed.stall_dots > 0)
    BY <2>1
  <2>3. ~ (seed.stall_dots = 0 /\ obj_enabled /\ seed.fetcher.source = "Object")
    BY <2>1
  <2> QED
    BY <1>13, <2>2, <2>3 DEF apply_live_transfer
<1>15. out = BackgroundDot(v, FALSE)
  BY <1>6, <1>7, <1>8, <1>9, <1>14, EnteringDot
<1>16. Caught(Scanline, v)
  <2>1. Scanline.oam \in ObjectTable
    BY ScanlineFields DEF Linked
  <2>2. FetchedOK(Scanline, v)
    BY <1>12 DEF DrawingOK
  <2> QED
    BY <1>12, <2>1, <2>2, NothingDue
<1>17. v.x_out < SCREEN_WIDTH
  BY <1>10, SpatialAssumption
<1>18. v.fetcher.source # "Object" /\ (obj_profile_enabled => v.stall_dots = 0)
  BY <1>10, <1>12
<1>19. DotOK(BackgroundDot(v, FALSE), v.x_out)
  BY <1>11, <1>12, <1>16, <1>17, <1>18, BackgroundKept
<1> QED
  BY <1>10, <1>15, <1>19

(******************************** the steps ********************************)
LEMMA OrdinaryLine ==
    ASSUME LineTypeOK, OrdinaryScene
    PROVE  /\ WindowInside(Scanline.regs) /\ ClearOfEdge(Scanline)
           /\ LineRegs(ly).wy = LineRegs(0).wy
<1>1. /\ Scanline.regs = LineRegs(ly) /\ Scanline.oam = scene.oam /\ Scanline.oam \in ObjectTable
  BY ScanlineFields
<1>2. ly \in 0 .. SCREEN_HEIGHT - 1
  BY DEF LineTypeOK
<1>3. WindowInside(LineRegs(ly)) /\ LineRegs(ly).wy = LineRegs(0).wy
  BY <1>2 DEF OrdinaryScene
<1>4. ASSUME NEW i \in LineObjs(Scanline) PROVE Scanline.oam[i].x > 8
  <2>1. i \in 0 .. OAM_ENTRIES - 1 /\ Scanline.regs.obj_enable
    BY <1>4 DEF LineObjs, Chosen
  <2>2. obj_profile_enabled
    BY <1>1, <1>2, <2>1, LineRegsTyped
  <2>3. i \in DOMAIN scene.oam
    BY <1>1, <2>1 DEF ObjectTable
  <2> QED
    BY <1>1, <2>2, <2>3 DEF OrdinaryScene
<1> QED
  BY <1>1, <1>3, <1>4 DEF ClearOfEdge

\* While the line stays the same, so does what the reference has for it.
LEMMA SameLine ==
    ASSUME UNCHANGED <<scene, ly, counted>>
    PROVE  /\ Scanline' = Scanline /\ OrdinaryScene' = OrdinaryScene
           /\ \A y : LineRegs(y)' = LineRegs(y)
           /\ obj_profile_enabled' = obj_profile_enabled
<1>1. obj_profile_enabled' = obj_profile_enabled
  BY DEF obj_profile_enabled
<1>2. \A y : LineRegs(y)' = LineRegs(y)
  BY <1>1 DEF LineRegs, StoredRegs
<1> QED
  BY <1>1, <1>2 DEF Scanline, OrdinaryScene, StoredRegs

\* The registers a profile stores have their type.
LEMMA StoredTyped ==
    ASSUME LineTypeOK, NEW r, r \in PpuRegisters
    PROVE  StoredRegs(r) \in PpuRegisters
<1>1. obj_profile_enabled \in BOOLEAN
  BY ScenesAssumption DEF LineTypeOK, obj_profile_enabled
<1> QED
  BY <1>1 DEF StoredRegs, PpuRegisters

\* What is sampled at the start of a line (sample_mode2_state).
LEMMA SampledTyped ==
    ASSUME NEW r, r \in PpuRegisters, NEW y, NEW triggered, triggered \in BOOLEAN
    PROVE  /\ sample_mode2_state(r, y, triggered).scx_low3_line = r.scx % 8
           /\ sample_mode2_state(r, y, triggered).wy_triggered = (triggered \/ y = r.wy)
           /\ sample_mode2_state(r, y, triggered).window_enable = r.win_enable
           /\ sample_mode2_state(r, y, triggered) \in
                [scx_low3_line : 0 .. 7, wy_triggered : BOOLEAN, window_enable : BOOLEAN]
<1>1. r.scx \in 0 .. 255 /\ r.win_enable \in BOOLEAN
  BY DEF PpuRegisters, Bytes
<1>2. \A n \in 0 .. 255 : n % 8 \in 0 .. 7
  OBVIOUS
<1>3. r.scx % 8 \in 0 .. 7 /\ (triggered \/ y = r.wy) \in BOOLEAN
  BY <1>1, <1>2
<1> QED
  BY <1>1, <1>3 DEF sample_mode2_state

\* Another look at the window in mode 2.
LEMMA SampledAgain ==
    ASSUME LineTypeOK, NEW v, v = sample_mode2_window_state(sampled)
    PROVE  /\ v.scx_low3_line = sampled.scx_low3_line
           /\ v.wy_triggered = (sampled.wy_triggered \/ ly = regs.wy)
           /\ v \in [scx_low3_line : 0 .. 7, wy_triggered : BOOLEAN, window_enable : BOOLEAN]
<1>1. /\ sampled \in [scx_low3_line : 0 .. 7, wy_triggered : BOOLEAN, window_enable : BOOLEAN]
      /\ regs.win_enable \in BOOLEAN
  BY DEF LineTypeOK, PpuRegisters
<1> QED
  BY <1>1 DEF sample_mode2_window_state

\* Every step keeps the types.
LEMMA TypesKept ==
    ASSUME LineTypeOK, PixelNext
    PROVE  LineTypeOK'
<1>1. ASSUME OamScanDot \/ StartTransfer PROVE LineTypeOK'
  <2>1. /\ sampled' = sample_mode2_window_state(sampled) /\ UNCHANGED <<scene, regs, ly, counted>>
        /\ stage' \in {"OamScan", "Transfer"}
    BY <1>1 DEF OamScanDot, StartTransfer
  <2>2. sampled' \in [scx_low3_line : 0 .. 7, wy_triggered : BOOLEAN, window_enable : BOOLEAN]
    BY <2>1, SampledAgain
  <2> QED
    BY <2>1, <2>2 DEF LineTypeOK
<1>2. ASSUME TransferDot \/ EndTransfer PROVE LineTypeOK'
  BY <1>2 DEF LineTypeOK, TransferDot, EndTransfer
<1>3. ASSUME LateWrite PROVE LineTypeOK'
  <2>1. PICK r \in scene.late : regs' = StoredRegs(r)
    BY <1>3 DEF LateWrite
  <2>2. r \in PpuRegisters
    BY <2>1, ScenesAssumption DEF LineTypeOK
  <2>3. regs' \in PpuRegisters
    BY <2>1, <2>2, StoredTyped
  <2> QED
    BY <1>3, <2>3 DEF LateWrite, LineTypeOK
<1>4. ASSUME LineStarts PROVE LineTypeOK'
  <2>1. /\ stage' = "OamScan" /\ ly' = (ly + 1) % SCREEN_HEIGHT /\ regs' = LineRegs(ly')
        /\ sampled' = sample_mode2_state(regs', ly', sampled.wy_triggered /\ ~ (ly' = 0))
        /\ counted' = IF ly' = 0 THEN 0 ELSE counted + CarryOf(LineTriggered(LineRegs(ly), ly))
        /\ scene' = scene
    BY <1>4 DEF LineStarts
  <2>2. ly' \in 0 .. SCREEN_HEIGHT - 1
    BY <2>1, ScenesAssumption DEF LineTypeOK
  <2>3. regs' \in PpuRegisters
    <3>1. PICK y \in 0 .. SCREEN_HEIGHT - 1 : y = ly'
      BY <2>2
    <3>2. LineRegs(y) \in PpuRegisters
      BY LineRegsTyped
    <3> QED
      BY <2>1, <3>1, <3>2
  <2>4. counted' \in Nat
    BY <2>1 DEF LineTypeOK, CarryOf
  <2>5. PICK r, y, triggered : /\ r = regs' /\ y = ly'
                               /\ triggered = (sampled.wy_triggered /\ ~ (ly' = 0))
    OBVIOUS
  <2>6. triggered \in BOOLEAN
    BY <2>5
  <2>7. sample_mode2_state(r, y, triggered) \in
          [scx_low3_line : 0 .. 7, wy_triggered : BOOLEAN, window_enable : BOOLEAN]
    BY <2>3, <2>5, <2>6, SampledTyped
  <2> QED
    BY <2>1, <2>2, <2>3, <2>4, <2>5, <2>7 DEF LineTypeOK
<1> QED
  BY <1>1, <1>2, <1>3, <1>4 DEF PixelNext

\* A dot of the object scan keeps the line right.
LEMMA OamScanDotKept ==
    ASSUME LineTypeOK, OrdinaryScene, LineInv, OamScanDot
    PROVE  LineInv'
<1>1. /\ stage = "OamScan" /\ stage' = stage /\ regs' = regs /\ ly' = ly /\ diffs' = diffs
      /\ scene' = scene /\ counted' = counted
      /\ sampled' = sample_mode2_window_state(sampled)
      /\ render' = ScanAfter(render) /\ reply' = live_oam_scan_req(render')
      /\ render.dot # 2 * OAM_ENTRIES - 1
  BY DEF OamScanDot, OamScanDone, ScanAfter
<1>2. /\ RegsInv /\ WindowLineInv /\ regs = LineRegs(ly) /\ diffs = <<>>
      /\ ScanningOK(Scanline, render, reply)
  BY <1>1 DEF LineInv, RegsInv
<1>3. Linked
  BY <1>2 DEF Linked, RegsInv
<1>4. /\ Scanline' = Scanline /\ \A y : LineRegs(y)' = LineRegs(y)
      /\ obj_profile_enabled' = obj_profile_enabled
  BY <1>1, SameLine
<1>5. ScanHeld(Scanline, render') /\ ScanDot(render', render)
  BY <1>1, <1>2, <1>3, ScanStep
<1>6. render'.dot < 2 * OAM_ENTRIES
  <2>1. PICK n \in Nat : n = render.dot
    BY <1>2 DEF ScanningOK, ScanHeld, Renders
  <2>2. n < 2 * OAM_ENTRIES /\ n # 2 * OAM_ENTRIES - 1
    BY <1>1, <1>2, <2>1 DEF ScanningOK
  <2>3. n + 1 < 2 * OAM_ENTRIES
    BY <2>1, <2>2, SpatialAssumption
  <2> QED
    BY <1>5, <2>1, <2>3 DEF ScanDot
<1>7. RegsInv'
  <2>1. sampled'.wy_triggered = (sampled.wy_triggered \/ ly = regs.wy)
        /\ sampled'.scx_low3_line = sampled.scx_low3_line
    BY <1>1, SampledAgain
  <2>2. regs.wy = LineRegs(0).wy
    BY <1>2, OrdinaryLine
  <2>3. ly = regs.wy => ly >= LineRegs(0).wy
    BY <2>2 DEF LineTypeOK, PpuRegisters, Bytes
  <2>4. sampled.wy_triggered <=> ly >= LineRegs(0).wy
    BY <1>2 DEF RegsInv
  <2> QED
    BY <1>1, <1>2, <1>4, <2>1, <2>3, <2>4 DEF RegsInv
<1>8. WindowLineInv'
  <2>1. render.window # "Active" /\ render'.window # "Active"
    BY <1>2, <1>5 DEF ScanningOK, ScanHeld
  <2> QED
    BY <1>1, <1>2, <1>5, <2>1 DEF WindowLineInv, ScanDot
<1>9. ScanningOK(Scanline, render, reply)'
  <2>1. ScanHeld(Scanline, render)'
    BY <1>1, <1>4, <1>5 DEF ScanHeld
  <2>2. (reply = live_oam_scan_req(render))'
    BY <1>1, <1>4 DEF live_oam_scan_req
  <2> QED
    BY <1>6, <2>1, <2>2 DEF ScanningOK
<1> QED
  BY <1>1, <1>2, <1>7, <1>8, <1>9 DEF LineInv

\* A pixel as it should be is no difference.
LEMMA NothingDiffers ==
    ASSUME diffs = <<>>, NEW out, NEW x, RightPixel(out, x), Shown(out, x)
    PROVE  diffs' = <<>> /\ reply' = out.req
<1>1. CASE out.pixel = <<>>
  BY <1>1 DEF Shown
<1>2. CASE out.pixel = <<PixelResult(x, Now).shade>>
  <2>1. PICK e : e = PixelResult(x, Now)
    OBVIOUS
  <2>2. Head(out.pixel) = e.shade /\ out.pixel # <<>>
    BY <1>2, <2>1
  <2>3. PixelDiff(e.shade, e) = <<>>
    BY DEF PixelDiff
  <2>4. PICK none : none = <<>>
    OBVIOUS
  <2>5. diff_frame(none, e.shade, e) = <<>>
    <3>1. ~ (Len(none) >= DIFF_LIMIT)
      BY <2>4, SpatialAssumption
    <3>2. none \o <<>> = <<>>
      BY <2>4
    <3> QED
      BY <2>3, <3>1, <3>2 DEF diff_frame
  <2>6. diffs' = diff_frame(none, e.shade, e)
    BY <2>1, <2>2, <2>4 DEF Shown, Now
  <2> QED
    BY <2>5, <2>6 DEF Shown
<1> QED
  BY <1>1, <1>2 DEF RightPixel

\* What a dot of the transfer that goes right leaves behind.
LEMMA DotKept ==
    ASSUME UNCHANGED <<scene, regs, ly, counted>>, stage' = "Transfer", diffs = <<>>, RegsInv',
           NEW out, NEW x, DotOK(out, x), render' = out.render, Shown(out, x)
    PROVE  LineInv'
<1>1. /\ DrawingOK(Scanline, render', out.req) /\ WindowLineOK(render') /\ Resting(render')
      /\ RightPixel(out, x)
  BY DEF DotOK
<1>2. diffs' = <<>> /\ reply' = out.req
  BY <1>1, NothingDiffers
<1>3. Scanline' = Scanline /\ obj_profile_enabled' = obj_profile_enabled
  BY SameLine
<1>4. WindowLineInv'
  BY <1>1 DEF WindowLineInv, WindowLineOK
<1>5. DrawingOK(Scanline, render, reply)'
  BY <1>1, <1>2, <1>3
<1>6. Resting(render)'
  BY <1>1, <1>3 DEF Resting
<1> QED
  BY <1>2, <1>4, <1>5, <1>6 DEF LineInv

\* So does the dot on which the transfer starts.
LEMMA StartTransferDotKept ==
    ASSUME LineTypeOK, OrdinaryScene, LineInv, StartTransfer
    PROVE  LineInv'
<1>1. PICK seed : seed = [advance_live_oam_scan(render) EXCEPT
                            !.dot = @ + 1, !.discard = sampled.scx_low3_line]
  OBVIOUS
<1>2. PICK out : out = apply_live_transfer(seed, TRUE)
  OBVIOUS
<1>3. PICK x : x = 0
  OBVIOUS
<1>4. /\ stage = "OamScan" /\ stage' = "Transfer" /\ regs' = regs /\ ly' = ly
      /\ scene' = scene /\ counted' = counted
      /\ sampled' = sample_mode2_window_state(sampled)
      /\ render' = out.render /\ Shown(out, x)
      /\ render.dot = 2 * OAM_ENTRIES - 1
  <2>1. /\ stage = "OamScan" /\ stage' = "Transfer" /\ regs' = regs /\ ly' = ly
        /\ scene' = scene /\ counted' = counted
        /\ sampled' = sample_mode2_window_state(sampled)
        /\ render.dot = 2 * OAM_ENTRIES - 1
    BY Zenon DEF StartTransfer, OamScanDone
  <2>2. render' = out.render /\ Shown(out, 0)
    BY <1>1, <1>2, Zenon DEF StartTransfer
  <2> QED
    BY <1>3, <2>1, <2>2
<1>5. /\ RegsInv /\ WindowLineInv /\ regs = LineRegs(ly) /\ diffs = <<>>
      /\ ScanningOK(Scanline, render, reply)
  BY <1>4 DEF LineInv, RegsInv
<1>6. Linked /\ regs \in PpuRegisters
  BY <1>5 DEF Linked, RegsInv, LineTypeOK
<1>7. PICK discard : discard = Scanline.regs.scx % 8
  OBVIOUS
<1>8. sampled.scx_low3_line = discard
  BY <1>5, <1>7, ScanlineFields DEF RegsInv
<1>9. seed = Seeded(ScanAfter(render), discard)
  BY <1>1, <1>8 DEF Seeded, ScanAfter
<1>10. render.window_line = counted % 256
  <2>1. render.window # "Active"
    BY <1>5 DEF ScanningOK, ScanHeld
  <2>2. counted + 0 = counted
    BY DEF LineTypeOK
  <2> QED
    BY <1>4, <1>5, <2>1, <2>2 DEF WindowLineInv, CarryOf
<1>11. WindowInside(Scanline.regs) /\ ClearOfEdge(Scanline) /\ LineRegs(ly).wy = LineRegs(0).wy
  BY OrdinaryLine
<1>12. DotOK(out, x)
  <2>1. render.dot = 2 * OAM_ENTRIES - 1
    BY <1>4
  <2>2. regs = LineRegs(ly) /\ ScanningOK(Scanline, render, reply)
    BY <1>5
  <2>3. WindowInside(Scanline.regs) /\ ClearOfEdge(Scanline)
    BY <1>11
  <2>4. DotOK(out, 0)
    <3>1. Ending(render, discard)
      BY <1>7, <1>10, <2>1, <2>2 DEF Ending
    <3>2. DotOK(apply_live_transfer(Seeded(ScanAfter(render), discard), TRUE), 0)
      BY <1>6, <2>2, <2>3, <3>1, StartTransferKept
    <3> QED
      BY <1>2, <1>9, <3>2
  <2> QED
    BY <1>3, <2>4
<1>13. RegsInv'
  <2>1. sampled'.wy_triggered = (sampled.wy_triggered \/ ly = regs.wy)
        /\ sampled'.scx_low3_line = sampled.scx_low3_line
    BY <1>4, SampledAgain
  <2>2. ly = regs.wy => ly >= LineRegs(0).wy
    <3>1. regs.wy = LineRegs(0).wy
      BY <1>5, <1>11
    <3> QED
      BY <3>1 DEF LineTypeOK, PpuRegisters, Bytes
  <2>3. sampled.wy_triggered <=> ly >= LineRegs(0).wy
    BY <1>5 DEF RegsInv
  <2>4. \A y : LineRegs(y)' = LineRegs(y)
    BY <1>4, SameLine
  <2> QED
    BY <1>4, <1>5, <2>1, <2>2, <2>3, <2>4 DEF RegsInv
<1> QED
  BY <1>4, <1>5, <1>12, <1>13, DotKept

\* The count of the dots is nothing that is drawn.
LEMMA CountedKept ==
    ASSUME NEW r, DrawingOK(Scanline, r, reply), WindowLineOK(r), Resting(r),
           NEW dot, dot = r.dot + 1, NEW v, v = [r EXCEPT !.dot = dot]
    PROVE  /\ DrawingOK(Scanline, v, reply) /\ WindowLineOK(v) /\ Resting(v)
           /\ v.x_out = r.x_out
<1> DEFINE s == Scanline
<1>1. /\ r \in Renders /\ QueueOK(s, r) /\ WindowOK(s, r) /\ FetchedOK(s, r) /\ SlotsOK(s, r)
  BY DEF DrawingOK
<1>2. /\ v \in Renders /\ SameQueues(v, r) /\ v.fetcher = r.fetcher
      /\ v.bg_fetcher_resume = r.bg_fetcher_resume /\ v.ticket = r.ticket
      /\ v.obj_flags = r.obj_flags /\ v.line_objs = r.line_objs /\ v.fetched = r.fetched
      /\ v.obj_fifo = r.obj_fifo /\ v.x_out = r.x_out /\ v.stall_dots = r.stall_dots
  <2>1. dot \in Nat
    BY <1>1 DEF Renders
  <2>2. SameQueues(v, r) /\ v \in Renders
    BY <1>1, <2>1 DEF Renders, SameQueues
  <2> QED
    BY <1>1, <2>2 DEF Renders
<1>3. TileFetcher(v) = TileFetcher(r)
  BY <1>2 DEF TileFetcher
<1>4. QueueOK(s, v) /\ WindowOK(s, v) /\ WindowLineOK(v)
  BY <1>1, <1>2, <1>3, QueueStays
<1>5. FetchedOK(s, v) /\ SlotsOK(s, v)
  BY <1>1, <1>2, FetchedStays, SlotsStay
<1>6. \A i : ObjFetching(s, r, reply, i) => ObjFetching(s, v, reply, i)
  BY <1>2 DEF ObjFetching
<1>7. DrawingOK(s, v, reply)
  BY <1>2, <1>4, <1>5, <1>6 DEF DrawingOK
<1> QED
  BY <1>2, <1>4, <1>7 DEF Resting

\* So does a dot of the transfer, and it finds no difference.
LEMMA TransferDotKept ==
    ASSUME LineTypeOK, OrdinaryScene, LineInv, TransferDot
    PROVE  LineInv'
<1>1. PICK dot : dot = render.dot + 1
  OBVIOUS
<1>2. PICK r : r = [render EXCEPT !.dot = dot]
  OBVIOUS
<1>3. PICK out : out = apply_live_transfer(r, FALSE)
  OBVIOUS
<1>4. PICK x : x = render.x_out
  OBVIOUS
<1>5. /\ stage = "Transfer" /\ stage' = "Transfer" /\ regs' = regs /\ ly' = ly
      /\ scene' = scene /\ counted' = counted /\ sampled' = sampled
      /\ render' = out.render /\ Shown(out, x) /\ render.x_out < SCREEN_WIDTH
  BY <1>1, <1>2, <1>3, <1>4 DEF TransferDot
<1>6. /\ RegsInv /\ WindowLineInv /\ diffs = <<>>
      /\ DrawingOK(Scanline, render, reply) /\ Resting(render)
  BY <1>5 DEF LineInv
<1>7. Linked /\ regs \in PpuRegisters
  BY <1>6 DEF Linked, RegsInv, LineTypeOK
<1>8. WindowInside(Scanline.regs) /\ ClearOfEdge(Scanline)
  BY OrdinaryLine
<1>9. WindowLineOK(render)
  BY <1>5, <1>6 DEF WindowLineInv, WindowLineOK
<1>10. DrawingOK(Scanline, r, reply) /\ WindowLineOK(r) /\ Resting(r) /\ r.x_out = x
  BY <1>1, <1>2, <1>4, <1>6, <1>9, CountedKept
<1>11. DotOK(out, x)
  <2>1. r.x_out < SCREEN_WIDTH
    BY <1>4, <1>5, <1>10
  <2>2. DotOK(out, r.x_out)
    BY <1>3, <1>7, <1>8, <1>10, <2>1, TransferKept
  <2> QED
    BY <1>10, <2>2
<1>12. RegsInv'
  <2>1. \A y : LineRegs(y)' = LineRegs(y)
    BY <1>5, SameLine
  <2> QED
    BY <1>5, <1>6, <2>1 DEF RegsInv
<1> QED
  BY <1>5, <1>6, <1>11, <1>12, DotKept

\* Beyond the last pixel only a window just outside may still begin: the line
\* has then been counted if the window shows on it.
LEMMA EndTransferKept ==
    ASSUME LineTypeOK, OrdinaryScene, LineInv, EndTransfer
    PROVE  LineInv'
<1>1. /\ stage = "Transfer" /\ stage' = "HBlank" /\ regs' = regs /\ ly' = ly /\ diffs' = diffs
      /\ scene' = scene /\ counted' = counted /\ sampled' = sampled
      /\ render.x_out >= SCREEN_WIDTH
      /\ render' = [ppu_render_state EXCEPT !.dot = render.dot + 1,
                        !.window = step_window_state(render).state,
                        !.window_line = step_window_state(render).window_line]
  BY DEF EndTransfer
<1>2. /\ RegsInv /\ WindowLineInv /\ diffs = <<>>
      /\ DrawingOK(Scanline, render, reply)
  BY <1>1 DEF LineInv
<1>3. Linked
  BY <1>2 DEF Linked, RegsInv
<1>4. render \in Renders /\ WindowOK(Scanline, render)
  BY <1>2 DEF DrawingOK
<1>5. PICK line : line = step_window_state(render).window_line
  OBVIOUS
<1>6. render'.window_line = line
  BY <1>1, <1>5 DEF ppu_render_state
<1>7. counted \in Nat /\ Windowed(Scanline) \in BOOLEAN
  BY ScanlineFields DEF LineTypeOK
<1>8. render.window_line = (counted + CarryOf(render.window = "Active")) % 256
  BY <1>1, <1>2 DEF WindowLineInv
<1>9. line = (counted + CarryOf(Windowed(Scanline))) % 256
  <2>1. CASE render.window = "Armed"
    <3>1. Windowed(Scanline)
      BY <1>4, <2>1 DEF WindowOK
    <3>2. window_triggered(render)
      <4>1. Scanline.regs.wx \in 0 .. SCREEN_WIDTH + 7 /\ regs.wx = Scanline.regs.wx
        BY <1>3, <3>1, OrdinaryLine, LinkedFields, SpatialAssumption DEF WindowInside, Windowed
      <4>2. PICK wx \in 0 .. SCREEN_WIDTH + 7 : wx = regs.wx
        BY <4>1
      <4>3. PICK x \in 0 .. SCREEN_WIDTH : x = render.x_out
        BY <1>4 DEF Renders
      <4>4. x = SCREEN_WIDTH
        BY <1>1, <4>3, SpatialAssumption
      <4>5. x + 7 >= wx
        BY <4>2, <4>4, SpatialAssumption
      <4> QED
        BY <4>2, <4>3, <4>5 DEF window_triggered
    <3>3. line = Low8(render.window_line + 1)
      BY <1>5, <2>1, <3>2 DEF step_window_state
    <3>4. render.window_line = (counted + 0) % 256
      BY <1>8, <2>1 DEF CarryOf
    <3>5. ((((counted + 0) % 256) + 1) % 256) = (counted + 1) % 256
      BY <1>7
    <3> QED
      BY <3>1, <3>3, <3>4, <3>5 DEF Low8, CarryOf
  <2>2. CASE render.window # "Armed"
    <3>1. line = render.window_line
      BY <1>5, <2>2 DEF step_window_state
    <3>2. (render.window = "Active") <=> Windowed(Scanline)
      BY <1>4, <2>2 DEF WindowOK, Renders
    <3> QED
      BY <1>7, <1>8, <3>1, <3>2
  <2> QED
    BY <2>1, <2>2
<1>10. Scanline' = Scanline /\ \A y : LineRegs(y)' = LineRegs(y)
  BY <1>1, SameLine
<1>11. RegsInv'
  BY <1>1, <1>2, <1>10 DEF RegsInv
<1>12. WindowLineInv'
  BY <1>1, <1>6, <1>9, <1>10 DEF WindowLineInv, Windowed
<1> QED
  BY <1>1, <1>2, <1>11, <1>12 DEF LineInv

(* So does a write to the registers while the line is drawn: in an ordinary   *)
(* scene it moves palettes only.                                              *)
LEMMA LateWriteKept ==
    ASSUME LineTypeOK, OrdinaryScene, LineInv, LateWrite
    PROVE  LineInv'
<1>1. /\ stage = "Transfer" /\ stage' = stage /\ ly' = ly /\ diffs' = diffs
      /\ scene' = scene /\ counted' = counted /\ sampled' = sampled /\ render' = render
      /\ reply' = reply
  BY DEF LateWrite
<1>2. PICK r \in scene.late : regs' = StoredRegs(r)
  BY DEF LateWrite
<1>3. /\ RegsInv /\ WindowLineInv /\ diffs = <<>>
      /\ DrawingOK(Scanline, render, reply) /\ Resting(render)
  BY <1>1 DEF LineInv
<1>4. /\ Scanline' = Scanline /\ obj_profile_enabled' = obj_profile_enabled
      /\ \A y : LineRegs(y)' = LineRegs(y)
  BY <1>1, SameLine
<1>5. OnlyPalettes(regs', LineRegs(ly))
  <2>1. ly \in 0 .. SCREEN_HEIGHT - 1
    BY DEF LineTypeOK
  <2> QED
    BY <1>2, <2>1 DEF OrdinaryScene
<1>6. RegsInv'
  <2>1. OnlyPalettes(regs, LineRegs(ly))'
    BY <1>1, <1>4, <1>5 DEF OnlyPalettes
  <2> QED
    BY <1>1, <1>3, <1>4, <2>1 DEF RegsInv
<1>7. WindowLineInv'
  BY <1>1, <1>3 DEF WindowLineInv
<1>8. DrawingOK(Scanline, render, reply)' /\ Resting(render)'
  BY <1>1, <1>3, <1>4 DEF Resting
<1> QED
  BY <1>1, <1>3, <1>6, <1>7, <1>8 DEF LineInv
FreshRender(line, window) ==
    [ppu_render_state EXCEPT !.window_line = line, !.window = window]

\* A line begins: the window's lines go on within the frame, and the match of
\* WY with them.
LEMMA FreshScan ==
    ASSUME Linked, NEW line, line \in Bytes, NEW window,
           window = IF Windowed(Scanline) THEN "Armed" ELSE "Inactive",
           NEW v, v = FreshRender(line, window)
    PROVE  /\ ScanHeld(Scanline, v) /\ v.dot = 0 /\ v.window_line = line
           /\ live_oam_scan_req(v) = live_oam_scan_req(ppu_render_state)
<1> DEFINE s == Scanline
<1>1. Windowed(s) \in BOOLEAN /\ s.oam \in ObjectTable
  BY ScanlineFields DEF Linked
<1>2. initial_fetcher_state \in Fetchers /\ 0 \in Bytes
  BY DEF initial_fetcher_state, Fetchers, Bytes
<1>3. NoTicket \in TicketSet /\ empty_obj_fifo \in ObjQueues
  BY <1>2, EmptyQueue, SpatialAssumption DEF NoTicket, TicketSet
<1>4. /\ v.dot = 0 /\ v.x_out = 0 /\ v.discard = 0 /\ v.stall_dots = 0 /\ v.window = window
      /\ v.window_line = line /\ v.scan = 0 /\ v.pending_y = -1 /\ v.line_objs = <<>>
      /\ v.fetched = {} /\ v.fetcher = initial_fetcher_state /\ v.bg_fifo = <<>>
      /\ v.obj_fifo = empty_obj_fifo
  BY DEF ppu_render_state, FreshRender
<1>5. v = [dot |-> 0, x_out |-> 0, discard |-> 0, stall_dots |-> 0, window |-> window,
           window_line |-> line, scan |-> 0, pending_y |-> -1, line_objs |-> <<>>, fetched |-> {},
           ticket |-> NoTicket, obj_flags |-> 0,
           fetcher |-> initial_fetcher_state, bg_fetcher_resume |-> initial_fetcher_state,
           bg_fifo |-> <<>>, obj_fifo |-> empty_obj_fifo]
  BY DEF ppu_render_state, FreshRender
<1>6. v \in Renders
  <2>1. PICK row \in ScanRows : row = -1
    BY DEF ScanRows
  <2>2. PICK objs \in Seq(TicketSet) : objs = <<>>
    <3>1. <<>> \in Seq(TicketSet)
      OBVIOUS
    <3> QED
      BY <3>1, Zenon
  <2>3. PICK fifo \in Seq(0 .. 3) : fifo = <<>>
    <3>1. <<>> \in Seq(0 .. 3)
      OBVIOUS
    <3> QED
      BY <3>1, Zenon
  <2>4. PICK none \in SUBSET Nat : none = {}
    OBVIOUS
  <2>5. PICK zero : zero = 0
    OBVIOUS
  <2>6. /\ zero \in Nat /\ zero \in 0 .. SCREEN_WIDTH /\ zero \in 0 .. 7 /\ zero \in 0 .. 6
        /\ zero \in 0 .. OAM_ENTRIES /\ zero \in Bytes
    BY <1>2, <2>5, SpatialAssumption
  <2>7. window \in {"Inactive", "Armed", "Active"}
    OBVIOUS
  <2>8. empty_obj_fifo \in [count : 0 .. 16, pixels : [0 .. 15 -> ObjPixels]]
    BY <1>3 DEF ObjQueues
  <2>9. v = [dot |-> zero, x_out |-> zero, discard |-> zero, stall_dots |-> zero, window |-> window,
             window_line |-> line, scan |-> zero, pending_y |-> row, line_objs |-> objs,
             fetched |-> none, ticket |-> NoTicket, obj_flags |-> zero,
             fetcher |-> initial_fetcher_state, bg_fetcher_resume |-> initial_fetcher_state,
             bg_fifo |-> fifo, obj_fifo |-> empty_obj_fifo]
    BY <1>5, <2>1, <2>2, <2>3, <2>4, <2>5
  <2> HIDE DEF s
  <2> QED
    BY <1>2, <1>3, <2>6, <2>7, <2>8, <2>9 DEF Renders
<1>7. ScannedOK(s, v)
  <2>1. CASE ~ s.regs.obj_enable
    BY <1>4, <2>1 DEF ScannedOK
  <2>2. CASE s.regs.obj_enable
    <3>1. RankOf(s, 0) = 0
      <4>1. MeetBefore(s, 0) = {}
        BY DEF MeetBefore
      <4> QED
        BY <4>1, FS_EmptySet DEF RankOf
    <3>2. Chosen(s, 0) = {} /\ Tickets(v) = {} /\ Len(v.line_objs) = 0
      BY <1>4 DEF Chosen, Tickets
    <3>3. Len(v.line_objs) = IF RankOf(s, v.scan) < MAX_LINE_OBJS THEN RankOf(s, v.scan)
                             ELSE MAX_LINE_OBJS
      BY <1>4, <3>1, <3>2, SpatialAssumption
    <3>4. Tickets(v) = {TicketOf(s, i) : i \in Chosen(s, v.scan)}
      BY <1>4, <3>2
    <3> QED
      BY <2>2, <3>3, <3>4 DEF ScannedOK
  <2> QED
    BY <2>1, <2>2
<1>8. v.dot = 2 * v.scan + (IF v.pending_y < 0 THEN 0 ELSE 1) /\ ~ (v.pending_y >= 0)
  BY <1>4
<1>9. ScanHeld(s, v)
  BY <1>4, <1>6, <1>7, <1>8 DEF ScanHeld
<1>10. live_oam_scan_req(v) = live_oam_scan_req(ppu_render_state)
  <2>1. ppu_render_state.scan = 0 /\ ppu_render_state.pending_y = -1
    BY DEF ppu_render_state
  <2> QED
    BY <1>4, <2>1 DEF live_oam_scan_req
<1> QED
  BY <1>4, <1>9, <1>10

\* The registers a line starts with differ from themselves in nothing.
LEMMA LineLinked ==
    ASSUME LineTypeOK, regs = LineRegs(ly)
    PROVE  Linked /\ OnlyPalettes(regs, LineRegs(ly))
<1>1. regs \in PpuRegisters
  BY DEF LineTypeOK
<1>2. [regs EXCEPT !.bgp = regs.bgp, !.obp0 = regs.obp0, !.obp1 = regs.obp1,
                   !.bg_enable = regs.bg_enable] = regs
  BY <1>1 DEF PpuRegisters
<1> QED
  BY <1>2 DEF Linked, OnlyPalettes

\* What the first dot of a line needs to start with.
LineFresh ==
    /\ regs = LineRegs(ly) /\ stage = "OamScan" /\ diffs = <<>>
    /\ sampled.scx_low3_line = regs.scx % 8 /\ sampled.window_enable = regs.win_enable
    /\ sampled.wy_triggered <=> ly >= LineRegs(0).wy
    /\ render = line_start_render(sampled, counted % 256)
    /\ reply = live_oam_scan_req(ppu_render_state)

\* A line that has just begun is right.
LEMMA FreshLine ==
    ASSUME LineTypeOK, OrdinaryScene, LineFresh
    PROVE  LineInv
<1>1. Linked /\ OnlyPalettes(regs, LineRegs(ly)) /\ regs = LineRegs(ly)
  BY LineLinked DEF LineFresh
<1>2. PICK line : line = counted % 256
  OBVIOUS
<1>3. line \in Bytes
  BY <1>2 DEF LineTypeOK, Bytes
<1>4. PICK window : window = IF Windowed(Scanline) THEN "Armed" ELSE "Inactive"
  OBVIOUS
<1>5. (sampled.window_enable /\ sampled.wy_triggered) <=> Windowed(Scanline)
  <2>1. /\ Windowed(Scanline) <=> LineTriggered(LineRegs(ly), ly)
        /\ Windowed(Scanline) \in BOOLEAN
    BY ScanlineFields
  <2>2. LineRegs(ly).wy = LineRegs(0).wy
    BY OrdinaryLine
  <2> QED
    BY <1>1, <2>1, <2>2 DEF LineFresh, LineTriggered
<1>6. render = FreshRender(line, window)
  <2>1. (IF sampled.window_enable /\ sampled.wy_triggered THEN "Armed" ELSE "Inactive") = window
    BY <1>4, <1>5
  <2>2. line_start_render(sampled, line) = FreshRender(line, window)
    BY <2>1 DEF line_start_render, FreshRender
  <2> QED
    BY <1>2, <2>2 DEF LineFresh
<1>7. /\ ScanHeld(Scanline, render) /\ render.dot = 0 /\ render.window_line = line
      /\ live_oam_scan_req(render) = live_oam_scan_req(ppu_render_state)
  BY <1>1, <1>3, <1>4, <1>6, FreshScan
<1>8. ScanningOK(Scanline, render, reply)
  BY <1>7, SpatialAssumption DEF ScanningOK, LineFresh
<1>9. WindowLineInv
  <2>1. stage # "HBlank" /\ render.window # "Active"
    BY <1>7 DEF LineFresh, ScanHeld
  <2>2. counted + 0 = counted
    BY DEF LineTypeOK
  <2> QED
    BY <1>2, <1>7, <2>1, <2>2 DEF WindowLineInv, CarryOf
<1>10. RegsInv
  BY <1>1 DEF RegsInv, LineFresh
<1> QED
  BY <1>8, <1>9, <1>10 DEF LineInv, LineFresh

\* The next line begins right, with the window counted when it was shown.
LEMMA LineStartsKept ==
    ASSUME LineTypeOK, OrdinaryScene, LineInv, LineStarts
    PROVE  LineInv'
<1>1. /\ stage = "HBlank" /\ stage' = "OamScan" /\ ly' = (ly + 1) % SCREEN_HEIGHT
      /\ regs' = LineRegs(ly') /\ diffs' = <<>> /\ scene' = scene
      /\ sampled' = sample_mode2_state(regs', ly', sampled.wy_triggered /\ ~ (ly' = 0))
      /\ render' = line_start_render(sampled', IF ly' = 0 THEN 0 ELSE render.window_line)
      /\ counted' = IF ly' = 0 THEN 0 ELSE counted + CarryOf(LineTriggered(LineRegs(ly), ly))
      /\ reply' = live_oam_scan_req(ppu_render_state)
  BY DEF LineStarts
<1>2. RegsInv /\ WindowLineInv
  BY DEF LineInv
<1>3. LineTypeOK'
  BY TypesKept DEF PixelNext
<1>4. obj_profile_enabled' = obj_profile_enabled /\ OrdinaryScene'
  <2>1. obj_profile_enabled' = obj_profile_enabled
    BY <1>1 DEF obj_profile_enabled
  <2>2. \A y : LineRegs(y)' = LineRegs(y)
    BY <1>1, <2>1 DEF LineRegs, StoredRegs
  <2> QED
    BY <1>1, <2>1, <2>2 DEF OrdinaryScene, StoredRegs
<1>5. \A y : LineRegs(y)' = LineRegs(y)
  BY <1>1, <1>4 DEF LineRegs, StoredRegs
<1>6. PICK r, y, triggered : /\ r = regs' /\ y = ly'
                             /\ triggered = (sampled.wy_triggered /\ ~ (ly' = 0))
  OBVIOUS
<1>7. r \in PpuRegisters /\ y \in 0 .. SCREEN_HEIGHT - 1 /\ triggered \in BOOLEAN
  BY <1>3, <1>6 DEF LineTypeOK
<1>8. /\ sampled'.scx_low3_line = r.scx % 8 /\ sampled'.wy_triggered = (triggered \/ y = r.wy)
      /\ sampled'.window_enable = r.win_enable
  <2>1. sampled' = sample_mode2_state(r, y, triggered)
    BY <1>1, <1>6, Zenon
  <2>2. /\ sample_mode2_state(r, y, triggered).scx_low3_line = r.scx % 8
        /\ sample_mode2_state(r, y, triggered).wy_triggered = (triggered \/ y = r.wy)
        /\ sample_mode2_state(r, y, triggered).window_enable = r.win_enable
    BY <1>7, SampledTyped
  <2> QED
    BY <2>1, <2>2
<1>9. sampled'.wy_triggered <=> ly' >= LineRegs(0).wy
  <2>1. r.wy = LineRegs(0).wy
    BY <1>1, <1>6, <1>7 DEF OrdinaryScene
  <2>2. PICK wy \in 0 .. 255 : wy = LineRegs(0).wy
    BY <1>7, <2>1 DEF PpuRegisters, Bytes
  <2>3. sampled.wy_triggered <=> ly >= wy
    BY <1>2, <2>2 DEF RegsInv
  <2>4. ly \in Nat /\ ly' \in Nat /\ (ly' = 0 \/ ly' = ly + 1)
    <3>1. ly \in 0 .. SCREEN_HEIGHT - 1 /\ SCREEN_HEIGHT \in Nat
      BY ScenesAssumption DEF LineTypeOK
    <3>2. CASE ly = SCREEN_HEIGHT - 1
      BY <1>1, <3>1, <3>2
    <3>3. CASE ly + 1 < SCREEN_HEIGHT
      BY <1>1, <3>1, <3>3
    <3> QED
      BY <3>1, <3>2, <3>3
  <2>5. (triggered \/ y = wy) <=> ly' >= wy
    <3>1. CASE ly' = 0
      <4>1. ~ triggered /\ y = 0
        BY <1>6, <3>1
      <4>2. 0 = wy <=> 0 >= wy
        BY <2>2
      <4> QED
        BY <3>1, <4>1, <4>2
    <3>2. CASE ly' # 0 /\ ly' = ly + 1
      <4>1. triggered <=> ly >= wy
        BY <1>6, <2>3, <3>2
      <4>2. (ly >= wy \/ ly' = wy) <=> ly' >= wy
        BY <2>2, <2>4, <3>2
      <4> QED
        BY <1>6, <4>1, <4>2
    <3> QED
      BY <2>4, <3>1, <3>2
  <2> QED
    BY <1>8, <2>1, <2>2, <2>5
<1>10. (IF ly' = 0 THEN 0 ELSE render.window_line) = counted' % 256
  <2>1. CASE ly' = 0
    BY <1>1, <2>1
  <2>2. CASE ly' # 0
    <3>1. Windowed(Scanline) = LineTriggered(LineRegs(ly), ly)
      BY ScanlineFields DEF LineTriggered, Windowed
    <3>2. render.window_line = (counted + CarryOf(Windowed(Scanline))) % 256
      BY <1>1, <1>2 DEF WindowLineInv
    <3> QED
      BY <1>1, <2>2, <3>1, <3>2
  <2> QED
    BY <2>1, <2>2
<1>11. LineFresh'
  <2>1. (regs = LineRegs(ly))' /\ (stage = "OamScan")' /\ (diffs = <<>>)'
    BY <1>1, <1>4 DEF LineRegs, StoredRegs
  <2>2. (sampled.scx_low3_line = regs.scx % 8)' /\ (sampled.window_enable = regs.win_enable)'
    BY <1>6, <1>8
  <2>3. (sampled.wy_triggered <=> ly >= LineRegs(0).wy)'
    BY <1>5, <1>9
  <2>4. (render = line_start_render(sampled, counted % 256))'
    BY <1>1, <1>10
  <2>5. (reply = live_oam_scan_req(ppu_render_state))'
    BY <1>1, <1>4 DEF live_oam_scan_req
  <2> QED
    BY <2>1, <2>2, <2>3, <2>4, <2>5 DEF LineFresh
<1>12. LineTypeOK /\ OrdinaryScene /\ LineFresh => LineInv
  BY FreshLine
<1> QED
  BY <1>3, <1>4, <1>11, FreshLine, PTL

(******************************* the theorem *******************************)
LEMMA PixelInitInv ==
    ASSUME PixelInit
    PROVE  PixelInv
<1>1. /\ scene \in Scenes /\ stage = "OamScan" /\ ly = 0 /\ counted = 0 /\ diffs = <<>>
      /\ regs = LineRegs(0) /\ sampled = sample_mode2_state(regs, 0, FALSE)
      /\ render = line_start_render(sampled, 0) /\ reply = live_oam_scan_req(ppu_render_state)
  BY DEF PixelInit
<1>2. ly \in 0 .. SCREEN_HEIGHT - 1
  BY <1>1, ScenesAssumption
<1>3. regs \in PpuRegisters
  <2>1. scene.lines \in [1 .. SCREEN_HEIGHT -> PpuRegisters] /\ obj_profile_enabled \in BOOLEAN
    BY <1>1, ScenesAssumption DEF obj_profile_enabled
  <2>2. 0 + 1 \in 1 .. SCREEN_HEIGHT
    BY ScenesAssumption
  <2>3. scene.lines[0 + 1] \in PpuRegisters
    BY <2>1, <2>2
  <2>4. \A r \in PpuRegisters : StoredRegs(r) \in PpuRegisters
    BY <2>1 DEF PpuRegisters, StoredRegs
  <2> QED
    BY <1>1, <2>3, <2>4 DEF LineRegs
<1>4. PICK y, triggered : y = 0 /\ triggered = FALSE
  OBVIOUS
<1>5. /\ sampled.scx_low3_line = regs.scx % 8 /\ sampled.wy_triggered = (triggered \/ y = regs.wy)
      /\ sampled.window_enable = regs.win_enable
      /\ sampled \in [scx_low3_line : 0 .. 7, wy_triggered : BOOLEAN, window_enable : BOOLEAN]
  <2>1. sampled = sample_mode2_state(regs, y, triggered)
    BY <1>1, <1>4
  <2>2. triggered \in BOOLEAN
    BY <1>4
  <2> QED
    BY <1>3, <2>1, <2>2, SampledTyped
<1>6. LineTypeOK
  BY <1>1, <1>2, <1>3, <1>5 DEF LineTypeOK
<1>7. LineFresh
  <2>1. regs.wy \in 0 .. 255
    BY <1>3 DEF PpuRegisters, Bytes
  <2>2. sampled.wy_triggered <=> ly >= LineRegs(0).wy
    <3>1. sampled.wy_triggered <=> 0 = regs.wy
      BY <1>4, <1>5
    <3>2. 0 = regs.wy <=> 0 >= regs.wy
      BY <2>1
    <3> QED
      BY <1>1, <3>1, <3>2
  <2>3. 0 % 256 = 0
    OBVIOUS
  <2> QED
    BY <1>1, <1>5, <2>2, <2>3 DEF LineFresh
<1> QED
  BY <1>6, <1>7, FreshLine DEF PixelInv

\* The inductive step.
LEMMA PixelStep ==
    ASSUME PixelInv, [PixelNext]_pipelineVars
    PROVE  PixelInv'
<1>1. CASE UNCHANGED pipelineVars
  <2>1. UNCHANGED <<scene, regs, stage, ly, sampled, render, reply, counted, diffs>>
    BY <1>1 DEF pipelineVars
  <2>2. /\ Scanline' = Scanline /\ OrdinaryScene' = OrdinaryScene
        /\ \A y : LineRegs(y)' = LineRegs(y)
        /\ obj_profile_enabled' = obj_profile_enabled
    BY <2>1, SameLine
  <2>3. LineTypeOK' <=> LineTypeOK
    BY <2>1 DEF LineTypeOK
  <2>4. RegsInv' <=> RegsInv
    BY <2>1, <2>2 DEF RegsInv
  <2>5. WindowLineInv' <=> WindowLineInv
    BY <2>1, <2>2 DEF WindowLineInv
  <2>6. ScanningOK(Scanline, render, reply)' <=> ScanningOK(Scanline, render, reply)
    BY <2>1, <2>2 DEF ScanningOK, ScanHeld, live_oam_scan_req
  <2>7. DrawingOK(Scanline, render, reply)' <=> DrawingOK(Scanline, render, reply)
    BY <2>1, <2>2
  <2>8. Resting(render)' <=> Resting(render)
    BY <2>1, <2>2 DEF Resting
  <2> QED
    BY <2>1, <2>2, <2>3, <2>4, <2>5, <2>6, <2>7, <2>8 DEF PixelInv, LineInv
<1>2. CASE PixelNext
  <2>1. LineTypeOK /\ LineTypeOK'
    BY <1>2, TypesKept DEF PixelInv
  <2>2. OrdinaryScene' => OrdinaryScene
    <3>1. scene' = scene
      BY <1>2 DEF PixelNext, OamScanDot, StartTransfer, TransferDot, EndTransfer, LineStarts,
                  LateWrite
    <3>2. obj_profile_enabled' = obj_profile_enabled
      BY <3>1 DEF obj_profile_enabled
    <3>3. \A y : LineRegs(y)' = LineRegs(y)
      BY <3>1, <3>2 DEF LineRegs, StoredRegs
    <3> QED
      BY <3>1, <3>2, <3>3 DEF OrdinaryScene, StoredRegs
  <2>3. OrdinaryScene /\ LineInv => LineInv'
    BY <1>2, <2>1, OamScanDotKept, StartTransferDotKept, TransferDotKept, EndTransferKept,
       LineStartsKept, LateWriteKept DEF PixelNext
  <2> QED
    BY <2>1, <2>2, <2>3 DEF PixelInv
<1> QED
  BY <1>1, <1>2

(* Every line of every ordinary scene is drawn along the inductive invariant, *)
(* whatever its objects, registers and palettes are and however many lines    *)
(* there are (PixelPipeline.step against render_scanline).                    *)
THEOREM PixelTheorem == PixelSpec => []PixelInv
<1>1. PixelInit => PixelInv
  BY PixelInitInv
<1>2. PixelInv /\ [PixelNext]_pipelineVars => PixelInv'
  BY PixelStep
<1> QED
  BY <1>1, <1>2, PTL DEF PixelSpec

(* No line of an ordinary scene differs from the line the reference draws, in *)
(* any pixel: the hardware that fetches, queues, waits and rests dot by dot   *)
(* against the reference that looks every pixel up.                           *)
THEOREM LineTheorem == PixelSpec => []LineAsReference
<1>1. PixelInv => LineAsReference
  BY DEF PixelInv, LineInv, LineAsReference
<1> QED
  BY <1>1, PixelTheorem, PTL
=============================================================================

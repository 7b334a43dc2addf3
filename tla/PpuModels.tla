------------------------------ MODULE PpuModels ------------------------------
(***************************************************************************)
(* The hardware picture unit and the reference model side by side on the   *)
(* events of one bridge: the board wires the first                         *)
(* (board/hardware_soc_core.spade), the bench compares the two.  One step  *)
(* is one dot, with at most one write of the core; the core's last clock   *)
(* of an M-cycle may fall on any dot.                                      *)
(***************************************************************************)
EXTENDS PpuReference, PpuTiming

VARIABLE cycled    \* history: the panel has been switched off since reset

ppuModelVars == <<ppu, lcdc7_shadow, rtl, cycled>>

PpuModelsInit == RefInit /\ rtl = dmg_skipboot_state /\ cycled = FALSE

Dot(write) ==
    /\ RefDot(write)
    /\ \E fetched \in Fetched(rtl.beam) :
          rtl' = step_dot(rtl, write, ForceLcdPower(write, lcdc7_shadow), fetched)
    /\ cycled' = (cycled \/ ~ lcdc7_shadow')

PpuModelsNext == \E write \in Writes : Dot(write)

PpuModelsSpec == PpuModelsInit /\ [][PpuModelsNext]_ppuModelVars

RtlTypeOK ==
    /\ rtl \in [regs : [lcd_enable : BOOLEAN, sel : SUBSET Sources, lyc : LycValues \cup {0}],
                beam : [run : Runs, phase : Phases, ly : Lines, dot : Dots],
                lyc_match_flag : BOOLEAN, line_high : BOOLEAN,
                vblank_req : BOOLEAN, stat_req : BOOLEAN]
    /\ cycled \in BOOLEAN

LineLength == LINE_LAST_DOT + 1
FrameLength == TOTAL_LINES * LineLength
Position(beam) == beam.ly * LineLength + beam.dot

\* How far the hardware is ahead of the reference: it stays at dot 0 in the
\* dot that switches the panel on, and its first line is shorter.
Lead ==
    IF ~ cycled THEN 0
    ELSE IF WarmupLine0(rtl.beam) THEN -1 ELSE LINE_LAST_DOT - WARMUP_LINE_LAST_DOT - 1

Blanking(phase) == IF phase \in {"Transfer", "HBlank"} THEN "TransferOrHBlank" ELSE phase

(* Both models have the panel on exactly while the bridge's copy of the      *)
(* enable bit is set, and then their beams are a fixed number of dots apart: *)
(* none until the panel is first switched off, the shortened first line      *)
(* afterwards.  Until then their phases agree but for the end of a transfer, *)
(* and so do their interrupt requests where neither HBlank nor the pulse the *)
(* hardware adds at the start of VBlank is involved.  Three copies of the    *)
(* enable bit, two sets of counters and any write in any dot could part them.*)
BeamsKeepStep ==
    /\ lcdc7_shadow = (rtl.beam.run # "Disabled") /\ lcdc7_shadow = (ppu.beam.run # "Disabled")
    /\ rtl.regs = ppu.regs
    /\ lcdc7_shadow => (Position(ppu.beam) + Lead - Position(rtl.beam)) % FrameLength = 0
    /\ ~ cycled =>
         /\ Blanking(rtl.beam.phase) = Blanking(ppu.beam.phase)
         /\ rtl.vblank_req = ppu.vblank_req
         /\ "mode0" \notin rtl.regs.sel => rtl.line_high = ppu.line_high
=============================================================================

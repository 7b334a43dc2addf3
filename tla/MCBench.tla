------------------------------- MODULE MCBench -------------------------------
(***************************************************************************)
(* TLC instance of the parts that share no state with the others: the      *)
(* reference models, the demonstration programs, the oracle the tests      *)
(* compare the hardware with, the board's memory bus and its buttons, the  *)
(* pixel pipeline and the display.  A behaviour is one job, chosen at the  *)
(* start; the other parts rest.                                            *)
(* The instance: every micro-ROM; presses alone and together; a program    *)
(* that passes two reserved labels at one address, a label in another      *)
(* bank, one in RAM, and a frame without any; traces of the device that    *)
(* agree, differ, or lack a field; WRAM with its echo and HRAM, or the two *)
(* memories shared with the picture unit; dwells of a reset button that    *)
(* are none, short, longer for a release, and saturated; lines of 18       *)
(* pixels with scrolls that wrap, windows that begin early, late and on    *)
(* later lines, and objects that meet in two profiles; a panel of five     *)
(* pixels whose set-up has data bytes and a delay.                         *)
(***************************************************************************)
EXTENDS Accumulator, RomMachine, JoypadSmoke, Lockstep, PpuModels, MemoryBus, Buttons,
        PixelPipeline, Display

CONSTANT Jobs   \* the parts that run
AllJobs ==
    {"roms", "arithmetic", "joypad", "oracle", "picture", "memory", "reset", "button",
     "pixels", "display"}
ASSUME JobsAssumption == Jobs \subseteq AllJobs

VARIABLE job

benchVars ==
    <<accVars, romVars, smokeVars, lockstepVars, ppuModelVars, busVars, buttonVars,
      pipelineVars, displayVars, job>>

\* MEM_RWB where it is stopped, no interrupt left: nothing of it can move.
RomRests ==
    /\ rom = "MEM_RWB"
    /\ cpu = [skipboot_arch_state EXCEPT !.PC = HomeOf["MEM_RWB"], !.H = 255, !.L = 255]
    /\ mem = << >> /\ banks = NoBanking /\ captured = << >> /\ dma = NoDma /\ served = MaxIrqs

AccRests == acc = 255 /\ flags = StartFlags

\* No line is drawn at all.
PipelineRests ==
    /\ scene = {} /\ regs = {} /\ stage = "Off" /\ ly = 0 /\ sampled = {} /\ render = {}
    /\ reply = {} /\ counted = 0 /\ diffs = << >>

BenchInit ==
    /\ job \in Jobs
    /\ SmokeInit /\ LockstepInit /\ PpuModelsInit
    /\ IF job = "roms" THEN RomInit ELSE RomRests
    /\ \E addresses \in IF job = "memory" THEN Touched ELSE {{}} : BusInit(addresses)
    /\ ButtonInit(IF job = "reset" THEN TickSettings ELSE {<<0, 0>>})
    /\ IF job = "arithmetic" THEN AccInit ELSE AccRests
    /\ IF job = "pixels" THEN PixelInit ELSE PipelineRests
    /\ DisplayInit

RunRom ==
    /\ job = "roms" /\ RomNext
    /\ UNCHANGED <<accVars, smokeVars, lockstepVars, ppuModelVars, busVars, buttonVars,
                   pipelineVars, displayVars, job>>
RunAccumulator ==
    /\ job = "arithmetic" /\ AccNext
    /\ UNCHANGED <<romVars, smokeVars, lockstepVars, ppuModelVars, busVars, buttonVars,
                   pipelineVars, displayVars, job>>
RunJoypad ==
    /\ job = "joypad" /\ SmokeNext
    /\ UNCHANGED <<accVars, romVars, lockstepVars, ppuModelVars, busVars, buttonVars,
                   pipelineVars, displayVars, job>>
RunOracle ==
    /\ job = "oracle" /\ LockstepNext
    /\ UNCHANGED <<accVars, romVars, smokeVars, ppuModelVars, busVars, buttonVars,
                   pipelineVars, displayVars, job>>
RunPicture ==
    /\ job = "picture" /\ PpuModelsNext
    /\ UNCHANGED <<accVars, romVars, smokeVars, lockstepVars, busVars, buttonVars,
                   pipelineVars, displayVars, job>>

RunMemory ==
    /\ job = "memory" /\ BusNext
    /\ UNCHANGED <<accVars, romVars, smokeVars, lockstepVars, ppuModelVars, buttonVars,
                   pipelineVars, displayVars, job>>
RunResetButton ==
    /\ job = "reset" /\ BridgeClock
    /\ UNCHANGED <<accVars, romVars, smokeVars, lockstepVars, ppuModelVars, busVars,
                   pipelineVars, displayVars, job>>
RunButton ==
    /\ job = "button" /\ BankClock
    /\ UNCHANGED <<accVars, romVars, smokeVars, lockstepVars, ppuModelVars, busVars,
                   pipelineVars, displayVars, job>>
RunPixels ==
    /\ job = "pixels" /\ PixelNext
    /\ UNCHANGED <<accVars, romVars, smokeVars, lockstepVars, ppuModelVars, busVars, buttonVars,
                   displayVars, job>>
DisplayJob(ev) == job = "display" /\ Clock(ev)
RunDisplay ==
    /\ \E ev \in Scanout : DisplayJob(ev)
    /\ UNCHANGED <<accVars, romVars, smokeVars, lockstepVars, ppuModelVars, busVars, buttonVars,
                   pipelineVars, job>>

BenchNext ==
    \/ RunRom \/ RunAccumulator \/ RunJoypad \/ RunOracle \/ RunPicture
    \/ RunMemory \/ RunResetButton \/ RunButton \/ RunPixels \/ RunDisplay

(* Only the programs and the display are asked to get anywhere; the fairness *)
(* is theirs.                                                                *)
BenchSpec ==
    /\ BenchInit /\ [][BenchNext]_benchVars /\ RomFairness
    /\ WF_displayVars(DisplayJob("None")) /\ WF_displayVars(DisplayJob("FrameStart"))

(* The part that runs keeps to its types.                                    *)
BenchTypeOK ==
    /\ job = "roms" => RomTypeOK
    /\ job = "arithmetic" => AccTypeOK
    /\ job = "joypad" => SmokeTypeOK
    /\ job = "picture" => RefTypeOK /\ RtlTypeOK
    /\ job = "memory" => BusTypeOK
    /\ job \in {"reset", "button"} => ButtonTypeOK
    /\ job = "pixels" => PixelTypeOK
    /\ job = "display" => DisplayTypeOK
-----------------------------------------------------------------------------
JoypadOnly == {"joypad"}

AllRoms == RomNames

SmokePresses ==
    {{}, {"up"}, {"down", "right"}, {"left"}, {"up", "down"}, {"left", "right", "a"},
     {"b"}, {"select", "a"}, {"start"}, {"start", "right"}}

LoopKey == <<0, 336>>
StepKey == <<1, 16384>>
PassKey == <<0, 341>>
MCSymbols ==
    <<[bank |-> 0, addr |-> 49152, label |-> "__checkpoint_loop"],
      [bank |-> 0, addr |-> 336, label |-> "__checkpoint_loop"],
      [bank |-> 1, addr |-> 16384, label |-> "__commit_step"],
      [bank |-> 0, addr |-> 341, label |-> "__commit_step"],
      [bank |-> 0, addr |-> 341, label |-> "__pass"],
      [bank |-> 0, addr |-> 342, label |-> "__fail"],
      [bank |-> 0, addr |-> 343, label |-> "Main"]>>
MCProgram == <<<<LoopKey, <<0, 343>>, StepKey>>, <<>>, <<>>, <<StepKey, PassKey, PassKey>>>>
MCButtons == {"a"}
MCFields == {"registers", "checkpoint_tag", "ime_state"}
MCTraces ==
    {[registers |-> "same", checkpoint_tag |-> "same", ime_state |-> "unavailable"],
     [registers |-> "other", checkpoint_tag |-> "same", ime_state |-> "unavailable"],
     [registers |-> "same", checkpoint_tag |-> "unavailable", ime_state |-> "unavailable"],
     [registers |-> "same", checkpoint_tag |-> "same", ime_state |-> "same"]}

MCSelections == {{}, {"lyc"}, {"mode2"}, {"mode1", "mode0"}, {"lyc", "mode2"}}

MCTouched ==
    {{<<"Wram", 0>>, <<"Echo", 1>>, <<"Hram", 0>>}, {<<"Vram", 0>>, <<"Oam", 0>>}}
MCTickSettings == {<<0, 0>>, <<1, 2>>, <<2, 0>>, <<3, 1>>, <<3, 3>>}
MCPages == {"Wram", "Echo", "Vram", "Oam", "High"}

\* Tile memory: patterns below the maps, tile numbers of both halves in them.
MCVram(addr) ==
    IF addr < 38912 THEN (addr * 37 + (addr \div 16) * 5 + 11) % 256
    ELSE ((addr * 3 + (addr \div 32) * 7) % 4) + 128 * (addr % 2)
Plain ==
    [bg_enable |-> TRUE, obj_enable |-> TRUE, obj_size_8x16 |-> FALSE, bg_map_hi |-> FALSE,
     win_map_hi |-> TRUE, bgwin_data_hi |-> TRUE, win_enable |-> FALSE,
     scx |-> 0, scy |-> 0, wx |-> 12, wy |-> 0, bgp |-> 228, obp0 |-> 27, obp1 |-> 57]
Obj(y, x, tile, attributes) == [y |-> y, x |-> x, tile |-> tile, flags |-> attributes]
Hidden == Obj(0, 0, 0, 0)
Table(a, b, c) == [i \in 0 .. 2 |-> <<a, b, c>>[i + 1]]
Scene(profile, oam, lines, late) ==
    [obj_profile |-> profile, oam |-> oam, lines |-> lines, late |-> late]

Scrolls == {<<0, 0>>, <<3, 6>>, <<251, 255>>}
ScrollScenes ==
    {Scene(profile, Table(Hidden, Hidden, Hidden),
           <<[Plain EXCEPT !.scx = s[1], !.scy = s[2]],
             [Plain EXCEPT !.scx = t[1], !.scy = t[2], !.bgwin_data_hi = FALSE], Plain>>, {})
     : profile \in BOOLEAN, s \in Scrolls, t \in Scrolls}
\* Window column and fine scroll; on the second line the window is elsewhere.
WindowScenes ==
    {LET line == [Plain EXCEPT !.win_enable = TRUE, !.wx = w[1], !.scx = w[2], !.wy = wy]
     IN Scene(profile, Table(Hidden, Hidden, Hidden),
              <<[line EXCEPT !.win_enable = first], [line EXCEPT !.wx = 12],
                [line EXCEPT !.bg_map_hi = TRUE, !.win_map_hi = FALSE]>>, {})
     : profile \in BOOLEAN, first \in BOOLEAN, wy \in {0, 1},
       w \in {<<7, 0>>, <<8, 3>>, <<12, 0>>, <<25, 3>>}}
\* Two objects that meet anywhere, flipped or behind the background, and one
\* more than a line takes.
Columns == {9, 13, 22}
ObjectScenes ==
    {Scene(TRUE, Table(Obj(16, a, 3, attributes), Obj(top, b, 5, 0), Obj(15, 14, 2, 64)),
           <<[Plain EXCEPT !.scx = 3],
             [Plain EXCEPT !.win_enable = (top = 10), !.obj_size_8x16 = TRUE],
             [Plain EXCEPT !.scy = 9]>>, {})
     : a \in Columns, b \in Columns, attributes \in {32, 144}, top \in {10, 17}}
PaletteScenes ==
    {Scene(profile, Table(Obj(16, 12, 3, 0), Obj(16, 20, 1, 128), Hidden), <<Plain, Plain, Plain>>,
           {[Plain EXCEPT !.bgp = 27, !.obp0 = 201], [Plain EXCEPT !.bg_enable = FALSE]})
     : profile \in BOOLEAN}
MCScenes == ScrollScenes \cup WindowScenes \cup ObjectScenes \cup PaletteScenes

PixelsOnly == {"pixels"}
\* An object that touches the left edge of a scrolled line.
EdgeScenes ==
    {LET line == [Plain EXCEPT !.scx = 16]
     IN Scene(TRUE, Table(Obj(16, 8, 3, 0), Hidden, Hidden), <<line, line, line>>, {})}
\* SCY changes while a line of the board's profile is drawn.
ScrollingScenes ==
    {Scene(FALSE, Table(Hidden, Hidden, Hidden), <<Plain, Plain, Plain>>,
           {[Plain EXCEPT !.scy = 40]})}

DisplayOnly == {"display"}
MCInitData == <<0, 2>>
MCFrameData == <<2, 0>>
=============================================================================

# Iceboy in TLA+

Iceboy is a Game Boy (DMG) written in Spade for the iCEBreaker board: an SM83
core, its memories and peripherals, a picture unit and the board logic around
them, with a host side in Python that builds test programs, models what they
should do and steps an emulator beside the hardware. This directory models both
in TLA+, checked by TLC on small instances and proved, where it matters most, by
TLAPS for every value of the parameters.

The hardware is synchronous to one clock, so a step of its models is one clock,
one dot (four to an M-cycle) or one M-cycle where a component is enabled by
`m_ce` only. Concurrency is what happens *in the same clock or in the clocks
between*: a source raises a request while the core acknowledges it, a write
reaches a timer in the clock of its reload, a frame starts while the last pixel
of the previous one is on the wire. On the host side a step is an instruction
(the programs), a frame (the joypad demonstration) or a call (the oracle).

## 1. The system

| Component | State | Operations | Interacts through |
|---|---|---|---|
| SM83 core: `src/cpu/core`, `semantics`, `control`, `types`, `regs` | registers, IME, halt state; phase, decoded opcode, `imm_lo/hi`, `temp` | one phase handler per M-cycle (`step_mcycle`), `apply_delta`, reset | bus request and returned byte, pending interrupts, acknowledge |
| Decoder and ALU: `src/cpu/decode`, `alu` | none | opcode to instruction, flags and results | called by the core |
| Interrupt controller: `src/periph/interrupts` | IE, IF | CPU write, source pulses, acknowledge | `irq_pending` to the core |
| Timebase: `src/board/clockgen` | `sys_counter`, dot and line counters | count | `m_ce`, `t_index`, `sys_counter`, frame start |
| Timer: `src/periph/timer` | TIMA, TMA, TAC, sampled bit, overflow delay, request | count on a falling counter bit, reload, writes | timer request |
| Serial port: `src/periph/serial` | SB, SC, cycles left, request | start, shift, finish, writes | serial request |
| Joypad: `src/periph/joypad` | select bits, lines of the last clock, request | select, sample | joypad request |
| Framebuffer: `src/video/framebuffer_spram` | reader active, next address, pending read, held pixel | accept a frame start, fetch, hand over, write from the picture unit | `frame_start`, `pixel_valid`, `pixel_advance` |
| Panel controller: `src/periph/st7789_lcd` | state machine, delay, command/data index, latched pixel, SPI shifter | reset pulse, initialisation, frame commands, pixel stream | SPI, `init_done` |
| Board system: `src/board/hardware_soc_core` | bus data register, prefetch PC | wires the above | everything |
| Bus and memories: `src/bus/*`, `src/mem/*` | SPRAM and EBR contents, data captured per slot | four slots per M-cycle: core, DMA, write | address decode, ownership |
| OAM DMA: `src/periph/oam_dma` | active, source page, index | start, advance, finish | takes memories away from the core |
| PPU event bridge: `src/bus/ppu_event_bridge` | frame and sequence counters, LCDC shadow | turn register writes into timed events | picture unit |
| Picture unit: `src/ppu/rtl`, `src/ppu/sem` | mode, line, dot; object list, fetcher, two queues, window | one dot, in a profile with objects and one without | memory requests and answers, scanout, VBlank and STAT requests |
| ROM upload: `src/periph/rom_uploader`, `uart_rx`, `uart_tx`, host script in `tools/` | protocol state, checksum, staged byte; receiver and transmitter | magic, length, payload, checksum, answer | writes the ROM memory, holds the core in reset |
| Reset bridge, button bank: `src/board/reset_bridge`, `src/periph/button_bank` | synchroniser, debounce counter, edge registers | count, switch | reset of the core, buttons of the joypad |
| Micro-ROM builder, harness bus: `roms/build_micro_rom.py`, `test/harness/rom_runner.py` | the program being laid out; memory, bank controller, DMA | emit, label, fix up, wrap; read and write a byte | runs the core in simulation |
| ALU loop demonstration: `bench/roms/alu_loop.asm`, `bench/ref/alu_loop.py` | its registers | run; list the expected checkpoints | trace compared on the board |
| Joypad demonstration: `bench/roms/joypad_bg_smoke.asm`, `bench/ref/joypad_bg_smoke.py` | cursor, palette, log, tile map | one frame | buttons; final frame compared |
| Oracle and clients: `bench/pyboy/*` | commit queue, frame, buttons, generation; recorded commits | step to the next commit, input, snapshot, restore, reset; record, replay, compare | the emulator's hooks; device under test |
| References: `spec/flag_policies.py`, `tools/sm83_decode_reference.py`, `bench/ref/ppu_ref.py`, `bench/ref/ppu_spatial_oracle.py` | none, or beam and registers | value and flags; opcode to projection; one dot; one pixel | compared with the hardware in tests |

### What is hard to get right

* The core is a micro-sequenced machine: latches written in one phase are read
  again several phases later (`decoded`, `imm_hi`, `temp`), so an instruction is
  correct only if no other instruction's latch survives into it.
* EI's delay, the HALT bug, HALT's wake-up and the five-cycle dispatch are four
  small state machines with one shared boundary.
* Requests may come in any clock; the core looks once per instruction.
* Registers of the timer and the serial port can be written in the clock in
  which the hardware changes them.
* The framebuffer reader and the panel controller each keep their own account
  of one frame and talk through two one-clock signals.
* The memories have one port; what a clock returns was asked for earlier, and
  the DMA or the picture unit may take a memory away in between.
* In the picture unit the tile fetcher, the objects and the window take the one
  fetcher from each other in the middle of a request, while registers change.
* Uploads fail half-way: framing errors, overruns, timeouts, the reset button.
* Commits, timeouts, snapshots and input of the oracle interleave with frames
  that hold several commits or none.

### What makes each component correct

| Component | Properties |
|---|---|
| core | implements the instruction set (transactions, order, result); right number of cycles; latches of the instruction in progress; EI/HALT/dispatch agree |
| ALU, decoder | agrees with the tests' flag policies; decimal adjustment gives decimal arithmetic; the programs built from the opcodes run as their authors meant |
| interrupts | no request lost or served twice; none let in too early; bounded latency; HALT ends |
| timer, serial | reload at the fifth clock with the TMA of that clock; no tick lost while it is pending; a transfer takes exactly eight M-cycles after its last start |
| display | each pixel once and in order; a begun frame ends; frames keep coming |
| memories, DMA | the byte the core commits with is the byte at the address it asked for; the DMA copies its page; a write changes its byte alone, and none that is blocked |
| picture unit | mode and line belong to the beam; hardware and reference keep step through power switches; every pixel is the one the reference says |
| upload | the core runs only on a verified image; one answer per attempt; every failure is followed by a usable retry |
| buttons | a switch exactly after the dwell; no switch by a short disturbance |
| programs and references | no jump outside the program; each ends having done its work; demonstration and reference agree at every frame and checkpoint |
| oracle | every passage of a hook is one commit, in order, also through timeouts, snapshots and resets; a replay finds its recording; a divergence is the first |

## 2. Modules

```
CpuTypes -- Cpu -- CpuProofs               the sequencer and its theorems
              \--- CpuTrace                + history; refines CpuIsa and InterruptCore
CpuTrace + CpuProofs -------- CpuTraceProofs
CpuTypes -- CpuIsa                         abstract: one step per instruction
InterruptCore -- InterruptSystem -- InterruptProofs
Timer + Serial + Joypad ----- Peripherals
Uart ------------------------ UartLink
Peripherals + UartLink ------ PeripheralProofs
RomUploader ----------------- RomUpload -- UploadProofs
Framebuffer + Lcd ----------- Display
Buttons + Display + MemoryBus  BoardProofs
Alu -- Accumulator
  \--- DecodeReference -- Instructions + MicroRoms -- RomMachine
JoypadSmoke
Oracle -- Lockstep
Accumulator + JoypadSmoke + Lockstep  BenchProofs
PpuBus -- PpuReference + PpuTiming -- PpuModels
SpatialOracle -- PixelPipeline
PpuModels + PixelPipeline --- PpuProofs
MCCpuTrace, MCPeripherals, MCRomUpload, MCBench      TLC instances
```

`interrupt_system` needs no instance of its own. `MCPeripherals` and `MCBench`
put parts side by side that share no state: a behaviour is one of them, chosen at
the start (`Devices`, `Jobs`), and the others rest.

The hardware:

* **CpuTypes, Cpu**: one action per phase handler of `step_mcycle`
  (`HandleFetch`, `HandleReadImm8`, ... `HandleServiceInterrupt`,
  `Execute...`); `Commit` is `apply_delta` with `resolve_ime`. `arch` and
  `micro` are `CpuArchState` and `CpuMicroState`. Bytes have `ByteMod` values
  (256 in the source) and words are pairs of bytes, so wrapping and
  high/low-byte order stay what they are. Opcodes that the sequencer treats
  alike are one class; `a`, `hl` and the outcome `cc` of a flag test stand for
  the register file; the ALU is a parameter whose result depends on both
  operands and their order. The environment chooses the opcode class, the byte a
  read returns and the pending set of each cycle.
* **CpuIsa**: what a program sees, one atomic step per instruction or
  interrupt dispatch, with the bus transactions it makes.
* **CpuTrace**: the sequencer plus history variables, with two refinement
  mappings: to `CpuIsa`, and to `InterruptCore`.
* **InterruptCore, InterruptSystem**: the core reduced to when it samples, and
  `periph/interrupts` with it on the common clock and with sources that pulse at
  any clock. Because `CpuTrace` implements `InterruptCore`, what
  `InterruptSystem` shows holds of the sequencer.
* **Alu, Accumulator**: bytes and words, every operation of `cpu/alu` on them, the
  accumulator and the flags under any sequence of them, and the operations of
  `spec/flag_policies.py` beside it.
* **Timer, Serial, Joypad, Peripherals**: each entity clock by clock, and the
  three on `sys_counter` with every write the program can make: at most two in
  consecutive M-cycles, then to neighbouring addresses (16-bit stores and
  pushes).
* **Framebuffer, Lcd, Display**: reader and panel controller. A pixel is its
  index, so order and loss are visible; a command is its index, with the number
  of its data bytes. The picture unit may do anything in any clock.
* **MemoryBus**: the register the core reads through, the SPRAMs with their four
  slots in an M-cycle, the ports of VRAM, OAM and HRAM, the DMA and the
  ownership of the regions. The program asks for one thing in an M-cycle; the
  picture unit changes its mode at any clock, at most once in an M-cycle.
* **Buttons**: the synchroniser and debouncer of BTN_N, and one button of the
  bank (from its Verilog, `test/harness/verilog/button_bank_raw.v`, which the
  Spade entity wraps). The pin moves at will.
* **PpuBus, PpuTiming**: the writes as the event bridge passes them on, and the
  mode timing, warm-up frame, LYC comparison and interrupt edges of the
  hardware. The dot in which a transfer ends is free within `TransferEnds`.
* **PixelPipeline**: object scan, tile fetcher, both queues, window and mixer,
  dot by dot, in both profiles; each pixel is compared with the reference at
  the registers of its dot. Requests are answered in the next dot.
* **Uart, UartLink**: transmitter and receiver clock by clock. On a
  clean line the sender is the transmitter whose bit time may differ from byte to
  byte and which may send back to back; between bytes the line may glitch. On a
  noisy line every level is possible in every clock. A byte is the set of the
  positions of its ones.
* **RomUploader, RomUpload**: the protocol machine with the memory it fills, and
  around it what `UartLink` shows of the receiver (at most one report every
  `MinGap` clocks), the answer as the time it takes on the wire, the host
  program, its user and the faults. The phase between a byte and the write slot
  of the memory is free. The RESET button clears the protocol state and the
  UARTs and nothing else, as in the code: the magic window, the staged byte and
  the counters keep running.

The host side:

* **DecodeReference**: the projection of every opcode the decoder is generated
  from (`tools/sm83_decode_reference.py`).
* **MicroRoms**: the assembler of `build_micro_rom.py` (labels, fixups, header,
  bank payloads, patched handlers), its 23 programs byte by byte, and the ALU
  loop with the macros of `template.inc`.
* **Instructions, RomMachine**: the core a whole instruction at a time, on
  `DecodeReference` and `Alu`, and on the harness bus with its bank controllers
  and DMA; timer, display and player act at any moment.
* **JoypadSmoke**: program and reference side by side, frame by frame. The
  program repairs and redraws a tile map, the reference computes every pixel.
* **Oracle, Lockstep**: `PyBoyOracle` with its hooks and symbols, and its
  clients `HookDriver`, `run_lockstep` and the window around a divergence. A
  call is a task, each commit it takes a step.
* **PpuReference**: `bench/ref/ppu_ref.py`, one dot a step. **PpuModels** steps it
  beside `PpuTiming` on the events of one bridge.
* **SpatialOracle**: `bench/ref/ppu_spatial_oracle.py`, what a pixel should be. It
  also holds the address and palette formulas that `ppu/rtl/tile.spade` and
  `mixer.spade` share with it.

Definitions marked *Plausible defect* or *A slip* stand before the definition
they would replace; no specification uses them. `PROJECT.json` pairs each with
the property that notices it.

## 3. Runs

| Run | Shows | States |
|---|---|---|
| `cpu_isa` | every path of the sequencer implements the instruction set and `InterruptCore`; types, latches, cycle counts | 194k |
| `interrupt_system` | requests conserved, none unexpected, bounded latency, HALT ends | 225k |
| `peripherals` | timer reloads and serial transfers on time under every write; bytes delivered once and unchanged by a slow, exact or fast sender, glitches are no bytes, reports a byte apart on any line | 2.6M |
| `rom_upload` | the core runs only on a verified image; one staging register and no answer queue suffice; "Upload OK" means loaded; retrying succeeds | 1.5M |
| `bench` | one job each: arithmetic, programs, joypad, oracle, picture timing, pixels, memory, both debouncers, display | 276k |
| `cpu_cycle_table` | violation: 8-bit ALU instructions take a cycle more than the table | |
| `div_write` | violation: writing DIV does not restart the counter | |
| `display_heartbeat` | violation: a frame start at the wrong moment stops the display | |
| `rom_swap` | violation: a second upload without the reset button is never answered | |
| `joypad_smoke` | violation: the cursor is drawn with tiles of another style | |
| `obj_left_edge` | violation: an object at the left edge spoils the background of its line | |
| `scroll_live` | violation: SCY written while a line is drawn does not move its later tiles | |

The seven violations are disagreements between the code and the documents,
references or tests of the repository; `PROJECT.json` ("findings") quotes both
sides.

What `bench` says of each job:

| Job | Properties |
|---|---|
| arithmetic | `FlagsAgree`: the ALU and the flag policies give the same values and flags; `DecimalArithmetic`: ADC or SBC of decimal bytes and DAA is decimal arithmetic with its carry |
| roms | `JumpsLand`: every instruction starts where the source wrote one; `RomOutcomes`: a program in its final loop has done what its comments say; `CheckpointsAsExpected`: the ALU loop passes its checkpoints with the registers its reference lists; `RomsFinish`: each gets to its final loop, or round its main loop, for ever |
| joypad | `SmokeFollowsReference`: position, style, palette, log and all tiles but the cursor's agree after every frame |
| oracle | `CommitsInOrder`, `ReplayMatches`, `VerdictIsFirstDivergence` |
| picture | `PhaseMatchesBeam`: the reference's phase is the one its line and dot belong to; `BeamsKeepStep`: hardware and reference stay within the lead of the warm-up line, whatever is written |
| pixels | `LineAsReference`: in an ordinary scene every pixel is the reference's (the exceptions are listed under Observations) |
| memory | `MemoryIsAtomic`: the abstract memory, in which the core's access and the copied byte happen at once at the end of an M-cycle, is what the four clocks implement |
| reset, button | `SwitchesWhenSteady` |
| display | `PixelsInOrder`, `FramesEnd` |

### Bounds

* `cpu_isa`: `ByteMod` 4 (16 addresses): every byte order, wrap and sign case
  occurs. `MaxRetired` 2 instructions or events after each reset: what an
  instruction can inherit from the past are the latches and IME/halt, and one
  predecessor can leave each value of those that a longer history can (the
  inductive invariant of the proof says which).
  The pending sets are none, one high, one low, and two at once. An interrupt
  dispatch counts as an event, HALT's idle cycles do not.
* `interrupt_system`: three of five sources, highest, lowest and one between;
  `MaxBusy` 5 is the longest instruction after its fetch, which `cpu_isa`
  checks, and `CpuTraceProofs` proves, through `ImplementsCore`. Sources may pulse in any clock, so no other
  bound is needed; time counters are histories that return to zero.
* `peripherals`: TIMA counts modulo 3 and the two periods are 32 and 16 clocks;
  16 is the shortest period of the source, the one that races the four-clock
  reload. `sys_counter` is kept modulo 32, a multiple of both. The program uses
  either the timer or the ports (`focus`): they share no register and no signal.
  The serial line has four data bits of twenty clocks, half a bit is ten, and a
  sender five per cent off. At the stop bit the sampling point has moved by 5.5
  bits times the error, so the bound is as sharp as for eight bits at three per
  cent. The glitches are up to nine clocks, the longest that validation can see
  through.
* `rom_upload`: two-bit bytes, so a length has two digits and a checksum can be
  right by chance; payloads of none to three bytes, the longest filling the
  memory so that the address wraps, with a byte that ends the magic word; longer
  lengths occur by corruption and are rejected. `MinGap` 6 is the least for which a byte is written before the next
  one, in every phase of the slot (the source has 988), and an answer takes
  longer than a byte, as in the source, and less than a magic word. `MaxFaults` 2: a second fault can hit
  the recovery from the first.
* What `OkMeansLoaded` leaves out is a limit of the protocol, not of the model
  (`trusted`): the checksum covers neither the length nor the number of bytes and
  there is no timeout in the receiver, so after a lost byte, a damaged header or an
  aborted attempt the next frame may be read as payload and its checksum match by
  chance (one in 256). Damage while the receiver looks for a magic word counts
  too: with the last byte of the magic word spoiled, a length byte of the same
  value completes it, and the receiver reads a frame that was not sent. A payload that holds the magic word is excluded by
  `MagicUniqueAssumption` for the same reason: after a failure its middle can
  be taken for the start of a frame. What runs is always what
  `RunningIsVerified` says.

And of the jobs of `bench`:

* arithmetic: with `Operands` 15 and 102 the accumulator comes to every byte,
  and decimal arithmetic is checked there against every decimal byte. The flag
  policies are compared for these two operands, one with and one without a carry
  between the nibbles; the theorem has all.
* roms: all 23 programs with their own addresses and bytes, and the ALU loop.
  What a program reads from outside is a choice in the program that depends on
  it: the buttons are `Nibbles` 12 to 15 (the lines it looks at), a running
  clock reads 0 or 255. `MaxIrqs` 258 is more than any program waits for, with one byte counter
  wrapping. `LastAddress` 49407 (C0FF) stops MEM_RWB at the end of the region its
  documentation names (see Observations).
* joypad: a screen of 3 by 3 cursor positions with the home in its middle, so each
  border is one press away, and `SCRIPT_FRAME_COUNT` 5 frames of any presses.
* oracle: at most two frames for a commit, one frame of boot ROM, a script of
  four frames of which one holds three commits and two hold none, six calls. Six
  calls suffice to take a snapshot, run, restore, record and
  compare; two commits of a frame may be taken before the call ends.
* picture: two of four lines are drawn, OAM scan, transfer, line and warm-up end
  at dots 2, 4, 7 and 1, 3, 5. Only the order of these dots matters to the code. A
  transfer ends at dot 4 or 5 (`TransferEnds`). A write can be in each dot.
* pixels: lines of 18 pixels are two tiles and a piece; three lines, three
  objects, two to a line; 82 scenes. They cover scrolls that wrap in both
  directions, both pattern areas and maps, windows that begin early, late and on
  a later line, two objects in every order, both sizes, flips and priorities, one
  object more than a line takes, and palettes written within a line at any dot. A
  larger set of 876 scenes of the same kinds was checked once with the same
  result.
* memory: DMA pages of two bytes, one value the program writes, two sets of
  addresses the program touches: WRAM, its echo and HRAM, or VRAM and OAM. The
  source page is WRAM, its echo, VRAM, OAM or page FF. The picture unit changes its
  mode at most once in an M-cycle, as in the source, where a mode lasts
  longer than four clocks.
* reset, button: `MaxTicks` 4 is the saturating limit; the five settings are no
  dwell, a release longer and shorter than a press, and both saturated. `HalfCount`
  4 is half the range of the bank's counter.
* display: five pixels, four half bit times per byte, two initialisation and
  two frame commands with and without data. Pixel count, byte position and
  interference of writes vary independently of the frame size.

The jobs run in one instance only because no two of them share state, so the
product of their states has nothing to show.

### Fairness

* `interrupt_system`: weak fairness of the two clock actions, since the clock never
  stops. Nothing is assumed of the sources or of the program.
* `bench`, programs: the core runs unless it waits in HALT or for its dispatch
  (`CoreRuns`, which is weak fairness of `Step` with its condition spelled out),
  due interrupts are served, and weak fairness of `RaiseIrq` (timer and display
  keep counting) and of the DMA.
* `bench`, display: weak fairness of the clock in which the picture unit outputs
  nothing (every line has blanking) and of the one in which it starts a frame
  (the picture unit is never stopped on these boards). `FramesEnd` needs the
  first only.
* `rom_upload`: weak fairness of the clock, of the sender once its byte is due,
  and of the host program and its user, who start again after a failure; faults
  are bounded, so after the last one a whole attempt is undisturbed.
* Deadlock is checked except in the runs on `MCBench`, where jobs do stop: a
  script of the oracle ends after its calls, the joypad demonstration after its
  frames, a drawn picture is complete.

## 4. Proofs

### CpuProofs

For every even `ByteMod` of at least 4, every vector table and every ALU
(`ByteModAssumption`, `VectorAssumption`, `AluAssumption`):

* `TypeCorrect == CpuSpec => []CpuTypeOK`. The registers, the latches and the
  phase stay in their types. `CpuTypeOK` is not inductive: the handlers of
  memory and dispatch phases have a case only for some continuations, and a
  continuation is meaningful only with the right decoded latch.
* `SequencerSafe == CpuSpec => []SequencerConsistent`. The continuation in
  progress belongs to the decoded instruction, `imm_hi` holds a cycle count when
  it is used as one, and phase, halt state and IME agree.

The inductive invariant is `SeqInv == CpuTypeOK /\ SequencerConsistent`:
`SeqInvInit` (initial states), `SeqInvReset`, and `SeqInvStep` with one step per
handler, each resting on two lemmas, one for the types (`FetchType`, ...) and
one for the consistency (`FetchConsistent`, ...). Below them are lemmas on byte
and word arithmetic, which is nonlinear in `ByteMod`, and on the phases a
handler can build. TLC checks both invariants in `cpu_isa`.

### CpuTraceProofs

For every `ByteMod`, vector layout, ALU and set of pending sets
(`ByteModAssumption`, `VectorAssumption`, `AluAssumption`, `TraceAssumption`), without
a bound on the length of a run other than the `MaxRetired` of the model, which is any
number:

* `Refinement == Spec => ImplementsIsa`. Every path through the phases makes exactly
  the transactions of its instruction, in order, and leaves exactly its state.
* `Timing == Spec => InstructionTiming`. Every instruction takes the M-cycles of the
  opcode table, plus the extra one of `ExtraCycleOps` (the finding of `cpu_cycle_table`).
* `CoreRefinement == Spec => ImplementsCore`. Seen from the interrupt controller the
  sequencer is `InterruptCore` with `MaxBusy` 5, so the theorems of `InterruptProofs`
  hold of it.

The refinement mapping speaks of history: `st` is the state at the last instruction
boundary, `log` what has been transferred since. The invariant `TraceInv` ties the
two to the sequencer, phase by phase: which bytes the instruction has fetched, what
it has transferred in how many cycles, which registers differ from `st` already, and
where the operands are. The last part is what makes it long. The latches are reused
while an instruction runs: CALL overwrites the high byte of its target (`imm_hi`)
with a cycle count when `temp` already holds the target, a return counts in the same
latch, a 16-bit store has its second byte in the phase. So `InCall`, `Popped` and
`Modified` say that there is a byte that was read, not that a latch holds it.
`SeqInv` of `CpuProofs` supplies the types and which latch belongs to which phase; its
clause for `Execute` had to be made stronger for this: with an operand word, only the
four jumps and calls come there.

`RefinedStep` has one lemma per handler (`FetchTrace`, `PrefixTrace`, ...,
`ServiceTrace`), `Execute` one per group of instructions. Each shows that the step
keeps `TraceInv`, and that it is a step of `CpuIsa` if it ends an instruction and
shows nothing if it does not. Below them: `CommitFields` (what `apply_delta` and
`resolve_ime` leave), `BoundaryReached` and `Recorded` (what the history variables
do), `RegisterDone` ... `MemoryDone` (when an end is a step of `CpuIsa`),
and sums of words that wrap. Timing and the second refinement follow from the same
invariant: `TimedStep` reads the cycles off it, `BusyCycles` bounds them by five,
and `SeenStep` maps each handler to the cycle of `InterruptCore` it is.

### InterruptProofs

For every set of sources and every length of the longest instruction
(`SourcesAssumption`, `MaxBusyAssumption`):

* `ConservationTheorem == SystemSpec => RequestsConserved`. An acknowledge and a store
  to IF commit in the same kind of clock, and a source may pulse in that clock; the
  proof follows `iflags'` through `NextIf`, whose last word is the source's. That a
  dispatch takes back a request that is pending rests on `HighestIsPending`.
* `GateTheorem == SystemSpec => NoUnexpectedInterrupt`. The invariant behind it is
  `ImeWithinGate`: IME is never further open than EI, DI, RETI and the dispatches so
  far allow, so a dispatch, which needs IME, finds the gate open (`DispatchIsEntry`).
* `LatencyTheorem == SystemSpec => []BoundedLatency`. The bound alone is not inductive:
  `StageFits` says that a waiting request waits fewer M-cycles than the instruction
  in progress has taken, that HALT begins with none waiting, and that a dispatch and
  the HALT bug run with IME off.
* `SystemTypeCorrect == SystemSpec => []SystemTypeOK`.

The inductive invariant is `SystemInv`: these parts together. `CycleKeepsInv` has one
step for each kind of core cycle, `SystemInvStep` one for each action.

### PeripheralProofs

For every range of TIMA, every set of clock selects and every set of keys
(`TimerAssumption`, `CounterAssumption`, `KeysAssumption`), whatever the program
writes and the player presses:

* `ReloadTheorem == PeriphSpec => []ReloadOnTime`. The property says when the request
  and the TMA are seen; `DelayFitsAge` adds what `overflow_delay` is in each of the
  clocks since the wrap, and so which branch of `NextTima` is taken.
* `TransferTheorem == PeriphSpec => TransferOnTime`. `CyclesFitAge` says that
  `cycles_left` is what the M-cycle of the transfer leaves of eight, and that SC shows
  a transfer exactly while there is one; a restart and a store that stops the
  transfer in its last M-cycle are cases of their own (`SerialStep`).
* `PeripheralsTypeCorrect == PeriphSpec => []PeripheralsTypeOK`.
* `TicksKept == PeriphSpec => []NoTickSwallowed`. `WrapFitsCounter` says what started
  the reload in progress: the counter bit fell by itself, at a multiple of its period
  and so of 16 clocks, or a store to DIV or TAC made it fall in the last clock of an
  M-cycle. In the first case no store comes before the third clock, and one to TAC
  there can raise the sampled bit but the counter lets none fall before 16 clocks have
  passed; in the second the only store that can follow in time is to the neighbouring
  register, which is TIMA or TMA. This is the argument for the order of the branches
  in `next_tima_reg`, and it needs both that periods are multiples of 16 and that
  stores come in pairs at most. `RemainderOfDivisor` and `NextRemainder` are the
  lemmas on counters kept modulo something.

The inductive invariant is `DevicesInv`: the first three parts together; for the ticks
`TickInv` adds to it `WrapFitsCounter` and what the sampled bit was taken from.
`WritesFit` says that every store the core can make carries what its register holds
and comes in the last clock of an M-cycle.

The UART is on a clock of its own (`UartLink`). For every number of data bits, every
bit time up to 256 clocks and every set of sender periods (`DataBitsAssumption`,
`TicksAssumption`, `LinkAssumption`):

* `LinkTypeCorrect == LinkSpec => []LinkTypeOK`, and with it that the eight-bit
  tick counter never wraps and the transmitter never shifts past its stop bit.
* `ReportsArePaced == LinkSpec => ReportsSpaced`: two reports are `HalfTicks +
  (RxBits + 1) * BitTicks` clocks apart on any line. It is what lets `RomUpload`
  replace the receiver by a least distance between reports.

The inductive invariant `LinkInv` adds to the types that the age of the last
report is greater than the age of the byte in progress, `Elapsed`, which is a
function of the receiver's registers. A step resets that age or adds one
(`ElapsedStep`), it stays below `Spacing` (`ElapsedBound`), and at the stop bit
it is `Spacing - 1` (`StopAfterSpacing`). The product `bit_index * BitTicks` is
nonlinear and kept in `BitTimes` and `ProductMonotone`.

* `Delivered == LinkSpec => DeliveredAsSent`, for senders within the tolerance of the
  receiver (`DriftAssumption`): the sender is in bit `k` from the middle of the
  receiver's bit `k` until two clocks later. With the board's 104 clocks per bit and
  eight bits that is a sender of 100 to 109 clocks per bit, so the 115200 baud of the
  host with some four per cent to either side.

The inductive invariant is `CleanInv`. In a byte it counts the clocks since its start,
`SinceStart`, from the registers of the sender, and says what every register of the
receiver is then: which bit each of the three flip-flops holds (`LineFollows`), and
state, tick counter, index and the bits collected so far between two samples
(`ReceiverFollows`). `SampledBit` is where the tolerance comes in: at the moment of
sample `k` the sender is in bit `k`, at least two clocks from its beginning. In a
pause, `GlitchOnLine` gives the same registers by the length of the low pulse and the
clocks since; the pulse is over when the start bit is looked at again, because it is
shorter than half a bit. `ReceiverMoves` gives what the receiver does in each of its
situations, `ReceiverStep` puts the clocks of a byte on top of it; `StartStep`,
`ByteStep`, `PauseStep` and `GlitchStep` are the four steps of a clean line.

### UploadProofs

For every magic word no end of which is a beginning of it, every size of the
memory that two length bytes can name, every set of payloads that fit it and hold no
second magic word, every spacing of the reports of at least six clocks, every
duration of an answer shorter than a magic word, and any number of faults
(`UploaderAssumption`, `UploadAssumption`, `MagicUniqueAssumption`,
`MagicBorderlessAssumption`; of the checksum's XOR only that it commutes and
cancels, `XorAssumption`). `ROM!` has no border; the spacing is what `ReportsArePaced`
shows of the receiver.

* `TypesKept == UploadSpec => []UploadTypeOK`.
* `OneRegisterIsEnough == UploadSpec => []NothingDropped`. `StagingInTime` counts the
  clocks since a byte was staged against the phase of the write slot: the slot comes
  within four clocks, so nothing is staged when the next report can come.
  `AnswerBeforeMagic` measures an answer that is still on the wire against the bytes
  of a magic word that the window can have taken meanwhile; it needs that two magic
  words never overlap.
* `RunsVerifiedImages == UploadSpec => []RunningIsVerified`. `ReceivedKept` says what
  each register is as a function of the bytes received since the magic word:
  checksum, address, bytes left, the part of the memory that is written, and the
  staged byte that is not. A reset keeps the registers, and they mean nothing then.
* `SuccessIsLoaded == UploadSpec => []OkMeansLoaded`. As long as `trusted` holds, host
  and board are in step (`InStep`): the window shows the last bytes the line brought
  (`WindowInStep`), so a magic word is found only where one was sent
  (`MatchIsStart`); in a frame the receiver has as many bytes as the host has sent,
  all of them right or one wrong after the header (`FrameInStep`), so an accepted
  checksum means they are the payload (`AcknowledgedIsSent`, `XorAllDiffers`); and an
  answer in the host's inbox is the one to this frame (`AnswerInStep`).

The inductive invariants are `BoardInv` (without assumptions on the faults) and
`UploadInv == BoardInv /\ (trusted => InStep)`. The checksum is a recursive
function; `XorsExist` and the lemmas after it prove by induction that it exists and
what it computes. The induction is on a set of numbers, from the well-foundedness
of `<` (`LeastElement`, `Induction`).

The proof corrected the property: it first trusted a fault that hits a magic word
the receiver is looking for, and the step for a broken stop bit failed. TLC then found
the false success once payloads of three bytes were allowed (Bounds, `OkMeansLoaded`).

### BenchProofs

What the tests compare the hardware with. The oracle and its clients, for every
program and symbol file, every allowance of frames, every trace of the device and
every radius of the window (`OracleAssumption`, `LockstepAssumption`):

* `InOrderTheorem == LockstepSpec => []CommitsInOrder`. The invariant `OracleInv` says of
  the oracle and of its snapshot that what was taken and what waits is together what the
  program has made, each commit with its number and the labels of its address. That
  the hooks of a frame are a sequence of hooked addresses is an induction
  (`FilterExists`, `FilterIsSeq`), and that a step stops at the first frame with a hook
  needs a least element (`Least`, `FramesRunNat`).
* `FirstDivergence == LockstepSpec => []VerdictIsFirstDivergence`. `ClientInv` adds what a
  call in progress has found: a comparison goes on only while all commits agree and
  there is one left to expect (`CompareOK`), and the steps of a lockstep run agree and
  are of the commits taken last, which is why their numbers follow each other
  (`LockstepOK`). `WindowShows` is about the window.
* `ReplayTheorem == LockstepSpec => []ReplayMatches`. The oracle is deterministic: what a
  step hands out and leaves behind is a function of emulator, queue and number
  (`Gives`, `Successor`, `Deterministic`). `ReplayInv` says where the client stands:
  an oracle that is still at a set-up is in the state that set-up leads to
  (`AtOrigin`); a recording is a run from there (`CollectRuns`, `RecordRuns`); and a
  comparison that began there goes through the states of that run (`CompareRuns`), so
  the next commit is the one expected and does not time out. A snapshot whose
  emulator had no hooks, or one that replaces the recording's, is no such set-up.

`SmokeTheorem == SmokeSpec => []SmokeFollowsReference`, for every size of the screen,
length of the script and set of presses (`SmokeAssumption`). `SmokeInv` adds that the
cells the ROM will repair are those of the cursor it drew (`prevX`, `prevY`), without
which an old cursor could stay. `InputsAsModel` follows the four comparisons of the
ROM, which test for equality with the border where the model tests for less, and
`DrawnOK` the repair and the redraw.

The arithmetic unit, for every set of operand bytes (`OperandsAssumption`); the invariant needed is
only that accumulator and flags keep their types, `AccTypeOK`, because both
properties speak of every operand at whatever state is reached:

* `AgreementTheorem == AccSpec => []FlagsAgree`. Value and flags of the hardware's
  operations, which are written on bits and nibbles with carries in and out, are
  those of the reference's, which compares integers. The lemmas split a byte into
  its nibbles and follow the carries.
* `DecimalTheorem == AccSpec => []DecimalArithmetic`. With a decimal accumulator and a
  decimal operand, ADC or SBC and then DAA leave the decimal sum or difference and
  its carry. The proof names the digits of both bytes and treats the four
  combinations of half carry and carry apart.

### PpuProofs

For every line geometry and every set of register values (`LineAssumption`,
`RegisterAssumption`, `WarmupAssumption`):

* `BeamTheorem == RefSpec => []PhaseMatchesBeam`. The inductive invariant `BeamInv`
  adds to `PhaseMatchesBeam` the types and that the reference's power state is what
  the bridge last told it: with another one a write of LCDC could start a frame from
  the middle of a line.
* `InStepTheorem == PpuModelsSpec => []BeamsKeepStep`. In `StepInv`, `HardwarePhase`
  says which phase the hardware is in by line and dot: the shortened line after
  power-up with its own borders, and otherwise a transfer that ends at one of
  `TransferEnds`. `BeamsApart` says where the two beams are: together until the panel
  is first switched off; then the reference is one dot ahead in the warm-up line and
  the hardware `Lead` dots ahead afterwards, for a moment across the end of a frame.
  Before the first power cycle the VBlank requests agree too, and so does the STAT
  line if mode 0 is not selected.

For every content of tile memory, height of the screen and set of scenes, a scene being
any object table, any registers for each line, any palettes written while a line is
drawn, either profile, any width of the screen and any length of the table
(`SpatialAssumption`, `ScenesAssumption`):
`LineTheorem == PixelSpec => []LineAsReference`. In an ordinary scene every pixel that
scan, fetchers, queues, window and mixer put out is the one the reference looks up.
Nothing of that is visible in `diffs` until it is too late, so the inductive invariant
`PixelInv` says of the drawing itself what each part of it stands for, against the
line as the reference sees it (`Scanline`):

* `QueueOK`: the queue of colours holds those of its layer from the column on that is
  drawn next, fine scroll included; its end is the border of a tile; the fetcher, or
  the one put aside for an object, is at the tile that begins there and has read of
  it what its step says (`Fetching`, `Answering`).
* `WindowOK`: the window is armed, and its column not yet reached, or active and past it;
  with it the scroll is used up. `WindowLineInv`: pipeline and reference count the same
  lines of the window, although one counts when the window begins and the other when the
  line is over.
* `ScannedOK`: after any entry of the table the objects found are the first ones that meet
  the line, in their order; `RankOf` counts them. `FetchedOK`: an object is fetched in the
  column where it begins and none is passed by. `ObjFetching`: what the fetch in progress
  has read is what this object holds.
* `SlotsOK`: each slot of the object queue holds the topmost pixel among the objects
  fetched that show at its column (`OnTop`). The overlay decides between two objects at a
  time; that this gives the topmost of all is where the order of the fetches enters.
* `Resting`: a line that waits for an object or the window waits for no answer.

There is one lemma for each kind of step (`ScanStep`, `StartTransferDotKept`,
`TransferDotKept`, `BackgroundKept`, `ObjectDot`, `LateWriteKept`,
`LineStartsKept`), and below them the
arithmetic of scroll and tiles, the ranks as cardinalities, and the formulas of the
reference (`BackgroundColour`, `WindowColour`, `EffectiveColour`). TLC checked the invariant
on the scenes of `bench` before it was proved. The proof corrected the property: for a
scene that moves WY between lines it failed, and TLC then found the difference (see
Observations). It also made the order of some CASEs of the model explicit, which TLA+
leaves open where guards overlap.

### BoardProofs

For every limit of the dwell, every setting and every width of the bank's counter
(`ButtonAssumption`): `DebounceTheorem == ButtonSpec => SwitchesWhenSteady`. The action
property says of a step that it switches exactly if the pin has been steady long
enough; the inductive invariant `BridgeCounts /\ BankCounts`
(`CountsFollowPins`) says what each counter has to do with the past of its pin.

For every size of a frame, all lengths of the panel's delays and commands, and a
picture unit that may do anything in any clock (`TotalPixelsAssumption`,
`LcdAssumption`, and `DisplayAssumption`: both sides count the same frame):
`FrameInOrder == DisplaySpec => [](DisplayTypeOK /\ PixelsInOrder)`. The reader holds at
most one pixel, the one before its next address (`ReaderHolds`). While the controller
has pixels left to send the reader is active and as far as the controller's
`pixel_count`; between two frames the reader may already hold pixel 0 of a frame the
controller never sees, which is why a new start must begin again.

For every set of addresses a program uses, every page size and every page a DMA starts
from (`PageBytesAssumption`, `AddressAssumption`): `AtomicMemory == BusSpec =>
MemoryIsAtomic`. The action property speaks of the commit alone, so the inductive
invariant `BusInv` says how far a request is in each of the four clocks: `Changed` that
memory differs from what it was at the last commit only in the cell the core writes and
the one the DMA writes; `Written` that the write is done exactly if one clock that
writes the memory found the region free (WRAM is written in one clock only, and only a
DMA takes it, which lasts all four); `OnItsWay` in which register the byte of a read is, and
that for VRAM it is sure to be the core's only if no clock so far was refused; `Copying`
the same for the byte of the DMA; and `Copied` that the OAM below its index holds the page. The last is
inductive because a core that writes while a DMA runs can reach HRAM only
(`OnlyHram`), and because a write to HRAM is done in its first clock (`HramDone`),
so that a DMA from page FF reads what the commit shows.

Only model-checked: the end of HALT (`HaltEnds`), that a begun frame of the display
ends, that a retry succeeds (`RetrySucceeds`), and everything else under fairness (liveness
and ENABLED are outside the prover's reach); the programs on `RomMachine` (`JumpsLand`,
`RomOutcomes`, `CheckpointsAsExpected`), which are about 23 given programs, assembled byte by
byte by recursive definitions, and not about every program; `BenchTypeOK`, the types of
parts side by side, of which the proofs use their own; and in it the longest time a line
takes (`LongestLine`). Induction over data is done on sets of numbers, where it is needed
(the checksum of the upload, the hooks of a frame). No module of the proofs uses a RECURSIVE operator.

## 5. Observations

What the models made visible and no statement of the repository contradicts, or
what the properties except for it. Numbers of lines are those of the source.

Memories:

* VRAM has one read port, and in the clock in which the mode becomes HBlank it
  still serves the fetch of the picture unit. A read of the core in that M-cycle
  can return the picture unit's byte, although the region is no longer blocked
  (`docs/ppu/readback_matrix.md:13` allows it). `MemoryIsAtomic` excepts the case.
* A write to VRAM or OAM lands if the region is unblocked in any of the four
  clocks. A write of FF46 is not gated, so that a DMA can be restarted by one. The
  DMA writes its OAM byte in each clock of its M-cycle, the first three times with
  the byte of the cycle before; from VRAM it copies FF.
* A fetch that an interrupt turns into an idle cycle wastes its read and no more.
* DMA_OAM_COPY and PPU_SPRITES (`build_micro_rom.py:302-349`) run from ROM while the
  DMA copies. The harness allows that by default (`rom_runner.py:453`); on the
  board the DMA blocks every region but HRAM.

Picture unit:

* The reference has no STAT pulse for mode 2 when line 144 begins, the hardware
  has. The reference never sets `first_frame_blank`. Its `ForceLcdPower(True)`
  would restart the phase of a running beam at the dot it is at; no event of the
  bridge does so.
* `lcd_enable_mode0_hold` with `Running` and `LcdOff`, and
  `warmup_visible_oam_complete`, in `timing.spade` are never needed.
* Exceptions of `LineAsReference`, besides the two findings: with WX of at most 7
  and an SCX that is no multiple of 8 the window loses pixels; WX below 7 skips
  nothing; objects with x from 1 to 7 put their clipped row into the wrong slots;
  the profile with objects hands out one more pixel at 160 in the dot in which it
  enters HBlank; objects switched off in the middle of a fetch restart the
  background's fetcher with the queue as it is, so a tile shows twice.
* The pipeline keeps the match of LY with WY for the rest of the frame
  (`sample.spade:29`), the tests' snapshots compare LY with the WY of each line anew
  (`test_ppu_spatial_oracle_wave_c.py:76`). They differ if WY moves between lines: moved
  beyond LY after its match, the window still shows; moved to a line already
  past, it does not. The test scenes set WY once; `LineAsReference` excepts it.
* `sample.spade:27` says the control of the window may settle throughout
  mode 2; it is armed with the registers of the line's start. WX 167 counts a line
  of the window in the dot that leaves the transfer, a greater one never does; the
  reference of the tests counts every line.

Host side:

* MEM_RWB is described as a loop over C000 to C0FF, but it counts with INC HL and
  runs on through the memory.
* `run_lockstep` gives the oracle a button event at its next frame; commits that
  are queued already do not feel it. A reset with a CGB or without the boot ROM
  leaves an emulator without hooks. A raw input event bypasses the remembered
  buttons, so a later one can release what it pressed. Memory and raw events act
  on the oracle before the stimulus for the device is built and may be refused.
* `capture_checkpoint_line_mode_timing` (`oracle.py:463`) returns constants.
* `atomic_write` (`build_micro_rom.py:1774-1790`) ignores how much `os.write` has
  written and closes its file twice if the rename fails.
* A button of the bank that bounces while its counter crosses the middle toggles
  the debounced output, so that its edge outputs give several pulses for one
  press. The tops use the level only.

## 6. Not modelled

* Event sequence numbers and coordinates of the bridge: counters of 32 and 64 bits,
  which wrap after years and are read by traces only.
* Read data of the registers; the response channel and the frame sink; the write
  slot of the upload in `MemoryBus` (the core is in reset while it is used).
* Of the pixel pipeline: epochs and tags of requests, which matter only if an
  answer takes more than a dot; the blank first frame; DMA during the object scan;
  failed answers; the penalty counters and the digest for observation; the warm-up
  line, which draws nothing. No optional `BehaviorFeature` is on by default and
  none is modelled.
* Of the upload: configuration of the serial port, detection of the port and
  argument checks of the host script; the answer's way through the board's
  transmitter to the host's receiver is a delay (`TxTime`).
* The decode text generated from the reference; simulation and test tops; the
  remaining Python tools (`activity_capture`, `export_pokered_restore`,
  `validate_rom_manifests` and others), which are sequential scripts over files;
  build files.
* Two divergences from the original console are taken over from the code
  without a finding, since no document of the repository contradicts them: a
  second EI directly after the first delays the enable once more, and under the
  HALT bug JP HL and STOP do not write PC.

## 7. Plan

Done: core, interrupts, peripherals, display, upload; reset bridge and buttons;
memory fabric with its abstract memory; picture unit, timing and pixels, against
both references; ALU, decoder and the programs; oracle and clients. Proved: every
safety property of the core, the arithmetic unit, the interrupts, the timer and the
ports, the display, the buttons, the UART, the upload, the oracle with its clients and
the demonstration, the two refinements of the sequencer, that the memories are atomic
at every commit, that the picture unit keeps step with its reference, and that it draws
every line as its reference does.

Left, in this order:

1. Answers of the memory that take longer than a dot in `PixelPipeline`, with
   epochs and tags, and DMA during the object scan.

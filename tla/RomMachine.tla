----------------------------- MODULE RomMachine -----------------------------
(* The core running one of the micro-ROMs on the bus of the test harness:    *)
(* whole instructions, interrupts at their boundaries, the OAM DMA copying   *)
(* on the side, and a timer, a display and a player that act at any moment.  *)
EXTENDS Instructions, MicroRoms

CONSTANTS
    Roms,           \* the programs to run
    Nibbles,        \* what the player's buttons may read as
    ClockBytes,     \* what DIV and TIMA may read as
    MaxIrqs,        \* how many interrupts are raised and served
    LastAddress     \* where MEM_RWB, which never ends, is stopped

-----------------------------------------------------------------------------
(* The bank controller of a cartridge, an MBC1 or an MBC3, between the bus  *)
(* and the ROM and RAM of an image (ExternalMemoryBus of rom_runner.py).     *)
MBC1_CART_TYPES == {1, 2, 3}
MBC3_CART_TYPES == {15, 16, 17, 18, 19}
MBC3_RTC_SELECTS == 8 .. 12
BankSize == \h4000
RamBankSize == \h2000

IsMbc1(image) == image.cart_type \in MBC1_CART_TYPES
IsMbc3(image) == image.cart_type \in MBC3_CART_TYPES

(* low is the ROM bank register, high the second one: the upper bank bits of *)
(* an MBC1, the RAM bank or clock register selected in an MBC3.              *)
NoBanking ==
    [enabled |-> FALSE, low |-> 1, high |-> 0, mode |-> 0, ram |-> << >>, latch |-> 0,
     rtc |-> [s \in MBC3_RTC_SELECTS |-> 0], latched |-> [s \in MBC3_RTC_SELECTS |-> 0]]

ImageByte(image, offset) ==
    CASE offset \in DOMAIN image.text -> image.text[offset]
      [] offset \in DOMAIN image.extra -> image.extra[offset]
      [] OTHER -> 0

mbc1_lower_rom_bank(image, banks) ==
    IF banks.mode = 0 THEN 0 ELSE (32 * banks.high) % image.rom_banks
mbc1_upper_rom_bank(image, banks) ==
    (32 * banks.high + (IF banks.low = 0 THEN 1 ELSE banks.low)) % image.rom_banks
cart_rom_read(image, banks, addr) ==
    LET upper == CASE IsMbc1(image) -> mbc1_upper_rom_bank(image, banks)
                   [] IsMbc3(image) -> banks.low % image.rom_banks
                   [] OTHER -> 1
        lower == IF IsMbc1(image) THEN mbc1_lower_rom_bank(image, banks) ELSE 0
    IN ImageByte(image, IF addr < BankSize THEN lower * BankSize + addr
                        ELSE upper * BankSize + (addr - BankSize))

(* The bus knows no RAM smaller than a bank. *)
RamBytes(image) == IF image.ram_bytes < RamBankSize THEN 0 ELSE image.ram_bytes
RamBanks(image) == IF RamBytes(image) = 0 THEN 1 ELSE RamBytes(image) \div RamBankSize
(* Plausible defect: the bank of an MBC1 is selected in either mode, and     *)
(* mode 1 is taken for mode 0.                                               *)
RamBankInMode0(image, banks) ==
    IF IsMbc3(image) THEN (banks.high % 4) % RamBanks(image)
    ELSE IF banks.mode = 0 THEN banks.high % RamBanks(image) ELSE 0
RamBank(image, banks) ==
    IF IsMbc3(image) THEN (banks.high % 4) % RamBanks(image)
    ELSE IF banks.mode = 1 THEN banks.high % RamBanks(image) ELSE 0
RamAddress(image, banks, addr) == RamBank(image, banks) * RamBankSize + (addr - \hA000)
SelectsClock(image, banks) == IsMbc3(image) /\ banks.high \in MBC3_RTC_SELECTS

cart_ram_read(image, banks, addr) ==
    LET at == RamAddress(image, banks, addr)
    IN CASE ~ banks.enabled -> 255
         [] banks.enabled /\ SelectsClock(image, banks) -> banks.latched[banks.high]
         [] OTHER -> IF at >= RamBytes(image) THEN 255
                     ELSE IF at \in DOMAIN banks.ram THEN banks.ram[at] ELSE 0

(* The registers of the two controllers sit at the same addresses.           *)
WriteRegister(image, banks, addr, v) ==
    CASE addr < \h2000 -> [banks EXCEPT !.enabled = LowNibble(v) = 10]
      [] addr \in \h2000 .. \h3FFF ->
           [banks EXCEPT !.low = IF IsMbc1(image) THEN v % 32
                                 ELSE IF v % 128 = 0 THEN 1 ELSE v % 128]
      [] addr \in \h4000 .. \h5FFF ->
           [banks EXCEPT !.high = IF IsMbc1(image) THEN v % 4 ELSE LowNibble(v)]
      [] addr \in \h6000 .. \h7FFF ->
           IF IsMbc1(image) THEN [banks EXCEPT !.mode = v % 2]
           ELSE [banks EXCEPT !.latch = v % 2,
                              !.latched = IF banks.latch = 0 /\ v % 2 = 1 THEN banks.rtc
                                          ELSE banks.latched]
WriteRam(image, banks, addr, v) ==
    LET at == RamAddress(image, banks, addr)
    IN CASE ~ banks.enabled -> banks
         [] banks.enabled /\ SelectsClock(image, banks) -> [banks EXCEPT !.rtc[banks.high] = v]
         [] OTHER -> IF at >= RamBytes(image) THEN banks
                     ELSE [banks EXCEPT !.ram = (at :> v) @@ banks.ram]
cart_write(image, banks, addr, v) ==
    IF ~ (IsMbc1(image) \/ IsMbc3(image)) THEN banks
    ELSE IF addr < \h8000 THEN WriteRegister(image, banks, addr, v)
    ELSE WriteRam(image, banks, addr, v)
-----------------------------------------------------------------------------
VARIABLES
    rom,            \* the program
    cpu,            \* the registers
    mem,            \* the bytes written so far: RAM, video RAM, OAM, registers
    banks,          \* the bank controller
    captured,       \* the characters sent on the serial port
    dma,            \* the copy to OAM
    served          \* interrupts served so far

romVars == <<rom, cpu, mem, banks, captured, dma, served>>

Image == Images[rom]
IF_ADDR == \hFF0F
IE_ADDR == \hFFFF
LCDC_ADDR == \hFF40
JOYP_ADDR == \hFF00
OAM_BASE == \hFE00
OAM_SIZE == 160
VideoRam == \h8000 .. \h9FFF
CartRam == \hA000 .. \hBFFF
WorkRam == \hC000 .. \hDFFF
Oam == OAM_BASE .. OAM_BASE + OAM_SIZE - 1
HighRam == \hFF80 .. \hFFFE
Registers == {\hFF01, \hFF02, \hFF06, \hFF07, IF_ADDR, IE_ADDR} \cup \hFF40 .. \hFF4B

IsVideo(addr) == addr \in VideoRam \/ addr \in Oam
IsPlain(addr) == addr \in WorkRam \/ addr \in HighRam \/ addr \in Registers

(* Memory starts as zeros; the display is on and no buttons are selected.    *)
Stored(addr) ==
    CASE addr \in DOMAIN mem -> mem[addr]
      [] addr = LCDC_ADDR /\ addr \notin DOMAIN mem -> \h91
      [] addr = JOYP_ADDR /\ addr \notin DOMAIN mem -> \h30
      [] OTHER -> 0
LcdOn == Stored(LCDC_ADDR) >= 128
TimerOn == BitOf(Stored(\hFF07), 2)
Pending == AndBytes(Stored(IE_ADDR), AndBytes(Stored(IF_ADDR), 31))

(* Only two programs look at the buttons or the clock. *)
Inputs == [nibble : IF rom = "JOY_DIVERGE_PERSIST" THEN Nibbles ELSE {15},
           clock : IF rom = "TIMER_DIV_BASIC" THEN ClockBytes ELSE {0}]
(* input holds what the player and the clock show at this moment. *)
raw_read(addr, input) ==
    CASE addr < \h8000 -> cart_rom_read(Image, banks, addr)
      [] addr \in CartRam -> cart_ram_read(Image, banks, addr)
      [] addr = JOYP_ADDR -> 192 + 16 * (HighNibble(Stored(addr)) % 4) + input.nibble
      [] addr \in {\hFF04, \hFF05} -> input.clock
      [] IsVideo(addr) \/ IsPlain(addr) -> Stored(addr)
      [] OTHER -> 255

NoDma == [active |-> FALSE, source |-> 0, next |-> 0]
start_dma(source) == [active |-> TRUE, source |-> source, next |-> 0]

(* What a write does; lands says whether the display lets it into its RAM.   *)
Machine == [mem |-> mem, banks |-> banks, captured |-> captured, dma |-> dma]
WriteByte(m, addr, v, lands) ==
    LET store == [m EXCEPT !.mem = (addr :> v) @@ m.mem]
    IN CASE addr < \h8000 \/ addr \in CartRam ->
              [m EXCEPT !.banks = cart_write(Image, m.banks, addr, v)]
         [] IsVideo(addr) -> IF lands THEN store ELSE m
         [] addr = \hFF02 ->
              [m EXCEPT !.mem = (addr :> AndBytes(v, \h83)) @@ m.mem,
                        !.captured = IF AndBytes(v, \h81) = \h81
                                     THEN Append(m.captured, Stored(\hFF01)) ELSE @]
         [] addr = \hFF46 -> [store EXCEPT !.dma = start_dma(v)]
         [] addr = JOYP_ADDR \/ IsPlain(addr) -> store
         [] OTHER -> m
Written(writes, lands) ==
    LET once == WriteByte(Machine, writes[1][1], writes[1][2], lands)
    IN CASE writes = << >> -> Machine
         [] Len(writes) = 1 -> once
         [] Len(writes) = 2 -> WriteByte(once, writes[2][1], writes[2][2], lands)
(* A copy that has just been started moves its first byte at once. *)
FirstByteCopied(m, input) ==
    IF m.dma.active /\ m.dma.next = 0
    THEN [m EXCEPT !.mem = (OAM_BASE :> raw_read(256 * m.dma.source, input)) @@ @,
                   !.dma.next = 1]
    ELSE m
Commit(effect, input, lands) ==
    LET m == FirstByteCopied(Written(effect.writes, lands), input)
    IN /\ cpu' = effect.cpu
       /\ mem' = m.mem /\ banks' = m.banks /\ captured' = m.captured /\ dma' = m.dma

(* Where a program ends up: the loop it stays in, or the head of its main    *)
(* loop, or the bound on MEM_RWB.                                            *)
HomeOf ==
    [ALU_LOOP |-> \h154, MEM_RWB |-> \h155, TIMER_DIV_BASIC |-> \h160,
     JOY_DIVERGE_PERSIST |-> \h150, LOADS_BASIC |-> \h150, ALU_FLAGS |-> \h150,
     ALU16_SP |-> \h150, FLOW_STACK |-> \h150, MBC1_SWITCH |-> \h172, MBC1_RAM |-> \h18B,
     MBC3_SWITCH |-> \h172, MBC3_RAM |-> \h186, BG_SCROLL_ANIM |-> \h183,
     ALU_LOOP_DEMO |-> \h1B1]
AtHome ==
    /\ cpu.PC = IF rom \in DOMAIN HomeOf THEN HomeOf[rom] ELSE Image.last
    /\ cpu.halt = "Running"
AtBound == rom = "MEM_RWB" /\ AtHome /\ get_r16(cpu, "HL") > LastAddress

InterruptDue == cpu.ime = "Enabled" /\ Pending # 0

RomInit ==
    /\ rom \in Roms
    /\ cpu = skipboot_arch_state
    /\ mem = << >> /\ banks = NoBanking /\ captured = << >> /\ dma = NoDma /\ served = 0

Step ==
    /\ cpu.halt # "Halted" /\ ~ InterruptDue /\ ~ AtBound
    /\ \E input \in Inputs, lands \in {TRUE, ~ LcdOn} :
          LET byteAt == [addr \in Words |-> raw_read(addr, input)]
          IN Commit(RunInstruction(cpu, Pending # 0, byteAt), input, lands)
    /\ UNCHANGED <<rom, served>>

ServiceInterrupt ==
    /\ InterruptDue
    /\ LET irq == irq_sel_from_pending(Pending)
           entered == service_entry(cpu, irq)
       IN \E input \in Inputs :
             LET m == FirstByteCopied(Written(entered.writes, TRUE), input)
             IN /\ cpu' = entered.cpu
                /\ mem' = (IF_ADDR :> WithBit(Stored(IF_ADDR), irq, FALSE)) @@ m.mem
                /\ banks' = m.banks /\ captured' = m.captured /\ dma' = m.dma
    /\ served' = served + 1
    /\ UNCHANGED rom

(* Timer overflow and STAT interrupt, while the program has them switched on. *)
RaiseIrq ==
    /\ served < MaxIrqs
    /\ \E bit \in (IF TimerOn THEN {2} ELSE {}) \cup (IF LcdOn THEN {1} ELSE {}) :
          /\ BitOf(Stored(IE_ADDR), bit) /\ ~ BitOf(Stored(IF_ADDR), bit)
          /\ mem' = (IF_ADDR :> WithBit(Stored(IF_ADDR), bit, TRUE)) @@ mem
    /\ UNCHANGED <<rom, cpu, banks, captured, dma, served>>

AdvanceDma ==
    /\ dma.active
    /\ \E input \in Inputs :
          mem' = (OAM_BASE + dma.next :> raw_read(256 * dma.source + dma.next, input)) @@ mem
    /\ dma' = IF dma.next = OAM_SIZE - 1 THEN [dma EXCEPT !.active = FALSE, !.next = 0]
              ELSE [dma EXCEPT !.next = @ + 1]
    /\ UNCHANGED <<rom, cpu, banks, captured, served>>

RomNext == Step \/ ServiceInterrupt \/ RaiseIrq \/ AdvanceDma
(* The core runs on: WF_romVars(Step), with the condition under which a step *)
(* changes anything spelled out and the steps from home, which no property   *)
(* needs, left out.  Of the actions that change the registers Step is the    *)
(* one that serves no interrupt.                                             *)
CoreRuns ==
    \/ []<>(cpu.halt = "Halted" \/ InterruptDue \/ AtHome)
    \/ []<><<served' = served>>_cpu
RomFairness ==
    /\ CoreRuns
    /\ WF_romVars(ServiceInterrupt) /\ WF_romVars(RaiseIrq) /\ WF_romVars(AdvanceDma)
RomSpec == RomInit /\ [][RomNext]_romVars /\ RomFairness
-----------------------------------------------------------------------------
RomTypeOK ==
    /\ rom \in RomNames
    /\ \A r \in Registers8 : cpu[r] \in Bytes
    /\ cpu.F \in FlagSet /\ cpu.PC \in Words /\ cpu.SP \in Words
    /\ cpu.ime \in {"Disabled", "PendingEnable", "Enabled"}
    /\ cpu.halt \in {"Running", "Halted", "HaltBugPending"}
    /\ DOMAIN mem \subseteq \h8000 .. \hFFFF /\ mem \in [DOMAIN mem -> Bytes]
    /\ dma.next \in 0 .. OAM_SIZE - 1 /\ served \in 0 .. MaxIrqs

(* Every instruction starts where the source wrote one: no jump, call,       *)
(* return or interrupt lands inside an instruction, in data or outside the   *)
(* program (the displacements build_micro_rom.py counts by hand, and its     *)
(* fixups).                                                                  *)
JumpsLand == cpu.PC \in Image.heads

(* What a program leaves behind, by the comments of its builder.             *)
Filled(from, n, Value(_)) == \A i \in 0 .. n - 1 : Stored(from + i) = Value(i)
Chequered == LET parity(i) == i % 2 IN Filled(\h9800, 1024, parity)
BankedRoms == {"MBC1_SWITCH", "MBC1_RAM", "MBC3_SWITCH", "MBC3_RAM"}
Leaves(name) ==
    LET index(i) == i
        zero(i) == 0
        one(i) == 1
        full(i) == 255
        solid(i) == IF i % 2 = 0 THEN 255 ELSE 0
        hollow(i) == IF i % 2 = 0 THEN 0 ELSE 255
        pattern(i) == IF i % 2 = 0 THEN \hAA ELSE \hCC
        number(i) == \h80
        page(i) == Stored(\hC000 + i)
    IN CASE name = "SERIAL_HELLO" -> captured = <<\h4F, \h4B>>
         [] name = "DMA_OAM_COPY" -> ~ dma.active => Filled(OAM_BASE, OAM_SIZE, index)
         [] name = "TIMER_IRQ_HALT" ->
              cpu.SP = \hC100 /\ Stored(\hC010) = \h42 /\ Stored(\hC011) = served % 256
         [] name = "EI_DELAY" ->
              /\ WordOf(Stored(\hC011), Stored(\hC010)) = \h15D /\ cpu.SP = \hC100
              /\ Stored(\hC000) = \h42
         [] name = "PPU_STAT_IRQ" ->
              cpu.SP = \hC100 /\ WordOf(Stored(\hC001), Stored(\hC000)) = served
         [] name \in BankedRoms ->
              Stored(\hC000) = [MBC1_SWITCH |-> \hA1, MBC1_RAM |-> \hB1,
                                MBC3_SWITCH |-> \hA3, MBC3_RAM |-> \hB3][name]
         [] name = "FLOW_STACK" -> cpu.SP \in {\hFFFE, \hFFF0}
         [] name = "BG_STATIC" ->
              Filled(\h8000, 16, zero) /\ Filled(\h8010, 16, solid) /\ Chequered
         [] name = "BG_SCROLL_ANIM" ->
              Filled(\h8000, 16, zero) /\ Filled(\h8010, 16, full) /\ Chequered
         [] name = "PPU_WINDOW" ->
              Filled(\h8000, 16, zero) /\ Filled(\h9800, 1024, zero) /\ Filled(\h9C00, 1024, one)
         [] name = "PPU_SPRITES" ->
              /\ Filled(\h8000, 16, zero) /\ Filled(\h8010, 16, solid)
              /\ Filled(\h8020, 16, hollow) /\ Filled(\h8030, 16, full) /\ Chequered
              /\ ~ dma.active => Filled(OAM_BASE, OAM_SIZE, page)
         [] name = "BG_SCROLL_SIGNED" -> Filled(\h8800, 16, pattern) /\ Filled(\h9800, 1024, number)
         [] name = "ALU_LOOP_DEMO" -> Stored(\hC001) = 1 /\ Stored(\hC022) = 1
         [] OTHER -> TRUE

(* A program that has reached its final loop has done its work: the words    *)
(* sent, the marks of success, the tiles and maps, every interrupt counted,  *)
(* and never the failure mark EE (the builders of build_micro_rom.py and the *)
(* bank controllers of rom_runner.py).                                       *)
RomOutcomes ==
    /\ AtHome /\ ~ InterruptDue => Leaves(rom)
    /\ rom \in BankedRoms => Stored(\hC000) # \hEE

(* Every program reaches its final loop, or the head of its main loop again  *)
(* and again, whatever is read and however interrupts and the DMA fall.      *)
RomsFinish == []<>AtHome
-----------------------------------------------------------------------------
(* The trace the demonstration is held to (bench/ref/alu_loop.py): what the  *)
(* registers are at each of its checkpoints, computed apart from the core.   *)
ExpectedCheckpoint(pc, a, f, b, hl) ==
    [A |-> a, F |-> f, B |-> b, C |-> 19, D |-> 0, E |-> 216, H |-> HighByte(hl), L |-> Low8(hl),
     SP |-> 65534, PC |-> pc, ime |-> "Disabled", halt |-> "Running"]

_add_u8(left, right) ==
    Result(Low8(left + right),
           Flags(Low8(left + right) = 0, FALSE, LowNibble(left) + LowNibble(right) > 15,
                 left + right > 255))
_dec_u8(value, flags_before) ==
    Result(Low8(value - 1), Flags(value = 1, TRUE, LowNibble(value) = 0, flags_before.c))

(* Plausible defect: the counter goes down before it is added.               *)
CountedDownFirst(s) ==
    LET left == _dec_u8(s.b, s.f)
        sum == _add_u8(s.a, left.value)
    IN [a |-> sum.value, f |-> sum.flags, b |-> left.value]
LoopPass(s) ==
    LET sum == _add_u8(s.a, s.b)
        left == _dec_u8(s.b, sum.flags)
    IN [a |-> sum.value, f |-> left.flags, b |-> left.value]
AfterPasses[n \in 0 .. 8] ==
    IF n = 0 THEN [a |-> 0, f |-> FlagsOf(128), b |-> 8]
    ELSE LET before == AfterPasses[n - 1] IN LoopPass(before)

expected_checkpoints ==
    LET at(pc, s) == ExpectedCheckpoint(pc, s.a, s.f, s.b, \hC008)
    IN {ExpectedCheckpoint(\h157, \h50, FlagsOf(128), 0, \h14D)}
       \cup {at(\h15D, AfterPasses[n]) : n \in 0 .. 7}
       \cup {at(\h162, AfterPasses[8]), ExpectedCheckpoint(\h1B1, 1, FlagsOf(192), 0, \hC008)}

(* Whenever the core is at a checkpoint of the demonstration, all its        *)
(* registers are those of one of the expected lines: they tell the passes of *)
(* the loop apart, so none is missed or repeated (the addresses and values   *)
(* the reference has counted by hand, against the assembled program and the  *)
(* core).                                                                    *)
CheckpointsAsExpected ==
    rom = "ALU_LOOP_DEMO" /\ cpu.PC \in {c.PC : c \in expected_checkpoints}
        => cpu \in expected_checkpoints
=============================================================================

----------------------------- MODULE MemoryBus -----------------------------
(* The core's way to the memories (board/hardware_soc_core): the register it *)
(* reads through, the single-port memories with their four slots in an       *)
(* M-cycle, OAM DMA and the ownership of the regions.  A step is one clock.  *)
(* An address is its region and an offset; the program asks for one thing in *)
(* an M-cycle, the picture unit changes its mode at any clock.               *)
EXTENDS Integers, FiniteSets

CONSTANTS
    PageBytes,   \* bytes one DMA copies (160), and cells of a region
    Touched,     \* the sets of addresses a program may use
    WrittenBytes,     \* the bytes it writes
    DmaPages        \* the regions it starts a DMA from; "High" is page 0xff

VARIABLES
    touched,             \* the addresses this program uses
    t_index,             \* clock within the M-cycle; m_ce in clock 3
    req,                 \* what the core asks for in this M-cycle
    bus_read_data_reg,
    memory,              \* what each cell holds
    port,                \* registers between the memories and the bus
    oam_dma,                 \* active_reg, source_high_reg, index_reg
    ppu_mode,                \* of the picture unit, in the clock before
    before,              \* history: memory when the M-cycle began
    modes                \* history: the modes of the clocks of this M-cycle

busVars == <<touched, t_index, req, bus_read_data_reg, memory, port, oam_dma, ppu_mode, before, modes>>

PageOffsets == 0 .. PageBytes - 1
MemoryCells == {"Rom", "Wram", "Vram", "Oam"} \X PageOffsets \cup {<<"Hram", 0>>}
Addresses == MemoryCells \cup {"Echo"} \X PageOffsets
SourcePages == {"Rom", "Wram", "Echo", "Vram", "Oam", "High"}

ASSUME PageBytesAssumption == PageBytes \in Nat \ {0}
ASSUME AddressAssumption == Touched \subseteq SUBSET Addresses /\ DmaPages \subseteq SourcePages

Spram == {"Rom", "Wram"}
CellOf(addr) == IF addr[1] = "Echo" THEN <<"Wram", addr[2]>> ELSE addr
OffsetIn(region, addr) == IF CellOf(addr)[1] = region THEN addr[2] ELSE 0

IdleRequest == [kind |-> "Idle", addr |-> <<"Rom", 0>>, data |-> 0]
ReadOf(addr) == [kind |-> "Read", addr |-> addr, data |-> 0]
WriteOf(addr, v) == [kind |-> "Write", addr |-> addr, data |-> v]
(* A write of a page number to 0xff46.                                       *)
StartDma(page) == [kind |-> "Start", addr |-> <<page, 0>>, data |-> 0]
Requests ==
    {IdleRequest} \cup {ReadOf(a) : a \in touched} \cup {WriteOf(a, v) : a \in touched, v \in WrittenBytes}
      \cup {StartDma(page) : page \in DmaPages}

(* Between two commits an idle core is taken to fetch (Rom, 0 stands for its *)
(* PC); every other request is known from its phase alone.                   *)
preview_cpu_bus_req == IF req.kind = "Idle" /\ t_index # 3 THEN ReadOf(req.addr) ELSE req

Starting == req.kind = "Start" /\ t_index = 3

(* Page 0xff holds registers first, and HRAM from its middle on.             *)
source_addr(d, i) ==
    IF d.source_high # "High" THEN <<d.source_high, i>>
    ELSE IF i = 0 THEN <<"Io", 0>> ELSE <<"Hram", 0>>
SourceRegion == source_addr(oam_dma, oam_dma.index)[1]
DmaReadsVram == (oam_dma.active \/ Starting) /\ SourceRegion = "Vram"

(* region_owner is not the core.                                             *)
blocked_req(region, m) ==
    \/ oam_dma.active /\ region # "Hram"
    \/ region = "Vram" /\ m = "transfer"
    \/ region = "Oam" /\ m \in {"scan", "transfer"}

next_dma ==
    IF Starting THEN [active |-> TRUE, source_high |-> req.addr[1], index |-> 0]
    ELSE IF ~ (oam_dma.active /\ t_index = 3) THEN oam_dma
    ELSE IF oam_dma.index = PageBytes - 1 THEN [oam_dma EXCEPT !.active = FALSE, !.index = 0]
    ELSE [oam_dma EXCEPT !.index = @ + 1]

(* What a single-port memory is asked in this clock: to read for the core    *)
(* (<<FALSE, byte>>) or for the DMA (<<TRUE, byte>>), or not to read.        *)
(* Plausible defect: the DMA reads in the slot after the write.              *)
ScheduleDmaLast(region) ==
    CASE t_index = 0 -> <<FALSE, memory[<<region, OffsetIn(region, preview_cpu_bus_req.addr)>>]>>
      [] t_index = 3 -> <<TRUE, memory[<<region, OffsetIn(region, source_addr(oam_dma, oam_dma.index))>>]>>
      [] OTHER -> << >>
rw8k_schedule(region) ==
    CASE t_index = 0 -> <<FALSE, memory[<<region, OffsetIn(region, preview_cpu_bus_req.addr)>>]>>
      [] t_index = 1 -> <<TRUE, memory[<<region, OffsetIn(region, source_addr(oam_dma, oam_dma.index))>>]>>
      [] OTHER -> << >>

update_read_capture(current, last, aux) ==
    IF last # << >> /\ last[1] = aux THEN last[2] ELSE current

spram_dual_read_port(region) ==
    LET p == port.spram[region]
    IN [last |-> rw8k_schedule(region),
        primary |-> update_read_capture(p.primary, p.last, FALSE),
        aux |-> update_read_capture(p.aux, p.last, TRUE)]

dma_source_data ==
    CASE SourceRegion \in {"Rom", "Wram"} -> port.spram[SourceRegion].aux
      [] SourceRegion = "Echo" -> port.spram["Wram"].aux
      [] SourceRegion = "Hram" -> port.hram
      [] OTHER -> 255

(* The one read port of VRAM: fetch is the cell the picture unit reads, if   *)
(* it reads.  The DMA has precedence and gets 0xff.                          *)
vram_ebr(fetch) ==
    IF DmaReadsVram THEN 255
    ELSE IF fetch # {} THEN memory[<<"Vram", CHOOSE i \in fetch : TRUE>>]
    ELSE memory[<<"Vram", OffsetIn("Vram", req.addr)>>]

bus_resp_next(m) ==
    LET region == preview_cpu_bus_req.addr[1]
    IN IF preview_cpu_bus_req.kind # "Read" \/ blocked_req(region, m) THEN 255
       ELSE CASE region \in Spram -> port.spram[region].primary
              [] region = "Echo" -> port.spram["Wram"].primary
              [] region = "Hram" -> port.hram
              [] region = "Vram" -> IF DmaReadsVram THEN 255 ELSE port.vram
              [] region = "Oam" -> port.oam

(* WRAM is written in its slot, the other memories in every clock in which   *)
(* nobody takes them; the DMA writes OAM in every clock.                     *)
NextByte(c, m) ==
    IF oam_dma.active /\ c = <<"Oam", oam_dma.index>> THEN dma_source_data
    ELSE IF /\ req.kind = "Write" /\ c = CellOf(req.addr) /\ c[1] # "Rom"
            /\ ~ blocked_req(req.addr[1], m)
            /\ c[1] = "Wram" => t_index = 2
    THEN req.data
    ELSE memory[c]
-----------------------------------------------------------------------------
BusInit(addresses) ==
    /\ touched = addresses /\ t_index = 0 /\ req = IdleRequest
    /\ bus_read_data_reg = 0
    /\ memory = [c \in MemoryCells |-> IF c[2] = 0 THEN 1 ELSE 2]
    /\ port = [spram |-> [region \in Spram |-> [last |-> << >>, primary |-> 0, aux |-> 0]],
               hram |-> 0, vram |-> 0, oam |-> 0]
    /\ oam_dma = [active |-> FALSE, source_high |-> "Rom", index |-> 0]
    /\ ppu_mode = "none"
    /\ before = memory /\ modes = {}

(* One change in an M-cycle: a mode lasts longer than that.  It matters to   *)
(* programs that use VRAM or OAM.                                            *)
NextModes ==
    IF modes \subseteq {ppu_mode} /\ \E a \in touched : a[1] \in {"Vram", "Oam"}
    THEN CASE ppu_mode = "none" -> {"none", "scan", "transfer"}
           [] ppu_mode = "scan" -> {"scan", "transfer", "none"}
           [] ppu_mode = "transfer" -> {"transfer", "none"}
    ELSE {ppu_mode}

(* The picture unit reads VRAM in a transfer, in its last clock and in the   *)
(* clock in which its mode already is another.                               *)
Fetches(m) == IF "transfer" \in {ppu_mode, m} THEN {{}, {PageBytes - 1}} ELSE {{}}

BusClock(m, fetch) ==
    /\ t_index' = (t_index + 1) % 4
    /\ bus_read_data_reg' = IF t_index = 3 THEN bus_read_data_reg ELSE bus_resp_next(m)
    /\ memory' = [c \in MemoryCells |-> NextByte(c, m)]
    /\ port' = [spram |-> [region \in Spram |-> spram_dual_read_port(region)],
                hram |-> memory[<<"Hram", 0>>],
                vram |-> vram_ebr(fetch),
                oam |-> memory[<<"Oam", OffsetIn("Oam", req.addr)>>]]
    /\ oam_dma' = next_dma
    /\ ppu_mode' = m
    /\ UNCHANGED touched

BusWait ==
    /\ t_index # 3
    /\ \E m \in NextModes : \E fetch \in Fetches(m) :
          BusClock(m, fetch) /\ modes' = modes \cup {m}
    /\ UNCHANGED <<req, before>>

(* The clock with m_ce: the core takes the byte and asks for the next.       *)
BusCommit ==
    /\ t_index = 3
    /\ \E m \in NextModes : \E fetch \in Fetches(m) : BusClock(m, fetch)
    /\ req' \in Requests
    /\ before' = memory' /\ modes' = {}

BusNext == BusWait \/ BusCommit
BusSpec == (\E addresses \in Touched : BusInit(addresses)) /\ [][BusNext]_busVars
-----------------------------------------------------------------------------
(* The registers of the bus and the memories keep to their ranges, and a DMA *)
(* that has ended rests at index 0 (oam_dma).                                *)
BusBytes == {0, 1, 2, 255} \cup WrittenBytes
BusTypeOK ==
    /\ t_index \in 0 .. 3 /\ bus_read_data_reg \in BusBytes
    /\ memory \in [MemoryCells -> BusBytes] /\ before \in [MemoryCells -> BusBytes]
    /\ oam_dma \in [active : BOOLEAN, source_high : DmaPages \cup {"Rom"}, index : PageOffsets]
    /\ oam_dma.active \/ oam_dma.index = 0
    /\ ppu_mode \in {"none", "scan", "transfer"}

(* The byte of the page of a DMA with index i, where the core cannot write.  *)
(* The memories of the picture unit have no port for it.                     *)
PageByte(i) ==
    LET a == source_addr(oam_dma, i)
    IN IF CellOf(a)[1] \in Spram \cup {"Hram"} THEN memory'[CellOf(a)] ELSE 255

(* One M-cycle of the core, seen from its commit: the region it asked for    *)
(* was taken in all of its clocks, in none, or in some.                      *)
CoreAccess ==
    LET region == req.addr[1]
        c == CellOf(req.addr)
        wasTaken == {blocked_req(region, m) : m \in modes \cup {ppu_mode'}}
    IN /\ req.kind = "Read" =>
            CASE wasTaken = {FALSE} -> bus_read_data_reg = before[c]
              [] wasTaken = {TRUE} -> bus_read_data_reg = 255
              [] OTHER -> region = "Vram" \/ bus_read_data_reg \in {before[c], 255}
       /\ req.kind = "Write" /\ c[1] # "Rom" /\ ~ (oam_dma.active /\ c = <<"Oam", oam_dma.index>>) =>
            CASE wasTaken = {FALSE} -> memory'[c] = req.data
              [] wasTaken = {TRUE} -> memory'[c] = before[c]
              [] OTHER -> memory'[c] \in {before[c], req.data}

DmaCopy ==
    oam_dma.active =>
        /\ memory'[<<"Oam", oam_dma.index>>] = PageByte(oam_dma.index)
        /\ ~ oam_dma'.active /\ oam_dma.source_high # "High" =>
              \A i \in PageOffsets : memory'[<<"Oam", i>>] = PageByte(i)

OthersKept ==
    \A c \in MemoryCells :
        \/ memory'[c] = before[c]
        \/ req.kind = "Write" /\ c = CellOf(req.addr)
        \/ oam_dma.active /\ c = <<"Oam", oam_dma.index>>

(* Although a request is served by clocked ports shared with the picture     *)
(* unit and the DMA over four clocks, at its commit the core has what one    *)
(* indivisible access gives: the byte that was there when the M-cycle began, *)
(* or 0xff when another owns the region, and its write done or not done.  A  *)
(* DMA copies byte by byte what its source holds, restarted or not, and      *)
(* nothing else in memory changes.  Excepted is the byte a read of VRAM gets *)
(* in an M-cycle in which the picture unit lets go of it or takes it: the    *)
(* one read port still, or already, serves the fetch.                        *)
MemoryIsAtomic == [][t_index = 3 => CoreAccess /\ DmaCopy /\ OthersKept]_busVars
=============================================================================

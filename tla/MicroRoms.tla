------------------------------ MODULE MicroRoms ------------------------------
(* The test programs of roms/build_micro_rom.py: how the script lays out a   *)
(* program and wraps it in a cartridge, its 23 programs, and the ALU loop of *)
(* the first bring-up (bench/roms/alu_loop.asm).  A program is a             *)
(* sequence of atoms: an instruction, a label, or a jump whose displacement  *)
(* or address is filled in when all labels are known.                        *)
EXTENDS Alu, Sequences, FiniteSets, TLC

Atom(bytes, label, to) == [bytes |-> bytes, label |-> label, to |-> to]
Code(instructions) ==
    [i \in DOMAIN instructions |-> Atom(instructions[i], "none", "none")]
Mark(name) == <<Atom(<< >>, name, "none")>>
emit_jr(opcode, to) == <<Atom(<<opcode, 0>>, "none", to)>>
emit_jp(to) == <<Atom(<<\hC3, 0, 0>>, "none", to)>>
(* LD A,value; LD (HL+),A for each value. *)
Stores(values) ==
    [i \in 1 .. 2 * Len(values) |->
        Atom(IF i % 2 = 1 THEN <<\h3E, values[(i + 1) \div 2]>> ELSE <<\h22>>, "none", "none")]

base_addr == \h150

(* First pass: the offset of every atom, and with it of every label and the  *)
(* first byte of every instruction.                                          *)
Layout(program) ==
    LET offset == [i \in 1 .. Len(program) + 1 |->
                     Cardinality({<<j, k>> \in (1 .. i - 1) \X (1 .. 3) :
                                    k <= Len(program[j].bytes)})]
        marks == {i \in DOMAIN program : program[i].label # "none"}
    IN [offset |-> offset,
        labels |-> [name \in {program[i].label : i \in marks} |->
                      offset[CHOOSE i \in marks : program[i].label = name]],
        heads |-> {offset[i] : i \in DOMAIN program \ marks}]

(* Plausible defect: the displacement is counted from the jump itself.       *)
FixupFromOpcode(atom, here, labels) ==
    CASE atom.to = "none" -> atom.bytes
      [] Len(atom.bytes) = 2 -> <<atom.bytes[1], Low8(labels[atom.to] - here)>>
      [] OTHER -> <<atom.bytes[1], Low8(base_addr + labels[atom.to]),
                    HighByte(base_addr + labels[atom.to])>>

(* Second pass: a relative jump counts from the byte after it, an absolute   *)
(* one gets the address of the label.                                        *)
Fixup(atom, here, labels) ==
    CASE atom.to = "none" -> atom.bytes
      [] Len(atom.bytes) = 2 -> <<atom.bytes[1], Low8(labels[atom.to] - (here + 2))>>
      [] OTHER -> <<atom.bytes[1], Low8(base_addr + labels[atom.to]),
                    HighByte(base_addr + labels[atom.to])>>

(* The bytes of the program, from address at. *)
Assemble(program, at) ==
    LET laid == Layout(program)
        offset == laid.offset
        bytes == [i \in DOMAIN program |-> Fixup(program[i], offset[i], laid.labels)]
    IN [a \in at .. at + offset[Len(program) + 1] - 1 |->
          LET i == CHOOSE j \in DOMAIN program :
                      a - at \in offset[j] .. offset[j + 1] - 1
          IN bytes[i][a - at - offset[i] + 1]]

(* The builder raises ValueError on an unknown label and on a relative jump  *)
(* that does not reach.                                                      *)
Resolvable(program) ==
    LET laid == Layout(program)
    IN \A i \in DOMAIN program :
          program[i].to # "none" =>
              /\ program[i].to \in DOMAIN laid.labels
              /\ Len(program[i].bytes) = 2 =>
                    laid.labels[program[i].to] - laid.offset[i + 1] \in -128 .. 127
-----------------------------------------------------------------------------
ROM_SIZE_MAP == [c \in 0 .. 8 |-> 32768 * 2^c]
RAM_SIZE_MAP == <<0, 2048, 8192, 32768, 131072, 65536>>

(* What a builder asks for: the program, the cartridge in the header, a byte *)
(* at the start of some banks and an interrupt handler patched in at isr_at. *)
Cartridge(code, cart_type, rom_size_code, ram_size_code, bank_payloads) ==
    [code |-> code, cart_type |-> cart_type, rom_size_code |-> rom_size_code,
     ram_size_code |-> ram_size_code, bank_payloads |-> bank_payloads,
     isr |-> << >>, isr_at |-> 0]
Rom(code) == Cartridge(code, 0, 0, 0, << >>)
apply_rom_patches(cartridge, at, isr) == [cartridge EXCEPT !.isr = isr, !.isr_at = at]

(* Entry point: NOP; JP 0150. *)
EntryPoint == Assemble(Code(<< <<0>>, <<\hC3, \h50, 1>> >>), \h100)

(* The image: the bytes that are not zero by default (the header fields and  *)
(* checksums, which no program reads, are left out), the addresses where its *)
(* instructions start, and where its labels are.                             *)
build_rom(c) ==
    LET payload == [a \in {\h4000 * b : b \in DOMAIN c.bank_payloads} |->
                        c.bank_payloads[a \div \h4000]]
        Heads(at, code) == {at + h : h \in Layout(code).heads}
        heads == Heads(base_addr, c.code)
    IN [text |-> Assemble(c.code, base_addr),
        extra |-> EntryPoint @@ Assemble(c.isr, c.isr_at) @@ payload,
        heads |-> {\h100, \h101} \cup heads \cup Heads(c.isr_at, c.isr),
        last |-> CHOOSE h \in heads : \A other \in heads : other <= h,
        labels |-> Layout(c.code).labels,
        cart_type |-> c.cart_type,
        rom_banks |-> ROM_SIZE_MAP[c.rom_size_code] \div \h4000,
        ram_bytes |-> RAM_SIZE_MAP[c.ram_size_code + 1]]
(* The builder raises ValueError where the image cannot be built. *)
Buildable(c) ==
    /\ c.rom_size_code \in DOMAIN ROM_SIZE_MAP /\ c.ram_size_code + 1 \in DOMAIN RAM_SIZE_MAP
    /\ \A b \in DOMAIN c.bank_payloads : \h4000 * b < ROM_SIZE_MAP[c.rom_size_code]
    /\ Resolvable(c.code)
-----------------------------------------------------------------------------
(* One operator per builder of the same name, with the bytes the builder     *)
(* emits: a row is a run of instructions, and a bare jump byte is one whose  *)
(* displacement the source counts by hand.                                   *)

(* A loop of INC A, ADD A,B and INC B. *)
build_alu_loop ==
    Rom(
        Code(<<
            <<\h3E, 0>>, <<6, 0>>, <<\h3C>>, <<\h80>>, <<4>>, <<\h18, \hFB>> >>))

(* Writes and reads back ever higher addresses. *)
build_mem_rwb ==
    Rom(
        Code(<<
            <<\h21, 0, \hC0>>, <<\h3E, 0>>, <<\h77>>, <<\h3C>>, <<\h46>>, <<\h23>>,
            <<\h18, \hFA>> >>))

(* Sends two characters, by writing SB and then SC. *)
build_serial_hello ==
    Rom(
        Code(<<
            <<\h21, 1, \hFF>>, <<\h3E, \h4F>>, <<\h77>>, <<\h23>>, <<\h3E, \h81>>, <<\h77>>,
            <<\h21, 1, \hFF>>, <<\h3E, \h4B>>, <<\h77>>, <<\h23>>, <<\h3E, \h81>>, <<\h77>>,
            <<\h18, \hFE>> >>))

(* Fills a page and has the DMA copy it to OAM. *)
build_dma_oam_copy ==
    Rom(
        Code(<<
            <<\h21, 0, \hC0>>, <<\h3E, 0>>, <<6, \hA0>>, <<\h77>>, <<\h3C>>, <<\h23>>, <<5>>,
            <<\h20, \hFA>>, <<\h3E, \hC0>>, <<\hEA, \h46, \hFF>>, <<\h18, \hFE>> >>))

(* Samples DIV and TIMA for ever. *)
build_timer_div_basic ==
    Rom(
        Code(<<
            <<\h3E, 0>>, <<\hEA, 6, \hFF>>, <<\hEA, 5, \hFF>>, <<\hEA, 4, \hFF>>, <<\h3E, 4>>,
            <<\hEA, 7, \hFF>>, <<\hFA, 4, \hFF>>, <<\hEA, 0, \hC0>>, <<\hFA, 5, \hFF>>,
            <<\hEA, 1, \hC0>>, <<\h18, \hF2>> >>))

(* HALT until the timer interrupts; the handler counts in C011. *)
build_timer_irq_halt ==
    apply_rom_patches(Rom(
        Code(<<
            <<\h31, 0, \hC1>>, <<\h3E, 0>>, <<\hEA, \h0F, \hFF>>, <<\h3E, 4>>,
            <<\hEA, \hFF, \hFF>>, <<\h3E, \hAB>>, <<\hEA, 6, \hFF>>, <<\h3E, \hFE>>,
            <<\hEA, 5, \hFF>>, <<\h3E, 5>>, <<\hEA, 7, \hFF>>, <<\hFB>>, <<\h76>>,
            <<\h18, \hFE>> >>)),
        \h50,
        Code(<<
            <<\h3E, \h42>>, <<\hEA, \h10, \hC0>>, <<\hFA, \h11, \hC0>>, <<\h3C>>,
            <<\hEA, \h11, \hC0>>, <<\hD9>> >>))

(* The interrupt is served one instruction after EI; the handler saves the return address. *)
build_ei_delay ==
    apply_rom_patches(Rom(
        Code(<<
            <<\h31, 0, \hC1>>, <<\h3E, 1>>, <<\hEA, \hFF, \hFF>>, <<\hEA, \h0F, \hFF>>,
            <<\hFB>>, <<0>>, <<\h3E, \h42>>, <<\hEA, 0, \hC0>>, <<\h18, \hFE>> >>)),
        \h40,
        Code(<<
            <<\hFA, \hFE, \hC0>>, <<\hEA, \h10, \hC0>>, <<\hFA, \hFF, \hC0>>,
            <<\hEA, \h11, \hC0>>, <<\hD9>> >>))

(* Reads the joypad and runs one of four loops. *)
build_joy_diverge_persist ==
    Rom(
        Mark("outer") \o
        Code(<<
            <<\h21, 0, \hFF>>, <<\h3E, \h20>>, <<\h77>>, <<\h7E>>, <<\hE6, \h0F>>,
            <<\h21, 0, \hC1>>, <<\h46>>, <<\h80>>, <<\hE6, 3>>, <<\h77>>, <<\h46>>, <<5>> >>) \o
        emit_jr(\h28, "stub1") \o Code(<< <<5>> >>) \o emit_jr(\h28, "stub2") \o
        Code(<< <<5>> >>) \o emit_jr(\h28, "stub3") \o emit_jr(\h18, "stub0") \o
        Mark("stub0") \o emit_jp("loop0") \o Mark("stub1") \o emit_jp("loop1") \o
        Mark("stub2") \o emit_jp("loop2") \o Mark("stub3") \o emit_jp("loop3") \o
        Mark("loop0") \o Code(<< <<6, \h10>> >>) \o Mark("loop0_inner") \o
        Code(<< <<\h3C>>, <<\h80>>, <<5>> >>) \o emit_jr(\h20, "loop0_inner") \o
        emit_jp("write_sig") \o Mark("loop1") \o
        Code(<< <<\h21, 0, \hC0>>, <<6, \h10>> >>) \o Mark("loop1_inner") \o
        Code(<<
            <<\h77>>, <<\h3C>>, <<\h23>>, <<5>> >>) \o
        emit_jr(\h20, "loop1_inner") \o emit_jp("write_sig") \o Mark("loop2") \o
        Code(<< <<\h21, 0, \hC0>>, <<6, \h10>> >>) \o Mark("loop2_inner") \o
        Code(<<
            <<\h77>>, <<\h3C>>, <<\h23>>, <<\h23>>, <<\h23>>, <<\h23>>, <<\h23>>, <<5>> >>) \o
        emit_jr(\h20, "loop2_inner") \o emit_jp("write_sig") \o Mark("loop3") \o
        Code(<< <<6, \h10>> >>) \o Mark("loop3_inner") \o
        Code(<< <<\h3C>>, <<\hE6, 1>> >>) \o emit_jr(\h28, "loop3_skip") \o
        Code(<< <<\h3C>> >>) \o Mark("loop3_skip") \o Code(<< <<5>> >>) \o
        emit_jr(\h20, "loop3_inner") \o emit_jp("write_sig") \o Mark("write_sig") \o
        Code(<< <<\h21, 0, \hC0>>, <<6, \h10>> >>) \o Mark("sig_loop") \o
        Code(<<
            <<\h77>>, <<\h3C>>, <<\h23>>, <<5>> >>) \o
        emit_jr(\h20, "sig_loop") \o emit_jp("outer"))

(* Every addressing mode of the loads. *)
build_loads_basic ==
    Rom(
        Code(<<
            <<\h3E, \h12>>, <<\h47>>, <<\h48>>, <<\h51>>, <<\h5A>>, <<\h63>>, <<\h6C>>,
            <<\h7D>>, <<\h21, 0, \hC0>>, <<1, \h10, \hC0>>, <<\h11, \h20, \hC0>>,
            <<\h31, \hF0, \hC0>>, <<\h77>>, <<\h22>>, <<\h3E, \h34>>, <<\h77>>, <<\h32>>,
            <<\h7E>>, <<2>>, <<\h0A>>, <<\h12>>, <<\h1A>>, <<\h0E, \h80>>, <<\hE2>>, <<\hF2>>,
            <<\hE0, \h81>>, <<\hF0, \h81>>, <<\hEA, \h30, \hC0>>, <<\hFA, \h30, \hC0>>,
            <<8, \h40, \hC0>>, <<\h21, \h40, \hC0>>, <<\h2A>>, <<\h7E>>, <<\hC3, \h50, 1>> >>))

(* Every 8-bit operation. *)
build_alu_flags ==
    Rom(
        Code(<<
            <<\h21, 0, \hC0>>, <<\h3E, \h0F>>, <<\h77>>, <<\h3E, 1>>, <<6, \h10>>, <<\h80>>,
            <<\h88>>, <<\h86>>, <<\h8E>>, <<\hC6, 1>>, <<\h37>>, <<\hCE, 1>>, <<\h90>>,
            <<\h37>>, <<\h98>>, <<\h96>>, <<\h37>>, <<\h9E>>, <<\hD6, 1>>, <<\h37>>,
            <<\hDE, 1>>, <<\hA0>>, <<\hA6>>, <<\hE6, \h0F>>, <<\hB0>>, <<\hB6>>,
            <<\hF6, \h0F>>, <<\hA8>>, <<\hAE>>, <<\hEE, \h0F>>, <<\hB8>>, <<\hBE>>,
            <<\hFE, \h0E>>, <<\h3C>>, <<\h3D>>, <<\h34>>, <<\h35>>, <<\h3E, 9>>, <<\hC6, 1>>,
            <<\h27>>, <<\h2F>>, <<\h37>>, <<\h3F>>, <<\hC3, \h50, 1>> >>))

(* The 16-bit operations and those on SP. *)
build_alu16_sp ==
    Rom(
        Code(<<
            <<\h21, 0, \h10>>, <<1, \h34, \h12>>, <<\h11, \h78, \h56>>, <<\h31, \hF0, \hFF>>,
            <<9>>, <<\h19>>, <<\h29>>, <<\h39>>, <<3>>, <<\h0B>>, <<\h13>>, <<\h1B>>,
            <<\h23>>, <<\h2B>>, <<\h33>>, <<\h3B>>, <<\hE8, \hFE>>, <<\hF8, 5>>,
            <<\hC3, \h50, 1>> >>))

(* Calls, returns and jumps, taken and not taken. *)
build_flow_stack ==
    Rom(
        Code(<<
            <<\h31, \hF0, \hFF>>, <<\h21, \h84, 1>>, <<1, \h34, \h12>>, <<\hC5>>, <<\hD1>>,
            <<\hAF>>, <<\hC4, \h7A, 1>>, <<\hCC, \h7C, 1>>, <<\h20, 2>>, <<\h28, 1>>, <<0>>,
            <<\h3E, 1>>, <<\hB7>>, <<\h30, 3>>, <<\h38, 4>>, <<0>>, <<\hC4, \h7E, 1>>,
            <<\h37>>, <<\hD4, \h80, 1>>, <<\hDC, \h82, 1>>, <<\hE9>>, <<\hC0>>, <<\hC9>>,
            <<\hC8>>, <<\hC9>>, <<\hC0>>, <<\hC9>>, <<\hD0>>, <<\hC9>>, <<\hD8>>, <<\hC9>>,
            <<\hAF>>, <<\hC2, \h98, 1>>, <<\hCA, \h8E, 1>>, <<0>>, <<0>>, <<0>>, <<\h37>>,
            <<\hD2, \h98, 1>>, <<\hDA, \h9B, 1>>, <<0>>, <<0>>, <<0>>, <<\hC3, \h50, 1>>,
            <<\hC3, \h50, 1>> >>))

(* The CB-prefixed operations. *)
build_cb_bitops ==
    Rom(
        Code(<<
            <<\h3E, \h81>>, <<6, 1>>, <<\h0E, \h80>>, <<\h16, \h3C>>, <<\h1E, \hF0>>,
            <<\h26, \hC0>>, <<\h2E, 0>>, <<\h36, \h55>>, <<7>>, <<\h17>>, <<\h0F>>, <<\h1F>>,
            <<\hCB, 0>>, <<\hCB, 9>>, <<\hCB, \h12>>, <<\hCB, \h1B>>, <<\hCB, \h20>>,
            <<\hCB, \h29>>, <<\hCB, \h37>>, <<\hCB, \h3A>>, <<\hCB, 6>>, <<\hCB, \h0E>>,
            <<\hCB, \h16>>, <<\hCB, \h1E>>, <<\hCB, \h26>>, <<\hCB, \h2E>>, <<\hCB, \h36>>,
            <<\hCB, \h3E>>, <<\hCB, \h40>>, <<\hCB, \h49>>, <<\hCB, \h7E>>, <<\hCB, \h82>>,
            <<\hCB, \h8B>>, <<\hCB, \hBE>>, <<\hCB, \hC0>>, <<\hCB, \hC9>>, <<\hCB, \hFE>>,
            <<\h18, \hFE>> >>))

(* The first byte of banks 1 and 2. *)
Payloads == (1 :> \h42) @@ (2 :> \h99)

(* Reads banks 1 and 2 through an MBC1. *)
build_mbc1_switch ==
    Cartridge(
        Mark("start") \o
        Code(<<
            <<\h21, 0, \hC0>>, <<\h3E, 0>>, <<\h77>>, <<\h21, 0, \h40>>, <<\h3E, 1>>,
            <<\hEA, 0, \h20>>, <<\h7E>>, <<\hFE, \h42>> >>) \o
        emit_jr(\h20, "fail") \o
        Code(<<
            <<\h3E, 2>>, <<\hEA, 0, \h20>>, <<\h7E>>, <<\hFE, \h99>> >>) \o
        emit_jr(\h20, "fail") \o Code(<< <<\h3E, \hA1>>, <<\hEA, 0, \hC0>> >>) \o
        Mark("done") \o emit_jr(\h18, "done") \o Mark("fail") \o
        Code(<< <<\h3E, \hEE>>, <<\hEA, 0, \hC0>> >>) \o emit_jr(\h18, "fail"),
        1, 1, 0, Payloads)

(* Two banks of RAM behind an MBC1. *)
build_mbc1_ram ==
    Cartridge(
        Code(<<
            <<\h3E, \h0A>>, <<\hEA, 0, 0>>, <<\h3E, 1>>, <<\hEA, 0, \h60>>, <<\h3E, 1>>,
            <<\hEA, 0, \h40>>, <<\h3E, \h55>>, <<\hEA, 0, \hA0>>, <<\h3E, 0>>,
            <<\hEA, 0, \h40>>, <<\h3E, \hAA>>, <<\hEA, 0, \hA0>>, <<\h3E, 1>>,
            <<\hEA, 0, \h40>>, <<\hFA, 0, \hA0>>, <<\hFE, \h55>> >>) \o
        emit_jr(\h20, "fail") \o
        Code(<<
            <<\h3E, 0>>, <<\hEA, 0, \h40>>, <<\hFA, 0, \hA0>>, <<\hFE, \hAA>> >>) \o
        emit_jr(\h20, "fail") \o Code(<< <<\h3E, \hB1>>, <<\hEA, 0, \hC0>> >>) \o
        Mark("done") \o emit_jr(\h18, "done") \o Mark("fail") \o
        Code(<< <<\h3E, \hEE>>, <<\hEA, 0, \hC0>> >>) \o emit_jr(\h18, "fail"),
        2, 0, 3, << >>)

(* Reads banks 1 and 2 through an MBC3. *)
build_mbc3_switch ==
    Cartridge(
        Code(<<
            <<\h21, 0, \hC0>>, <<\h3E, 0>>, <<\h77>>, <<\h21, 0, \h40>>, <<\h3E, 1>>,
            <<\hEA, 0, \h20>>, <<\h7E>>, <<\hFE, \h42>> >>) \o
        emit_jr(\h20, "fail") \o
        Code(<<
            <<\h3E, 2>>, <<\hEA, 0, \h20>>, <<\h7E>>, <<\hFE, \h99>> >>) \o
        emit_jr(\h20, "fail") \o Code(<< <<\h3E, \hA3>>, <<\hEA, 0, \hC0>> >>) \o
        Mark("done") \o emit_jr(\h18, "done") \o Mark("fail") \o
        Code(<< <<\h3E, \hEE>>, <<\hEA, 0, \hC0>> >>) \o emit_jr(\h18, "fail"),
        \h11, 1, 0, Payloads)

(* Two banks of RAM behind an MBC3. *)
build_mbc3_ram ==
    Cartridge(
        Code(<<
            <<\h3E, \h0A>>, <<\hEA, 0, 0>>, <<\h3E, 1>>, <<\hEA, 0, \h40>>, <<\h3E, \h55>>,
            <<\hEA, 0, \hA0>>, <<\h3E, 0>>, <<\hEA, 0, \h40>>, <<\h3E, \hAA>>,
            <<\hEA, 0, \hA0>>, <<\h3E, 1>>, <<\hEA, 0, \h40>>, <<\hFA, 0, \hA0>>,
            <<\hFE, \h55>> >>) \o
        emit_jr(\h20, "fail") \o
        Code(<<
            <<\h3E, 0>>, <<\hEA, 0, \h40>>, <<\hFA, 0, \hA0>>, <<\hFE, \hAA>> >>) \o
        emit_jr(\h20, "fail") \o Code(<< <<\h3E, \hB3>>, <<\hEA, 0, \hC0>> >>) \o
        Mark("done") \o emit_jr(\h18, "done") \o Mark("fail") \o
        Code(<< <<\h3E, \hEE>>, <<\hEA, 0, \hC0>> >>) \o emit_jr(\h18, "fail"),
        \h12, 0, 3, << >>)

(* A chequered background. *)
build_bg_static ==
    Rom(
        Code(<<
            <<\hAF>>, <<\hE0, \h40>>, <<\h3E, \hE4>>, <<\hE0, \h47>>, <<\hAF>>,
            <<\hE0, \h42>>, <<\hE0, \h43>>, <<\h21, 0, \h80>>, <<6, \h10>>, <<\hAF>>,
            <<\h22>>, <<5>>, <<\h20, \hFB>>, <<6, 8>>, <<\h3E, \hFF>>, <<\h22>>, <<\hAF>>,
            <<\h22>>, <<5>>, <<\h20, \hF8>>, <<\h21, 0, \h98>>, <<6, \h20>>, <<\hAF>>,
            <<\h0E, \h20>>, <<\h22>>, <<\hEE, 1>>, <<\h0D>>, <<\h20, \hFA>>, <<5>>,
            <<\h20, \hF4>>, <<\h3E, \h91>>, <<\hE0, \h40>>, <<\h18, \hFE>> >>))

(* A background that scrolls for ever. *)
build_bg_scroll_anim ==
    Rom(
        Code(<<
            <<\hAF>>, <<\hE0, \h40>>, <<\h3E, \hE4>>, <<\hE0, \h47>>, <<\hAF>>,
            <<\hE0, \h42>>, <<\hE0, \h43>>, <<\h21, 0, \h80>>, <<6, \h10>>, <<\hAF>> >>) \o
        Mark("tile0") \o Code(<< <<\h22>>, <<5>> >>) \o emit_jr(\h20, "tile0") \o
        Code(<< <<6, \h10>>, <<\h3E, \hFF>> >>) \o Mark("tile1") \o
        Code(<< <<\h22>>, <<5>> >>) \o emit_jr(\h20, "tile1") \o
        Code(<< <<\h21, 0, \h98>>, <<6, \h20>>, <<\hAF>> >>) \o Mark("row") \o
        Code(<< <<\h0E, \h20>> >>) \o Mark("col") \o
        Code(<< <<\h22>>, <<\hEE, 1>>, <<\h0D>> >>) \o emit_jr(\h20, "col") \o
        Code(<< <<5>> >>) \o emit_jr(\h20, "row") \o
        Code(<< <<\h3E, \h91>>, <<\hE0, \h40>> >>) \o Mark("loop") \o
        Code(<< <<\hF0, \h43>>, <<\h3C>>, <<\hE0, \h43>> >>) \o emit_jr(\h18, "loop"))

(* A window over a background. *)
build_ppu_window ==
    Rom(
        Code(<<
            <<\hAF>>, <<\hE0, \h40>>, <<\h3E, \hE4>>, <<\hE0, \h47>>, <<\hAF>>,
            <<\hE0, \h42>>, <<\hE0, \h43>>, <<\h3E, \h20>>, <<\hE0, \h4B>>, <<\h3E, 8>>,
            <<\hE0, \h4A>>, <<\h21, 0, \h80>>, <<6, \h10>>, <<\hAF>> >>) \o
        Mark("tile0") \o Code(<< <<\h22>>, <<5>> >>) \o emit_jr(\h20, "tile0") \o
        Stores(<<
            \hFF, 0, 0, \hFF, \hFF, \hFF, 0, 0, \hFF, 0, 0, \hFF, \hFF, \hFF, 0, 0 >>) \o
        Code(<< <<\h21, 0, \h98>>, <<6, \h20>>, <<\hAF>> >>) \o Mark("bg_row") \o
        Code(<< <<\h0E, \h20>> >>) \o Mark("bg_col") \o Code(<< <<\h22>>, <<\h0D>> >>) \o
        emit_jr(\h20, "bg_col") \o Code(<< <<5>> >>) \o emit_jr(\h20, "bg_row") \o
        Code(<< <<\h21, 0, \h9C>>, <<6, \h20>>, <<\h3E, 1>> >>) \o Mark("win_row") \o
        Code(<< <<\h0E, \h20>> >>) \o Mark("win_col") \o Code(<< <<\h22>>, <<\h0D>> >>) \o
        emit_jr(\h20, "win_col") \o Code(<< <<5>> >>) \o emit_jr(\h20, "win_row") \o
        Code(<< <<\h3E, \hF1>>, <<\hE0, \h40>> >>) \o Mark("halt") \o emit_jr(\h18, "halt"))

(* Six sprites, copied to OAM by the DMA. *)
build_ppu_sprites ==
    Rom(
        Code(<<
            <<\hAF>>, <<\hE0, \h40>>, <<\h3E, \hE4>>, <<\hE0, \h47>>, <<\h3E, \hE4>>,
            <<\hE0, \h48>>, <<\h3E, \h1B>>, <<\hE0, \h49>>, <<\hAF>>, <<\hE0, \h42>>,
            <<\hE0, \h43>>, <<\h21, 0, \h80>>, <<6, \h10>>, <<\hAF>> >>) \o
        Mark("tile0") \o Code(<< <<\h22>>, <<5>> >>) \o emit_jr(\h20, "tile0") \o
        Code(<< <<6, 8>> >>) \o Mark("tile1") \o
        Code(<<
            <<\h3E, \hFF>>, <<\h22>>, <<\hAF>>, <<\h22>>, <<5>> >>) \o
        emit_jr(\h20, "tile1") \o Code(<< <<6, 8>> >>) \o Mark("tile2") \o
        Code(<<
            <<\hAF>>, <<\h22>>, <<\h3E, \hFF>>, <<\h22>>, <<5>> >>) \o
        emit_jr(\h20, "tile2") \o Code(<< <<6, \h10>> >>) \o Mark("tile3") \o
        Code(<< <<\h3E, \hFF>>, <<\h22>>, <<5>> >>) \o emit_jr(\h20, "tile3") \o
        Code(<< <<\h21, 0, \h98>>, <<6, \h20>>, <<\hAF>> >>) \o Mark("bg_row") \o
        Code(<< <<\h0E, \h20>> >>) \o Mark("bg_col") \o
        Code(<< <<\h22>>, <<\hEE, 1>>, <<\h0D>> >>) \o emit_jr(\h20, "bg_col") \o
        Code(<< <<5>> >>) \o emit_jr(\h20, "bg_row") \o Code(<< <<\h21, 0, \hC0>> >>) \o
        Stores(<<
            \h38, \h30, 2, 0, \h38, \h30, 3, 0, \h38, \h48, 2, \h80, \h38, \h60, 2, \h20,
            \h38, \h78, 2, \h40, \h38, \h90, 2, \h10 >>) \o
        Code(<<
            <<\h3E, \hC0>>, <<\hEA, \h46, \hFF>>, <<\h3E, \h97>>, <<\hE0, \h40>> >>) \o
        Mark("halt") \o emit_jr(\h18, "halt"))

(* HALT until the display interrupts; the handler counts in C000. *)
build_ppu_stat_irq ==
    apply_rom_patches(Rom(
        Code(<<
            <<\h31, 0, \hC1>>, <<\hAF>>, <<\hEA, 0, \hC0>>, <<\hEA, 1, \hC0>>, <<\h3E, 2>>,
            <<\hEA, \h45, \hFF>>, <<\h3E, \h58>>, <<\hEA, \h41, \hFF>>, <<\h3E, 2>>,
            <<\hEA, \hFF, \hFF>>, <<\hAF>>, <<\hEA, \h0F, \hFF>>, <<\h3E, \h91>>,
            <<\hEA, \h40, \hFF>>, <<\hFB>>, <<\h76>>, <<\h18, \hFE>> >>)),
        \h48,
        Code(<<
            <<\h21, 0, \hC0>>, <<\h7E>>, <<\h3C>>, <<\h77>>, <<\h20, 4>>, <<\h23>>, <<\h7E>>,
            <<\h3C>>, <<\h77>>, <<\hD9>> >>))

(* A scrolled background with signed tile numbers. *)
build_bg_scroll_signed ==
    Rom(
        Code(<<
            <<\hAF>>, <<\hE0, \h40>>, <<\h3E, \hE4>>, <<\hE0, \h47>>, <<\h3E, 8>>,
            <<\hE0, \h42>>, <<\h3E, 4>>, <<\hE0, \h43>>, <<\h21, 0, \h88>>, <<6, 8>>,
            <<\h3E, \hAA>>, <<\h22>>, <<\h3E, \hCC>>, <<\h22>>, <<5>>, <<\h20, \hF7>>,
            <<\h21, 0, \h98>>, <<\h3E, \h80>>, <<6, \h20>>, <<\h0E, \h20>>, <<\h22>>,
            <<\h0D>>, <<\h20, \hFC>>, <<5>>, <<\h20, \hF7>>, <<\h3E, \h81>>, <<\hE0, \h40>>,
            <<\h18, \hFE>> >>))

build_all ==
    [ALU_LOOP |-> build_alu_loop,
     MEM_RWB |-> build_mem_rwb,
     SERIAL_HELLO |-> build_serial_hello,
     DMA_OAM_COPY |-> build_dma_oam_copy,
     TIMER_DIV_BASIC |-> build_timer_div_basic,
     TIMER_IRQ_HALT |-> build_timer_irq_halt,
     EI_DELAY |-> build_ei_delay,
     JOY_DIVERGE_PERSIST |-> build_joy_diverge_persist,
     LOADS_BASIC |-> build_loads_basic,
     ALU_FLAGS |-> build_alu_flags,
     ALU16_SP |-> build_alu16_sp,
     FLOW_STACK |-> build_flow_stack,
     CB_BITOPS |-> build_cb_bitops,
     MBC1_SWITCH |-> build_mbc1_switch,
     MBC1_RAM |-> build_mbc1_ram,
     MBC3_SWITCH |-> build_mbc3_switch,
     MBC3_RAM |-> build_mbc3_ram,
     BG_STATIC |-> build_bg_static,
     BG_SCROLL_ANIM |-> build_bg_scroll_anim,
     PPU_WINDOW |-> build_ppu_window,
     PPU_SPRITES |-> build_ppu_sprites,
     PPU_STAT_IRQ |-> build_ppu_stat_irq,
     BG_SCROLL_SIGNED |-> build_bg_scroll_signed]

(* The demonstration: it sums 8, 7, .. 1, checks the sum, logs the result in *)
(* WRAM and stays at __pass or __fail (with the macros of template.inc).     *)
SetByte(addr, v) == Code(<< <<\h3E, v>>, <<\hEA, Low8(addr), HighByte(addr)>> >>)
KeepByte(addr) == Code(<< <<\hEA, Low8(addr), HighByte(addr)>> >>)
ICEBOY_LOG_CASE(status, actual, f) ==
    SetByte(\hC020, 7) \o SetByte(\hC021, 0) \o SetByte(\hC022, status) \o
    SetByte(\hC023, \h24) \o SetByte(\hC024, actual) \o SetByte(\hC025, f)
ICEBOY_INIT_SIGNATURE ==
    SetByte(\hC000, 1) \o SetByte(\hC001, 0) \o Code(<< <<\hAF>> >>) \o
    KeepByte(\hC002) \o KeepByte(\hC003) \o KeepByte(\hC004) \o KeepByte(\hC005) \o
    KeepByte(\hC006) \o KeepByte(\hC007) \o KeepByte(\hC022) \o KeepByte(\hC023) \o
    KeepByte(\hC024) \o KeepByte(\hC025)
alu_loop ==
    Rom(
        Code(<< <<\hF3>>, <<\h31, \hFE, \hFF>> >>) \o
        <<Atom(<<\hCD, 0, 0>>, "none", "InitAbiSignature")>> \o
        Mark("__checkpoint_loop_setup") \o
        Code(<< <<\hAF>>, <<6, 8>>, <<\h21, 8, \hC0>> >>) \o
        Mark("__checkpoint_loop_body") \o Code(<< <<\h80>>, <<5>> >>) \o
        emit_jr(\h20, "__checkpoint_loop_body") \o Code(<< <<\h77>> >>) \o
        Mark("__checkpoint_loop_done") \o Code(<< <<\hFE, \h24>> >>) \o emit_jr(\h20, "__fail") \o
        ICEBOY_LOG_CASE(1, \h24, 0) \o SetByte(\hC001, 1) \o emit_jp("__pass") \o
        Mark("__fail") \o ICEBOY_LOG_CASE(255, 0, 255) \o SetByte(\hC001, 255) \o
        emit_jr(\h18, "__fail") \o Mark("__pass") \o emit_jr(\h18, "__pass") \o
        Mark("InitAbiSignature") \o ICEBOY_INIT_SIGNATURE \o
        Code(<< <<\h3E, 3>> >>) \o KeepByte(\hC002) \o KeepByte(\hC004) \o
        SetByte(\hC010, \h4C) \o SetByte(\hC011, \h4F) \o SetByte(\hC012, \h4F) \o
        SetByte(\hC013, \h50) \o Code(<< <<\hC9>> >>))

Programs == build_all @@ ("ALU_LOOP_DEMO" :> alu_loop)
RomNames == DOMAIN Programs
Images == [name \in RomNames |-> build_rom(Programs[name])]
=============================================================================

---------------------------- MODULE Instructions ----------------------------
(* What a whole instruction does to the registers and to memory              *)
(* (src/cpu/semantics.spade). CpuIsa splits the same instructions into the   *)
(* M-cycles they take; here the cycles of one instruction are one step.      *)
EXTENDS Alu, DecodeReference

Registers8 == {"A", "B", "C", "D", "E", "H", "L"}

(* The state a boot that skips the boot ROM leaves the core in. *)
skipboot_arch_state ==
    [A |-> 1, F |-> Flags(TRUE, FALSE, TRUE, TRUE), B |-> 0, C |-> 19, D |-> 0, E |-> 216,
     H |-> 1, L |-> 77, SP |-> 65534, PC |-> 256, ime |-> "Disabled", halt |-> "Running"]

FlagByte(f) == 128 * CarryOf(f.z) + 64 * CarryOf(f.n) + 32 * CarryOf(f.h) + 16 * CarryOf(f.c)
FlagsOf(b) == Flags(BitOf(b, 7), BitOf(b, 6), BitOf(b, 5), BitOf(b, 4))

get_r16(cpu, pair) ==
    CASE pair = "BC" -> WordOf(cpu.B, cpu.C)
      [] pair = "DE" -> WordOf(cpu.D, cpu.E)
      [] pair = "HL" -> WordOf(cpu.H, cpu.L)
      [] pair = "AF" -> WordOf(cpu.A, FlagByte(cpu.F))
      [] pair = "SP" -> cpu.SP
SetPair(cpu, pair, w) ==
    CASE pair = "BC" -> [cpu EXCEPT !.B = HighByte(w), !.C = Low8(w)]
      [] pair = "DE" -> [cpu EXCEPT !.D = HighByte(w), !.E = Low8(w)]
      [] pair = "HL" -> [cpu EXCEPT !.H = HighByte(w), !.L = Low8(w)]
      [] pair = "AF" -> [cpu EXCEPT !.A = HighByte(w), !.F = FlagsOf(Low8(w))]
      [] pair = "SP" -> [cpu EXCEPT !.SP = w]

condition_matches(cpu, cond) ==
    CASE cond = "none" -> TRUE
      [] cond = "NZ" -> ~ cpu.F.z
      [] cond = "Z"  -> cpu.F.z
      [] cond = "NC" -> ~ cpu.F.c
      [] cond = "C"  -> cpu.F.c

(* The place in memory an operand names; imm holds the bytes after the       *)
(* opcode.                                                                   *)
Address(cpu, place, imm) ==
    CASE place \in {"(HL)", "(HL+)", "(HL-)"} -> get_r16(cpu, "HL")
      [] place = "(BC)" -> get_r16(cpu, "BC")
      [] place = "(DE)" -> get_r16(cpu, "DE")
      [] place = "(d16)" -> imm
      [] place = "(FF00+d8)" -> 65280 + Low8(imm)
      [] place = "(FF00+C)" -> 65280 + cpu.C

(* An instruction leaves the core in a state and makes some writes.          *)
Effect(cpu, writes) == [cpu |-> cpu, writes |-> writes]
Put(cpu, dst, v, imm) ==
    IF dst \in Registers8 THEN Effect([cpu EXCEPT ![dst] = v], << >>)
    ELSE Effect(cpu, << <<Address(cpu, dst, imm), v>> >>)
Push(cpu, w) ==
    Effect([cpu EXCEPT !.SP = Low16(cpu.SP - 2)],
           << <<Low16(cpu.SP - 1), HighByte(w)>>, <<Low16(cpu.SP - 2), Low8(w)>> >>)

Value8(cpu, src, imm, byteAt) ==
    CASE src \in Registers8 -> cpu[src]
      [] src = "d8" -> Low8(imm)
      [] OTHER -> byteAt[Address(cpu, src, imm)]
Value16(cpu, src, imm) == IF src = "d16" THEN imm ELSE get_r16(cpu, src)
PopWord(cpu, byteAt) == WordOf(byteAt[Low16(cpu.SP + 1)], byteAt[cpu.SP])

(* LD A,(HL+) and the like move HL after the transfer. *)
StepHl(cpu, d) ==
    CASE "(HL+)" \in {d.dst, d.src} -> SetPair(cpu, "HL", Low16(get_r16(cpu, "HL") + 1))
      [] "(HL-)" \in {d.dst, d.src} -> SetPair(cpu, "HL", Low16(get_r16(cpu, "HL") - 1))
      [] OTHER -> cpu

ExecuteLoad(cpu, d, imm, byteAt) ==
    IF d.dst \in {"BC", "DE", "HL", "SP"} THEN
        Effect(SetPair(cpu, d.dst, Value16(cpu, d.src, imm)), << >>)
    ELSE IF d.src = "SP" THEN
        Effect(cpu, << <<imm, Low8(cpu.SP)>>, <<Low16(imm + 1), HighByte(cpu.SP)>> >>)
    ELSE LET moved == Put(cpu, d.dst, Value8(cpu, d.src, imm, byteAt), imm)
         IN Effect(StepHl(moved.cpu, d), moved.writes)

execute_alu_delta(cpu, d, imm, byteAt) ==
    LET r == AluRequest(d.alu, Value8(cpu, d.dst, imm, byteAt), Value8(cpu, d.src, imm, byteAt), cpu.F)
        flagged == [cpu EXCEPT !.F = r.flags]
    IN IF d.alu = "Cp" THEN Effect(flagged, << >>) ELSE Put(flagged, d.dst, r.value, imm)

execute_bitop_delta(cpu, d, imm, byteAt) ==
    LET x == Value8(cpu, d.dst, imm, byteAt)
        r == IF d.bit = "RotShift" THEN RotShiftResult(d.rot, x, cpu.F, d.zero)
             ELSE BitResSetResult(d.bit, d.index, x, cpu.F)
        flagged == [cpu EXCEPT !.F = r.flags]
    IN IF d.bit = "Bit" THEN Effect(flagged, << >>) ELSE Put(flagged, d.dst, r.value, imm)

execute_word_alu_delta(cpu, d, imm) ==
    LET sum == Add16Result(get_r16(cpu, "HL"), get_r16(cpu, d.src), cpu.F.z)
        displaced == AddSpE8Result(cpu.SP, Low8(imm))
        With(r) == [SetPair(cpu, d.dst, r.value) EXCEPT !.F = r.flags]
    IN CASE d.word = "AddHl" -> With(sum)
         [] d.word \in {"AddSpE8", "LdHlSpPlusE8"} -> With(displaced)
         [] d.word = "Inc" -> SetPair(cpu, d.dst, Low16(get_r16(cpu, d.dst) + 1))
         [] d.word = "Dec" -> SetPair(cpu, d.dst, Low16(get_r16(cpu, d.dst) - 1))

execute_control_flow_delta(cpu, d, imm, byteAt) ==
    LET Goto(c, addr) == [c EXCEPT !.PC = addr]
        pushed == Push(cpu, cpu.PC)
    IN CASE ~ condition_matches(cpu, d.cond) -> Effect(cpu, << >>)
         [] d.target = "Relative" ->
              Effect(Goto(cpu, Low16(cpu.PC + Signed(Low8(imm)))), << >>)
         [] d.target = "Absolute" -> Effect(Goto(cpu, Value16(cpu, d.dst, imm)), << >>)
         [] d.target = "Call" -> Effect(Goto(pushed.cpu, imm), pushed.writes)
         [] d.target = "Restart" -> Effect(Goto(pushed.cpu, d.vector), pushed.writes)
         [] d.target = "Return" ->
              Effect([cpu EXCEPT !.PC = PopWord(cpu, byteAt), !.SP = Low16(cpu.SP + 2),
                                 !.ime = IF d.reti THEN "Enabled" ELSE cpu.ime], << >>)

execute_stack_delta(cpu, d, byteAt) ==
    IF d.stack = "Push" THEN Push(cpu, get_r16(cpu, d.dst))
    ELSE Effect([SetPair(cpu, d.dst, PopWord(cpu, byteAt)) EXCEPT !.SP = Low16(cpu.SP + 2)], << >>)

(* HALT with interrupts off and one pending does not stop: the byte after it *)
(* will be read twice.                                                       *)
halt_enter_delta(cpu, pending) ==
    [cpu EXCEPT !.halt =
        IF cpu.ime = "Disabled" /\ pending THEN "HaltBugPending" ELSE "Halted"]

execute_misc_delta(cpu, d, pending) ==
    LET r == MiscRequest(d.misc, cpu.A, cpu.F)
    IN CASE d.misc \in {"Daa", "Cpl"} -> [cpu EXCEPT !.A = r.value, !.F = r.flags]
         [] d.misc \in {"Scf", "Ccf"} -> [cpu EXCEPT !.F = r.flags]
         [] d.misc = "Halt" -> halt_enter_delta(cpu, pending)
         [] OTHER -> cpu

(* EI enables interrupts only when the instruction after it is complete.     *)
resolve_ime(cpu, d) ==
    CASE d.class = "InterruptControl" -> IF d.enable THEN "PendingEnable" ELSE "Disabled"
      [] cpu.ime = "PendingEnable" -> "Enabled"
      [] OTHER -> cpu.ime

(* One instruction; byteAt is the memory it starts from.                     *)
RunInstruction(before, pending, byteAt) ==
    LET base == IF before.halt = "HaltBugPending" THEN before.PC - 1 ELSE before.PC
        opcode == byteAt[before.PC]
        imm == WordOf(byteAt[Low16(base + 2)], byteAt[Low16(base + 1)])
        d == IF opcode = 203 THEN Prefixed[Low8(imm)] ELSE Unprefixed[opcode]
        cpu == [before EXCEPT !.PC = Low16(base + Length(opcode)), !.halt = "Running"]
        done == CASE d.class = "Load" -> ExecuteLoad(cpu, d, imm, byteAt)
                  [] d.class = "Alu" -> execute_alu_delta(cpu, d, imm, byteAt)
                  [] d.class = "WordAlu" -> Effect(execute_word_alu_delta(cpu, d, imm), << >>)
                  [] d.class = "ControlFlow" -> execute_control_flow_delta(cpu, d, imm, byteAt)
                  [] d.class = "BitOp" -> execute_bitop_delta(cpu, d, imm, byteAt)
                  [] d.class = "Stack" -> execute_stack_delta(cpu, d, byteAt)
                  [] d.class = "Misc" -> Effect(execute_misc_delta(cpu, d, pending), << >>)
                  [] OTHER -> Effect(cpu, << >>)
    IN Effect([done.cpu EXCEPT !.ime = resolve_ime(done.cpu, d)], done.writes)

(* The interrupt with the lowest bit is served: its flag is acknowledged and *)
(* the core jumps to its vector with interrupts off.                         *)
irq_sel_from_pending(pending) ==
    CHOOSE i \in 0 .. 4 : BitOf(pending, i) /\ \A j \in 0 .. i - 1 : ~ BitOf(pending, j)
irq_vector(i) == 64 + 8 * i
(* Plausible defect: the interrupt is entered without leaving HALT. *)
EntryStaysHalted(cpu, i) ==
    LET pushed == Push(cpu, cpu.PC)
    IN Effect([pushed.cpu EXCEPT !.PC = irq_vector(i), !.ime = "Disabled"], pushed.writes)
service_entry(cpu, i) ==
    LET pushed == Push(cpu, cpu.PC)
    IN Effect([pushed.cpu EXCEPT !.PC = irq_vector(i), !.ime = "Disabled", !.halt = "Running"],
              pushed.writes)
=============================================================================

-------------------------- MODULE DecodeReference ---------------------------
(* The projection of every opcode the decode table of the core is generated  *)
(* from (tools/sm83_decode_reference.py). An operand is a register, "d8",    *)
(* "d16", or a place in memory, written in parentheses; the addressing mode  *)
(* of the projection is a function of the operands and is left out.          *)
EXTENDS Integers, Sequences

(* An opcode is read as xx yyy zzz, and yyy as pp q. *)
Digits3(opcode) == [x |-> opcode \div 64, y |-> (opcode \div 8) % 8, z |-> opcode % 8,
                    p |-> (opcode \div 16) % 4, q |-> (opcode \div 8) % 2]

R8_BY_INDEX == <<"B", "C", "D", "E", "H", "L", "(HL)", "A">>
PAIR_BY_INDEX == <<"BC", "DE", "HL", "SP">>
STACK_PAIR_BY_INDEX == <<"BC", "DE", "HL", "AF">>
ALU_BY_INDEX == <<"Add", "Adc", "Sub", "Sbc", "And", "Xor", "Or", "Cp">>
CONDITION_BY_INDEX == <<"NZ", "Z", "NC", "C">>
ROT_BY_INDEX == <<"Rlc", "Rrc", "Rl", "Rr", "Sla", "Sra", "Swap", "Srl">>

(* The fields a projection does not set have these values. *)
Projection ==
    [class |-> "Invalid", cond |-> "none", target |-> "none", reti |-> FALSE,
     dst |-> "none", src |-> "none", alu |-> "none", word |-> "none", bit |-> "none",
     rot |-> "none", index |-> 0, zero |-> FALSE, stack |-> "none", misc |-> "none",
     enable |-> FALSE, vector |-> 0]

Load(dst, src) == [Projection EXCEPT !.class = "Load", !.dst = dst, !.src = src]
Arith(kind, dst, src) ==
    [Projection EXCEPT !.class = "Alu", !.alu = kind, !.dst = dst, !.src = src]
WordOp(kind, dst, src) ==
    [Projection EXCEPT !.class = "WordAlu", !.word = kind, !.dst = dst, !.src = src]
Flow(cond, target, dst) ==
    [Projection EXCEPT !.class = "ControlFlow", !.cond = cond, !.target = target, !.dst = dst]
Rotate(kind, dst, zero) ==
    [Projection EXCEPT !.class = "BitOp", !.bit = "RotShift", !.rot = kind, !.dst = dst,
                       !.zero = zero]
BitOp(kind, index, dst) ==
    [Projection EXCEPT !.class = "BitOp", !.bit = kind, !.index = index, !.dst = dst]
Stack(kind, pair) == [Projection EXCEPT !.class = "Stack", !.stack = kind, !.dst = pair]
Misc(kind) == [Projection EXCEPT !.class = "Misc", !.misc = kind]
InterruptControl(on) == [Projection EXCEPT !.class = "InterruptControl", !.enable = on]

(* Opcodes 00-3F: by column z. *)
FirstQuarter(o) ==
    LET r8 == R8_BY_INDEX[o.y + 1]
        pair == PAIR_BY_INDEX[o.p + 1]
        place == <<"(BC)", "(DE)", "(HL+)", "(HL-)">>[o.p + 1]
    IN CASE o.z = 0 /\ o.y = 0 -> Misc("Nop")
         [] o.z = 0 /\ o.y = 1 -> Load("(d16)", "SP")
         [] o.z = 0 /\ o.y = 2 -> Misc("Stop")
         [] o.z = 0 /\ o.y = 3 -> Flow("none", "Relative", "none")
         [] o.z = 0 /\ o.y >= 4 -> Flow(CONDITION_BY_INDEX[o.y - 3], "Relative", "none")
         [] o.z = 1 /\ o.q = 0 -> Load(pair, "d16")
         [] o.z = 1 /\ o.q = 1 -> WordOp("AddHl", "HL", pair)
         [] o.z = 2 /\ o.q = 0 -> Load(place, "A")
         [] o.z = 2 /\ o.q = 1 -> Load("A", place)
         [] o.z = 3 -> WordOp(IF o.q = 0 THEN "Inc" ELSE "Dec", pair, "none")
         [] o.z = 4 -> Arith("Inc", r8, r8)
         [] o.z = 5 -> Arith("Dec", r8, r8)
         [] o.z = 6 -> Load(r8, "d8")
         [] o.z = 7 /\ o.y < 4 -> Rotate(ROT_BY_INDEX[o.y + 1], "A", FALSE)
         [] o.z = 7 /\ o.y >= 4 -> Misc(<<"Daa", "Cpl", "Scf", "Ccf">>[o.y - 3])

(* Opcodes C0-FF, columns 0 to 2: returns, pops, jumps and the loads of the  *)
(* high page.                                                                *)
LastQuarterLeft(o) ==
    LET cond == CONDITION_BY_INDEX[o.y + 1]
        pair == STACK_PAIR_BY_INDEX[o.p + 1]
    IN CASE o.z = 0 /\ o.y < 4 -> Flow(cond, "Return", "none")
         [] o.z = 0 /\ o.y = 4 -> Load("(FF00+d8)", "A")
         [] o.z = 0 /\ o.y = 5 -> WordOp("AddSpE8", "SP", "SP+e8")
         [] o.z = 0 /\ o.y = 6 -> Load("A", "(FF00+d8)")
         [] o.z = 0 /\ o.y = 7 -> WordOp("LdHlSpPlusE8", "HL", "SP+e8")
         [] o.z = 1 /\ o.q = 0 -> Stack("Pop", pair)
         [] o.z = 1 /\ o.y = 1 -> Flow("none", "Return", "none")
         [] o.z = 1 /\ o.y = 3 -> [Flow("none", "Return", "none") EXCEPT !.reti = TRUE]
         [] o.z = 1 /\ o.y = 5 -> Flow("none", "Absolute", "HL")
         [] o.z = 1 /\ o.y = 7 -> Load("SP", "HL")
         [] o.z = 2 /\ o.y < 4 -> Flow(cond, "Absolute", "d16")
         [] o.z = 2 /\ o.y = 4 -> Load("(FF00+C)", "A")
         [] o.z = 2 /\ o.y = 5 -> Load("(d16)", "A")
         [] o.z = 2 /\ o.y = 6 -> Load("A", "(FF00+C)")
         [] o.z = 2 /\ o.y = 7 -> Load("A", "(d16)")

(* Columns 3 to 7: calls, pushes, immediate arithmetic and restarts; what is *)
(* left is no instruction.                                                   *)
LastQuarterRight(o) ==
    LET cond == CONDITION_BY_INDEX[o.y + 1]
        pair == STACK_PAIR_BY_INDEX[o.p + 1]
    IN CASE o.z = 3 /\ o.y = 0 -> Flow("none", "Absolute", "d16")
         [] o.z = 3 /\ o.y = 1 -> Misc("PrefixCb")
         [] o.z = 3 /\ o.y = 6 -> InterruptControl(FALSE)
         [] o.z = 3 /\ o.y = 7 -> InterruptControl(TRUE)
         [] o.z = 4 /\ o.y < 4 -> Flow(cond, "Call", "d16")
         [] o.z = 5 /\ o.q = 0 -> Stack("Push", pair)
         [] o.z = 5 /\ o.y = 1 -> Flow("none", "Call", "d16")
         [] o.z = 6 -> Arith(ALU_BY_INDEX[o.y + 1], "A", "d8")
         [] o.z = 7 -> [Flow("none", "Restart", "none") EXCEPT !.vector = 8 * o.y]
         [] OTHER -> Projection

projection_for_unprefixed_opcode(opcode) ==
    LET o == Digits3(opcode)
    IN CASE o.x = 0 -> FirstQuarter(o)
         [] o.x = 1 -> IF o.y = 6 /\ o.z = 6 THEN Misc("Halt")
                       ELSE Load(R8_BY_INDEX[o.y + 1], R8_BY_INDEX[o.z + 1])
         [] o.x = 2 -> Arith(ALU_BY_INDEX[o.y + 1], "A", R8_BY_INDEX[o.z + 1])
         [] o.x = 3 -> IF o.z <= 2 THEN LastQuarterLeft(o) ELSE LastQuarterRight(o)

projection_for_cb_opcode(opcode) ==
    LET o == Digits3(opcode)
        target == R8_BY_INDEX[o.z + 1]
    IN CASE o.x = 0 -> Rotate(ROT_BY_INDEX[o.y + 1], target, TRUE)
         [] o.x = 1 -> BitOp("Bit", o.y, target)
         [] o.x = 2 -> BitOp("Res", o.y, target)
         [] o.x = 3 -> BitOp("Set", o.y, target)

(* The generated tables. *)
Unprefixed == [opcode \in 0 .. 255 |-> projection_for_unprefixed_opcode(opcode)]
Prefixed == [opcode \in 0 .. 255 |-> projection_for_cb_opcode(opcode)]

(* How many bytes an instruction takes: its immediate operands follow it. *)
Length(opcode) ==
    LET d == Unprefixed[opcode]
    IN CASE "d16" \in {d.dst, d.src} \/ "(d16)" \in {d.dst, d.src} -> 3
         [] \/ {"d8", "(FF00+d8)", "SP+e8"} \cap {d.dst, d.src} # {}
            \/ d.target = "Relative" \/ d.misc \in {"Stop", "PrefixCb"} -> 2
         [] OTHER -> 1
=============================================================================

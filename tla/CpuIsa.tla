------------------------------- MODULE CpuIsa -------------------------------
(* What the core promises, one instruction at a time: the abstract machine   *)
(* that executes each instruction, and each interrupt dispatch, in a single  *)
(* step.  It says which transactions an instruction makes on the bus, in     *)
(* which order and with which data, and the state it leaves.                 *)
EXTENDS CpuTypes, Sequences

VARIABLES
    st,     \* ArchState between two instructions
    op,     \* what was executed last: an instruction class or an event
    bus     \* the transactions it made

isaVars == <<st, op, bus>>

IrqName == <<"VBlank", "LcdStat", "Timer", "Serial", "Joypad">>

StartState ==
    [pc |-> ByteMod, sp |-> WordMod - 2, hl |-> ByteMod + 1, a |-> 1, cc |-> TRUE,
     ime |-> "Disabled", halt |-> "Running"]

Init == st = StartState /\ op = "Reset" /\ bus = <<>>

(* EI takes effect when the instruction after it completes. *)
ImeAfter(o) ==
    CASE o = "Ei"   -> "PendingEnable"
      [] o = "Di"   -> "Disabled"
      [] o = "Reti" -> "Enabled"
      [] OTHER      -> IF st.ime = "PendingEnable" THEN "Enabled" ELSE st.ime

(* The address of the byte after the opcode.  After the HALT bug the opcode  *)
(* byte is fetched without advancing the PC, so it is read once more.        *)
HaltBug == st.halt = "HaltBugPending"
After(n) == Plus(st.pc, IF HaltBug THEN n - 1 ELSE n)

Done(o, n) == [st EXCEPT !.pc = After(n), !.ime = ImeAfter(o), !.halt = "Running"]

(* Instructions that touch only registers: the state they leave. *)
RegisterEffect(o) ==
    LET end == Done(o, 1) IN
    CASE o \in {"Nop", "Ei", "Di"} -> end
      [] o = "LdRR"   -> [end EXCEPT !.a = Lo(st.hl)]
      [] o = "Stop"   -> IF HaltBug THEN end ELSE Done(o, 2)
      [] o = "JpHl"   -> IF HaltBug THEN end ELSE [end EXCEPT !.pc = st.hl]
      [] o = "LdSpHl" -> [end EXCEPT !.sp = st.hl]
      [] o = "AluR"   -> [end EXCEPT !.a = AluVal(st.a, Lo(st.hl)),
                                     !.cc = AluFlag(st.a, Lo(st.hl))]
      [] o = "AddHl"  -> [end EXCEPT !.hl = Plus(st.hl, st.hl),
                                     !.cc = AluFlag(Hi(st.hl), Hi(st.hl))]
      [] o = "IncHl"  -> [end EXCEPT !.hl = Plus(st.hl, 1)]
      [] o = "DecHl"  -> [end EXCEPT !.hl = Minus(st.hl, 1)]
      [] o = "IncSp"  -> [end EXCEPT !.sp = Plus(st.sp, 1)]
      [] o = "DecSp"  -> [end EXCEPT !.sp = Minus(st.sp, 1)]
RegisterOps == {"Nop", "Ei", "Di", "LdRR", "Stop", "JpHl", "LdSpHl", "AluR", "AddHl",
                "IncHl", "DecHl", "IncSp", "DecSp"}

(* Instructions with one immediate byte: state and further transactions. *)
Imm8Effect(o, imm, v) ==
    LET end == Done(o, 2)
        sum == Plus(st.sp, SignExtend(imm))
        jump == [end EXCEPT !.pc = Plus(@, SignExtend(imm))]
        carry == AluFlag(Lo(st.sp), imm)
    IN CASE o = "LdRN"  -> <<[end EXCEPT !.a = imm], <<>>>>
         [] o = "LdHlN" -> <<end, <<Write(st.hl, imm)>>>>
         [] o = "LdhR"  -> <<[end EXCEPT !.a = v], <<Read(IoAddress(imm), v)>>>>
         [] o = "LdhW"  -> <<end, <<Write(IoAddress(imm), st.a)>>>>
         [] o = "AluN"  -> <<[end EXCEPT !.a = AluVal(st.a, imm),
                                         !.cc = AluFlag(st.a, imm)], <<>>>>
         [] o = "Jr"    -> <<jump, <<>>>>
         [] o = "JrCc"  -> <<IF st.cc THEN jump ELSE end, <<>>>>
         [] o = "AddSp" -> <<[end EXCEPT !.sp = sum, !.cc = carry], <<>>>>
         [] o = "LdHlSp" -> <<[end EXCEPT !.hl = sum, !.cc = carry], <<>>>>

(* A call pushes the return address, high byte first, and jumps. *)
PushWord(w) == <<Write(Minus(st.sp, 1), Hi(w)), Write(Minus(st.sp, 2), Lo(w))>>
Called(end, target) == [end EXCEPT !.pc = target, !.sp = Minus(st.sp, 2)]

Imm16Effect(o, w, v) ==
    LET end == Done(o, 3)
        jump == <<[end EXCEPT !.pc = w], <<>>>>
        call == <<Called(end, w), PushWord(end.pc)>>
    IN CASE o = "LdRrNn" -> <<[end EXCEPT !.hl = w], <<>>>>
         [] o = "LdSpNn" -> <<[end EXCEPT !.sp = w], <<>>>>
         [] o = "Jp"     -> jump
         [] o = "JpCc"   -> IF st.cc THEN jump ELSE <<end, <<>>>>
         [] o = "Call"   -> call
         [] o = "CallCc" -> IF st.cc THEN call ELSE <<end, <<>>>>
         [] o = "LdANn"  -> <<[end EXCEPT !.a = v], <<Read(w, v)>>>>
         [] o = "LdNnA"  -> <<end, <<Write(w, st.a)>>>>
         [] o = "LdNnSp" -> <<end, <<Write(w, Lo(st.sp)), Write(Plus(w, 1), Hi(st.sp))>>>>

(* Instructions on memory without an immediate; l and v are bytes read. *)
MemoryEffect(o, l, v) ==
    LET end == Done(o, 1)
        get == <<Read(st.hl, l)>>
        put == <<Write(st.hl, st.a)>>
        pop == <<Read(st.sp, l), Read(Plus(st.sp, 1), v)>>
        popped == [end EXCEPT !.sp = Plus(st.sp, 2)]
        returned == [popped EXCEPT !.pc = Pair(v, l)]
        bit == [Done(o, 2) EXCEPT !.cc = AluFlag(l, l)]
    IN CASE o \in {"LdRHl", "LdAPp"} -> <<[end EXCEPT !.a = l], get>>
         [] o = "LdAHli" -> <<[end EXCEPT !.a = l, !.hl = Plus(@, 1)], get>>
         [] o = "LdAHld" -> <<[end EXCEPT !.a = l, !.hl = Minus(@, 1)], get>>
         [] o = "AluHl"  -> <<[end EXCEPT !.a = AluVal(st.a, l), !.cc = AluFlag(st.a, l)], get>>
         [] o = "IncMem" -> <<[end EXCEPT !.cc = AluFlag(l, l)],
                              Append(get, Write(st.hl, AluVal(l, l)))>>
         [] o = "LdHlR"  -> <<end, put>>
         [] o = "LdHliA" -> <<[end EXCEPT !.hl = Plus(@, 1)], put>>
         [] o = "LdHldA" -> <<[end EXCEPT !.hl = Minus(@, 1)], put>>
         [] o = "Push"   -> <<[end EXCEPT !.sp = Minus(@, 2)], PushWord(st.hl)>>
         [] o = "Pop"    -> <<[popped EXCEPT !.hl = Pair(v, l)], pop>>
         [] o \in {"Ret", "Reti"} -> <<returned, pop>>
         [] o = "RetCc"  -> IF st.cc THEN <<returned, pop>> ELSE <<end, <<>>>>
         [] o = "Rst"    -> <<Called(end, RstVector), PushWord(end.pc)>>
         [] o = "CbR"    -> <<[Done(o, 2) EXCEPT !.a = AluVal(@, @),
                                                 !.cc = AluFlag(st.a, st.a)], <<>>>>
         [] o = "CbBit"  -> <<bit, get>>
         [] o = "CbRmw"  -> <<bit, Append(get, Write(st.hl, AluVal(l, l)))>>
MemoryOps == ReadHlOps \cup WriteHlOps \cup PopOps \cup CbOps \cup {"Push", "RetCc", "Rst"}

(* The opcode bytes are read before anything else. *)
OpcodeReads(o) ==
    IF o \in CbOps THEN <<Read(st.pc, 0), Read(After(1), 0)>> ELSE <<Read(st.pc, 0)>>

Makes(effect, operands) ==
    st' = effect[1] /\ bus' = OpcodeReads(op') \o operands \o effect[2]

Instruction ==
    \/ op' \in RegisterOps /\ Makes(<<RegisterEffect(op'), <<>>>>, <<>>)
    \/ /\ op' \in Imm8Ops
       /\ \E imm, v \in Byte : Makes(Imm8Effect(op', imm, v), <<Read(After(1), imm)>>)
    \/ /\ op' \in Imm16Ops
       /\ \E l, h, v \in Byte : Makes(Imm16Effect(op', Pair(h, l), v),
                                    <<Read(After(1), l), Read(After(2), h)>>)
    \/ /\ op' \in MemoryOps
       /\ \E l, v \in Byte : Makes(MemoryEffect(op', l, v), <<>>)

(* HALT stops the core, except that with IME off and an interrupt pending    *)
(* it arms the HALT bug instead.                                             *)
Halt ==
    /\ op' = "Halt"
    /\ \E h \in {"Halted"} \cup (IF st.ime = "Disabled" THEN {"HaltBugPending"} ELSE {}) :
          Makes(<<[Done("Halt", 1) EXCEPT !.halt = h], <<>>>>, <<>>)

(* Only an enabled IME lets an interrupt in; the return address is the next  *)
(* instruction, and IME is off in the handler.                               *)
Dispatch(i) ==
    /\ st.ime = "Enabled" /\ ~ HaltBug
    /\ op' = IrqName[i + 1]
    /\ st' = [Called(st, Vector(i)) EXCEPT !.ime = "Disabled", !.halt = "Running"]
    /\ bus' = PushWord(st.pc)

(* A pending interrupt ends HALT even when IME does not let it in. *)
Wake ==
    /\ st.halt = "Halted" /\ st.ime # "Enabled"
    /\ op' = "Wake" /\ st' = [st EXCEPT !.halt = "Running"] /\ bus' = <<>>

ResetCore == st' = StartState /\ op' = "Reset" /\ bus' = <<>>

Next ==
    \/ st.halt # "Halted" /\ (Instruction \/ Halt)
    \/ \E i \in Irq : Dispatch(i)
    \/ Wake
    \/ ResetCore

Spec == Init /\ [][Next]_isaVars
=============================================================================

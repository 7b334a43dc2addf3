------------------------------ MODULE CpuTypes ------------------------------
(* Data types of the SM83 core: bytes, words, instruction classes and the    *)
(* architectural state (src/cpu/types, decode_types and regs).               *)
(*                                                                           *)
(* The 8-bit byte is a parameter: a byte is 0..ByteMod-1 and a word is a     *)
(* pair of bytes, so ByteMod = 256 is the machine and a small ByteMod is an  *)
(* instance TLC can check.  One 8-bit register (a), one register pair (hl)   *)
(* and one condition (cc, the outcome of the flag test that a conditional    *)
(* instruction makes) stand for the register file.                           *)
EXTENDS Integers

CONSTANTS
    ByteMod,            \* number of values of a byte (256 in the source)
    VectorBase,         \* address of the first interrupt vector (0x40)
    VectorStep,         \* distance between interrupt vectors (8)
    RstVector,          \* target of the modelled RST instruction
    AluVal(_, _),       \* 8-bit result of the arithmetic unit
    AluFlag(_, _)       \* condition after it

Byte == 0 .. ByteMod - 1
WordMod == ByteMod * ByteMod
Word == 0 .. WordMod - 1

ASSUME ByteModAssumption ==
    ByteMod \in Nat /\ ByteMod >= 4 /\ ByteMod % 2 = 0
ASSUME VectorAssumption ==
    VectorBase \in Nat /\ VectorStep \in Nat /\ RstVector \in Word
ASSUME AluAssumption ==
    \A x, y \in Byte : AluVal(x, y) \in Byte /\ AluFlag(x, y) \in BOOLEAN

(* uint<16> arithmetic, and the bytes of a word. *)
Plus(w, n) == (w + n) % WordMod
(* Plausible defect: the decrement does not wrap.                            *)
MinusUnwrapped(w, n) == w - n
Minus(w, n) == (w + WordMod - n) % WordMod
Hi(w) == w \div ByteMod
Lo(w) == w % ByteMod
Pair(h, l) == h * ByteMod + l
SignExtend(b) == IF 2 * b < ByteMod THEN b ELSE b + WordMod - ByteMod
IoAddress(b) == Pair(ByteMod - 1, b)

(* Interrupt sources in priority order: VBlank, LcdStat, Timer, Serial, Joypad. *)
Irq == 0 .. 4
Vector(i) == (VectorBase + VectorStep * i) % WordMod

-----------------------------------------------------------------------------
(* Instruction classes.  Opcodes that the sequencer treats alike are one     *)
(* class: all register-to-register ALU operations are "AluR", every load     *)
(* through BC, DE or 0xFF00+C is "LdAPp", and so on.                         *)

(* Complete in the fetch cycle. *)
FetchOps == {"Nop", "LdRR", "Stop", "Ei", "Di", "JpHl"}
(* First continue with an internal Execute cycle. *)
ExecOps == {"Halt", "LdSpHl", "AluR", "AddHl", "IncHl", "DecHl", "IncSp",
            "DecSp", "Push", "Rst", "RetCc"}
(* Read one immediate byte; the value is the continuation (Imm8Cont). *)
Imm8Cont ==
    [LdRN |-> "LoadReg8", LdHlN |-> "StoreToHl", LdhR |-> "IoOffsetReadA",
     LdhW |-> "IoOffsetWriteA", AluN |-> "AluImm8", Jr |-> "RelativeJump",
     JrCc |-> "RelativeJump", AddSp |-> "AddSpDisp", LdHlSp |-> "LoadHlSpDisp"]
Imm8Ops == DOMAIN Imm8Cont
(* Read a two-byte immediate (Imm16Cont). *)
Imm16Cont ==
    [LdRrNn |-> "LoadRegPair", LdSpNn |-> "LoadRegPair", Jp |-> "JumpAbs",
     JpCc |-> "JumpAbs", Call |-> "CallTarget", CallCc |-> "CallTarget",
     LdANn |-> "ReadAddrToA", LdNnA |-> "WriteAToAddr", LdNnSp |-> "StoreSpToAddr"]
Imm16Ops == DOMAIN Imm16Cont
(* Read the byte at (hl) first (ReadCont); IncMem is INC/DEC (HL). *)
ReadHlCont ==
    [LdRHl |-> "LoadReg8", LdAHli |-> "LoadReg8", LdAHld |-> "LoadReg8",
     LdAPp |-> "LoadAFromAddr", AluHl |-> "AluFromMem", IncMem |-> "AluFromMem"]
ReadHlOps == DOMAIN ReadHlCont
(* Write a at (hl). *)
WriteHlOps == {"LdHlR", "LdHliA", "LdHldA"}
(* Read the low byte at (sp) first; RetLo is PopLo with the SP marker pair. *)
PopCont == [Pop |-> "PopLo", Ret |-> "RetLo", Reti |-> "RetLo"]
PopOps == DOMAIN PopCont
(* CB-prefixed: register operand, BIT on (hl), read-modify-write on (hl). *)
CbOps == {"CbR", "CbBit", "CbRmw"}

Ops == FetchOps \cup ExecOps \cup Imm8Ops \cup Imm16Ops \cup ReadHlOps
         \cup WriteHlOps \cup PopOps \cup {"Cb"}
AllOps == Ops \cup CbOps

CondOps == {"JrCc", "JpCc", "CallCc", "RetCc"}

ImeState == {"Disabled", "PendingEnable", "Enabled"}
HaltState == {"Running", "Halted", "HaltBugPending"}

(* CpuArchState: the programmer-visible state. *)
ArchState == [pc : Word, sp : Word, hl : Word, a : Byte, cc : BOOLEAN,
              ime : ImeState, halt : HaltState]

(* One bus transaction (BusReq with the data that was transferred). *)
Read(ad, d) == [kind |-> "Read", addr |-> ad, data |-> d]
Write(ad, d) == [kind |-> "Write", addr |-> ad, data |-> d]
=============================================================================

-------------------------------- MODULE Alu ---------------------------------
(* Bytes, words and the operations on their bits, and with them the          *)
(* arithmetic unit of the core as the hardware computes it                   *)
(* (src/cpu/alu.spade): every operation is a combinational function of its   *)
(* operands and the previous flags.                                          *)
EXTENDS Integers

Bytes == 0 .. 255
Words == 0 .. 65535

Low8(n) == n % 256
Low12(n) == n % 4096
Low16(n) == n % 65536
(* Both nibbles of a byte. *)
LowNibble(b) == b % 16
HighNibble(b) == b \div 16

HighByte(w) == w \div 256
WordOf(h, l) == h * 256 + l
(* The signed value of a displacement byte. *)
Signed(b) == IF b < 128 THEN b ELSE b - 256

BitWeight == <<1, 2, 4, 8, 16, 32, 64, 128>>
BitOf(b, i) == (b \div BitWeight[i + 1]) % 2 = 1

(* The byte whose bit i is set exactly when Set(i). *)
ByteOf(Set(_)) ==
    LET w(i) == IF Set(i) THEN BitWeight[i + 1] ELSE 0
    IN w(0) + w(1) + w(2) + w(3) + w(4) + w(5) + w(6) + w(7)
AndBytes(x, y) == LET both(i) == BitOf(x, i) /\ BitOf(y, i) IN ByteOf(both)
OrBytes(x, y)  == LET any(i) == BitOf(x, i) \/ BitOf(y, i) IN ByteOf(any)
XorBytes(x, y) == LET one(i) == BitOf(x, i) # BitOf(y, i) IN ByteOf(one)
WithBit(b, i, set) ==
    LET bit(j) == IF j = i THEN set ELSE BitOf(b, j) IN ByteOf(bit)

(* The four flags, and a result together with the flags it sets. *)
FlagSet == [z : BOOLEAN, n : BOOLEAN, h : BOOLEAN, c : BOOLEAN]
Flags(zf, nf, hf, cf) == [z |-> zf, n |-> nf, h |-> hf, c |-> cf]
Result(v, f) == [value |-> v, flags |-> f]
CarryOf(c) == IF c THEN 1 ELSE 0
-----------------------------------------------------------------------------

Adc8Result(a, b, carry) ==
    LET raw == a + b + CarryOf(carry)
    IN Result(Low8(raw), Flags(Low8(raw) = 0, FALSE,
              LowNibble(a) + LowNibble(b) + CarryOf(carry) > 15, raw > 255))

(* Plausible defect: the borrow that came in is left out of the half carry.  *)
Sbc8HalfIgnoresCarry(a, b, carry) ==
    LET v == Low8(Low8(a - b) - CarryOf(carry))
    IN Result(v, Flags(v = 0, TRUE, LowNibble(a) < LowNibble(b),
                       IF carry THEN a <= b ELSE a < b))

(* The borrow goes into the comparisons: with it, equal operands borrow too. *)
Sbc8Result(a, b, carry) ==
    LET v == Low8(Low8(a - b) - CarryOf(carry))
    IN Result(v, Flags(v = 0, TRUE,
              IF carry THEN LowNibble(a) <= LowNibble(b) ELSE LowNibble(a) < LowNibble(b),
              IF carry THEN a <= b ELSE a < b))

Cp8Result(a, b) == Result(a, Sbc8Result(a, b, FALSE).flags)

LogicResult(v, half) == Result(v, Flags(v = 0, FALSE, half, FALSE))
And8Result(a, b) == LogicResult(AndBytes(a, b), TRUE)
Or8Result(a, b)  == LogicResult(OrBytes(a, b), FALSE)
Xor8Result(a, b) == LogicResult(XorBytes(a, b), FALSE)

Inc8Result(x, f) ==
    LET v == Low8(x + 1) IN Result(v, Flags(v = 0, FALSE, LowNibble(x) + 1 > 15, f.c))
Dec8Result(x, f) ==
    LET v == Low8(x - 1) IN Result(v, Flags(v = 0, TRUE, LowNibble(x) = 0, f.c))

Add16Result(a, b, z) ==
    Result(Low16(a + b), Flags(z, FALSE, Low12(a) + Low12(b) > 4095, a + b > 65535))
(* The displacement is sign-extended to a word; the flags are those of the   *)
(* unsigned addition of the low bytes.                                       *)
AddSpE8Result(sp, off) ==
    Result(Low16(sp + (IF off < 128 THEN off ELSE 65280 + off)),
           Flags(FALSE, FALSE, LowNibble(sp) + LowNibble(off) > 15, Low8(sp) + off > 255))

(* Plausible defect: the correction is added after a subtraction too.        *)
DaaIgnoresN(a, f) ==
    LET low == IF f.h \/ (~ f.n /\ LowNibble(a) > 9) THEN 6 ELSE 0
        high == IF f.c \/ (~ f.n /\ a > 153) THEN 96 ELSE 0
        v == Low8(a + low + high)
    IN Result(v, Flags(v = 0, f.n, FALSE, f.c \/ (~ f.n /\ a > 153)))

DaaResult(a, f) ==
    LET low == IF f.h \/ (~ f.n /\ LowNibble(a) > 9) THEN 6 ELSE 0
        high == IF f.c \/ (~ f.n /\ a > 153) THEN 96 ELSE 0
        v == Low8(IF f.n THEN a - (low + high) ELSE a + low + high)
    IN Result(v, Flags(v = 0, f.n, FALSE, f.c \/ (~ f.n /\ a > 153)))

CplResult(a, f) == Result(255 - a, Flags(f.z, TRUE, TRUE, f.c))
ScfResult(f) == Result(0, Flags(f.z, FALSE, FALSE, TRUE))
CcfResult(f) == Result(0, Flags(f.z, FALSE, FALSE, ~ f.c))

RotKinds == {"Rlc", "Rrc", "Rl", "Rr", "Sla", "Sra", "Srl", "Swap"}
(* Left rotations and shifts lose bit 7, right ones bit 0; what they take in *)
(* at the other end tells them apart.                                        *)
RotShiftResult(kind, x, f, zero) ==
    LET left(in) == Low8(2 * x) + CarryOf(in)
        right(in) == x \div 2 + 128 * CarryOf(in)
        v == CASE kind = "Rlc" -> left(BitOf(x, 7))
               [] kind = "Rl"  -> left(f.c)
               [] kind = "Sla" -> left(FALSE)
               [] kind = "Rrc" -> right(BitOf(x, 0))
               [] kind = "Rr"  -> right(f.c)
               [] kind = "Sra" -> right(BitOf(x, 7))
               [] kind = "Srl" -> right(FALSE)
               [] kind = "Swap" -> 16 * LowNibble(x) + HighNibble(x)
        out == CASE kind \in {"Rlc", "Rl", "Sla"} -> BitOf(x, 7)
                 [] kind \in {"Rrc", "Rr", "Sra", "Srl"} -> BitOf(x, 0)
                 [] kind = "Swap" -> FALSE
    IN Result(v, Flags(zero /\ v = 0, FALSE, FALSE, out))

BitResSetResult(kind, i, x, f) ==
    CASE kind = "Bit" -> Result(x, Flags(~ BitOf(x, i), FALSE, TRUE, f.c))
      [] kind = "Res" -> Result(WithBit(x, i, FALSE), f)
      [] kind = "Set" -> Result(WithBit(x, i, TRUE), f)

(* What execute_alu_delta asks for: only ADC and SBC pass the carry on.      *)
AluKinds == {"Add", "Adc", "Sub", "Sbc", "And", "Xor", "Or", "Cp", "Inc", "Dec"}
AluRequest(kind, a, b, f) ==
    CASE kind = "Add" -> Adc8Result(a, b, FALSE)
      [] kind = "Adc" -> Adc8Result(a, b, f.c)
      [] kind = "Sub" -> Sbc8Result(a, b, FALSE)
      [] kind = "Sbc" -> Sbc8Result(a, b, f.c)
      [] kind = "And" -> And8Result(a, b)
      [] kind = "Xor" -> Xor8Result(a, b)
      [] kind = "Or"  -> Or8Result(a, b)
      [] kind = "Cp"  -> Cp8Result(a, b)
      [] kind = "Inc" -> Inc8Result(a, f)
      [] kind = "Dec" -> Dec8Result(a, f)
MiscRequest(kind, a, f) ==
    CASE kind = "Daa" -> DaaResult(a, f)
      [] kind = "Cpl" -> CplResult(a, f)
      [] kind = "Scf" -> ScfResult(f)
      [] kind = "Ccf" -> CcfResult(f)
=============================================================================

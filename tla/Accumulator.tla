---------------------------- MODULE Accumulator -----------------------------
(* The accumulator and the flags of the core under any sequence of           *)
(* arithmetic instructions, as execute_alu_delta, execute_misc_delta and     *)
(* execute_bitop_delta of src/cpu/semantics.spade write them back, and the   *)
(* reference the tests compare values and flags with.                        *)
EXTENDS Alu

CONSTANT Operands   \* bytes the instructions take as second operand
ASSUME OperandsAssumption == Operands \subseteq Bytes

VARIABLES
    acc,        \* register A
    flags       \* register F

accVars == <<acc, flags>>

StartFlags == Flags(TRUE, FALSE, TRUE, TRUE)
AccInit == acc = 1 /\ flags = StartFlags

Keep(result) == acc' = result.value /\ flags' = result.flags
(* CP, BIT, SCF and CCF leave the accumulator alone. *)
KeepFlags(f) == acc' = acc /\ flags' = f

AluStep == \E kind \in AluKinds, b \in Operands : Keep(AluRequest(kind, acc, b, flags))
MiscStep ==
    \/ \E kind \in {"Daa", "Cpl"} : Keep(MiscRequest(kind, acc, flags))
    \/ \E kind \in {"Scf", "Ccf"} : KeepFlags(MiscRequest(kind, acc, flags).flags)
RotateStep ==
    \E kind \in RotKinds, zero \in BOOLEAN : Keep(RotShiftResult(kind, acc, flags, zero))
BitStep ==
    \E kind \in {"Bit", "Res", "Set"}, i \in 0 .. 7 : Keep(BitResSetResult(kind, i, acc, flags))

AccNext == AluStep \/ MiscStep \/ RotateStep \/ BitStep
AccSpec == AccInit /\ [][AccNext]_accVars
-----------------------------------------------------------------------------
(* The reference, one operator per policy function of spec/flag_policies.py. *)

add8(a, b) ==
    Result(Low8(a + b), Flags(Low8(a + b) = 0, FALSE, LowNibble(a) + LowNibble(b) > 15, a + b > 255))
adc8(a, b, carry) ==
    LET raw == a + b + CarryOf(carry)
    IN Result(Low8(raw), Flags(Low8(raw) = 0, FALSE,
              LowNibble(a) + LowNibble(b) + CarryOf(carry) > 15, raw > 255))
sub8(a, b) ==
    Result(Low8(a - b), Flags(Low8(a - b) = 0, TRUE, LowNibble(a) < LowNibble(b), a < b))
(* The borrow is part of the subtrahend, which may be 256. *)
sbc8(a, b, carry) ==
    LET subtrahend == b + CarryOf(carry)
    IN Result(Low8(a - subtrahend), Flags(Low8(a - subtrahend) = 0, TRUE,
              LowNibble(a) < LowNibble(b) + CarryOf(carry), a < subtrahend))
cp8(a, b) == Result(a, sub8(a, b).flags)

and8(a, b) == LET v == AndBytes(a, b) IN Result(v, Flags(v = 0, FALSE, TRUE, FALSE))
or8(a, b)  == LET v == OrBytes(a, b) IN Result(v, Flags(v = 0, FALSE, FALSE, FALSE))
xor8(a, b) == LET v == XorBytes(a, b) IN Result(v, Flags(v = 0, FALSE, FALSE, FALSE))

inc8(x, carry) ==
    Result(Low8(x + 1), Flags(Low8(x + 1) = 0, FALSE, LowNibble(x) + 1 > 15, carry))
dec8(x, carry) ==
    Result(Low8(x - 1), Flags(Low8(x - 1) = 0, TRUE, LowNibble(x) = 0, carry))

(* After a subtraction the flags alone decide; after an addition the digits  *)
(* do as well, and a correction of the tens is a carry.                      *)
daa(x, f) ==
    IF f.n
    THEN LET v == Low8(x - ((IF f.h THEN 6 ELSE 0) + (IF f.c THEN 96 ELSE 0)))
         IN Result(v, Flags(v = 0, TRUE, FALSE, f.c))
    ELSE LET tens == f.c \/ x > 153
             units == f.h \/ LowNibble(x) > 9
             v == Low8(x + (IF units THEN 6 ELSE 0) + (IF tens THEN 96 ELSE 0))
         IN Result(v, Flags(v = 0, FALSE, FALSE, tens))

add16_hl(hl, operand, z) ==
    Result(Low16(hl + operand),
           Flags(z, FALSE, Low12(hl) + Low12(operand) > 4095, hl + operand > 65535))
add_sp_e8(sp, offset) ==
    Result(Low16(sp + Signed(offset)),
           Flags(FALSE, FALSE, LowNibble(sp) + LowNibble(offset) > 15, Low8(sp) + offset > 255))

Rotated(v, zero, out) == Result(v, Flags(zero /\ v = 0, FALSE, FALSE, out))
rlc8(x, zero) == Rotated(Low8(2 * x) + x \div 128, zero, x >= 128)
rrc8(x, zero) == Rotated(x \div 2 + 128 * (x % 2), zero, x % 2 = 1)
rl8(x, carry, zero) == Rotated(Low8(2 * x) + CarryOf(carry), zero, x >= 128)
rr8(x, carry, zero) == Rotated(x \div 2 + 128 * CarryOf(carry), zero, x % 2 = 1)
sla8(x) == Rotated(Low8(2 * x), TRUE, x >= 128)
sra8(x) == Rotated(x \div 2 + (IF x >= 128 THEN 128 ELSE 0), TRUE, x % 2 = 1)
srl8(x) == Rotated(x \div 2, TRUE, x % 2 = 1)
swap8(x) == Rotated(HighNibble(x) + 16 * LowNibble(x), TRUE, FALSE)

bit_test(x, i, carry) == Result(x, Flags(~ BitOf(x, i), FALSE, TRUE, carry))
scf(z) == Flags(z, FALSE, FALSE, TRUE)
ccf(z, carry) == Flags(z, FALSE, FALSE, ~ carry)
cpl(x, z, carry) == Result(255 - x, Flags(z, TRUE, TRUE, carry))
-----------------------------------------------------------------------------
AccTypeOK == acc \in Bytes /\ flags \in FlagSet

(* Decimal bytes: two digits, the tens in the high nibble.                   *)
Digits == 0 .. 9
IsDecimal(b) == LowNibble(b) \in Digits /\ HighNibble(b) \in Digits
ValueOf(b) == 10 * HighNibble(b) + LowNibble(b)
DecimalOf(n) == 16 * (n \div 10) + (n % 10)
Adjusted(result) == DaaResult(result.value, result.flags)

(* The unit and the reference of the tests give the same value and the same  *)
(* flags for every operation, on the operands the machine meets (alu.spade   *)
(* and FLAG_POLICY_FUNCTIONS compute borrows, half carries and the decimal   *)
(* adjustment in different ways).                                            *)
ArithmeticAgrees(a, b, f) ==
    /\ AluRequest("Add", a, b, f) = add8(a, b)
    /\ AluRequest("Adc", a, b, f) = adc8(a, b, f.c)
    /\ AluRequest("Sub", a, b, f) = sub8(a, b)
    /\ AluRequest("Sbc", a, b, f) = sbc8(a, b, f.c)
    /\ AluRequest("Cp", a, b, f)  = cp8(a, b)
    /\ AluRequest("And", a, b, f) = and8(a, b)
    /\ AluRequest("Xor", a, b, f) = xor8(a, b)
    /\ AluRequest("Or", a, b, f)  = or8(a, b)
UnaryAgrees(a, f) ==
    /\ AluRequest("Inc", a, a, f) = inc8(a, f.c)
    /\ AluRequest("Dec", a, a, f) = dec8(a, f.c)
    /\ MiscRequest("Daa", a, f) = daa(a, f)
    /\ MiscRequest("Cpl", a, f) = cpl(a, f.z, f.c)
    /\ MiscRequest("Scf", a, f).flags = scf(f.z)
    /\ MiscRequest("Ccf", a, f).flags = ccf(f.z, f.c)
RotationsAgree(a, f) ==
    /\ \A zero \in BOOLEAN :
          /\ RotShiftResult("Rlc", a, f, zero) = rlc8(a, zero)
          /\ RotShiftResult("Rrc", a, f, zero) = rrc8(a, zero)
          /\ RotShiftResult("Rl", a, f, zero)  = rl8(a, f.c, zero)
          /\ RotShiftResult("Rr", a, f, zero)  = rr8(a, f.c, zero)
    /\ RotShiftResult("Sla", a, f, TRUE) = sla8(a)
    /\ RotShiftResult("Sra", a, f, TRUE) = sra8(a)
    /\ RotShiftResult("Srl", a, f, TRUE) = srl8(a)
    /\ RotShiftResult("Swap", a, f, TRUE) = swap8(a)
    /\ \A i \in 0 .. 7 : BitResSetResult("Bit", i, a, f) = bit_test(a, i, f.c)
WordsAgree(v, w, b, f) ==
    /\ Add16Result(v, w, f.z) = add16_hl(v, w, f.z)
    /\ AddSpE8Result(v, b) = add_sp_e8(v, b)
FlagsAgree ==
    /\ \A b \in Operands :
          ArithmeticAgrees(acc, b, flags) /\ WordsAgree(WordOf(acc, b), WordOf(b, acc), b, flags)
    /\ UnaryAgrees(acc, flags)
    /\ RotationsAgree(acc, flags)

(* Decimal arithmetic works: after ADC or SBC of decimal bytes, with or      *)
(* without a carry, DAA leaves the decimal sum or difference, and the carry  *)
(* to continue with (daa_result of alu.spade after adc8_result or            *)
(* sbc8_result).                                                             *)
DecimalAdd(a, b, carry) ==
    LET total == ValueOf(a) + ValueOf(b) + CarryOf(carry)
        r == Adjusted(Adc8Result(a, b, carry))
    IN r.value = DecimalOf(total % 100) /\ r.flags.c = (total >= 100)
DecimalSub(a, b, carry) ==
    LET rest == ValueOf(a) - ValueOf(b) - CarryOf(carry)
        r == Adjusted(Sbc8Result(a, b, carry))
    IN r.value = DecimalOf(rest % 100) /\ r.flags.c = (rest < 0)
DecimalArithmetic ==
    IsDecimal(acc) =>
        \A b \in Bytes : IsDecimal(b) =>
            DecimalAdd(acc, b, flags.c) /\ DecimalSub(acc, b, flags.c)
=============================================================================

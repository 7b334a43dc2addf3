--------------------------- MODULE CpuTraceProofs ---------------------------
(* The sequencer implements the instruction set and the core of the          *)
(* interrupt system, and keeps the times of the opcode table.                *)
EXTENDS CpuTrace, CpuProofs, SequenceTheorems

(* What a sequence is with one more element.                                 *)
LEMMA Extended ==
    ASSUME NEW S, NEW s \in Seq(S), NEW x \in S, NEW u \in Seq(S),
           Len(u) = Len(s) + 1, u[Len(s) + 1] = x,
           \A i \in 1 .. Len(s) : u[i] = s[i]
    PROVE  s \o <<x>> = u
<1>1. /\ Append(s, x) \in Seq(S) /\ Len(Append(s, x)) = Len(s) + 1
      /\ Append(s, x)[Len(s) + 1] = x /\ \A i \in 1 .. Len(s) : Append(s, x)[i] = s[i]
  BY AppendProperties
<1>2. Len(s) \in Nat /\ \A i \in 1 .. Len(s) + 1 : i \in 1 .. Len(s) \/ i = Len(s) + 1
  BY LenProperties
<1>3. \A i \in 1 .. Len(u) : Append(s, x)[i] = u[i]
  BY <1>1, <1>2
<1>4. Append(s, x) = u
  BY <1>1, <1>3, SeqEqual
<1> QED
  BY <1>4, AppendIsConcat

(* The transactions of an instruction, one after the other.                  *)
LEMMA Concatenations ==
    \A a, b, c, d, e :
       /\ <<a>> \o <<b>> = <<a, b>> /\ <<a>> \o <<b, c>> = <<a, b, c>>
       /\ <<a, b>> \o <<c>> = <<a, b, c>> /\ <<a, b>> \o <<c, d>> = <<a, b, c, d>>
       /\ <<a, b, c>> \o <<d>> = <<a, b, c, d>>
       /\ <<a, b, c>> \o <<d, e>> = <<a, b, c, d, e>>
       /\ <<a, b, c, d>> \o <<e>> = <<a, b, c, d, e>>
       /\ << >> \o << >> = << >> /\ << >> \o <<a>> = <<a>> /\ <<a>> \o << >> = <<a>>
       /\ <<a, b>> \o << >> = <<a, b>> /\ <<a, b, c>> \o << >> = <<a, b, c>>
       /\ <<a, b, c, d>> \o << >> = <<a, b, c, d>>
       /\ Append(<<a>>, b) = <<a, b>>
<1> TAKE a, b, c, d, e
<1> DEFINE S == {a, b, c, d, e}
           s1 == <<a>>
           s2 == <<a, b>>
           s3 == <<a, b, c>>
           s4 == <<a, b, c, d>>
           s5 == <<a, b, c, d, e>>
<1>1. /\ s1 \in Seq(S) /\ s2 \in Seq(S) /\ s3 \in Seq(S) /\ s4 \in Seq(S) /\ s5 \in Seq(S)
      /\ <<b>> \in Seq(S) /\ <<c>> \in Seq(S) /\ <<d>> \in Seq(S) /\ <<e>> \in Seq(S)
      /\ << >> \in Seq(S) /\ b \in S /\ c \in S /\ d \in S /\ e \in S
  OBVIOUS
<1>2. Len(s1) = 1 /\ Len(s2) = 2 /\ Len(s3) = 3 /\ Len(s4) = 4 /\ Len(s5) = 5
  OBVIOUS
<1>3. /\ s2[1 + 1] = b /\ s3[2 + 1] = c /\ s4[3 + 1] = d /\ s5[4 + 1] = e
      /\ s2[1] = s1[1]
      /\ s3[1] = s2[1] /\ s3[2] = s2[2]
      /\ s4[1] = s3[1] /\ s4[2] = s3[2] /\ s4[3] = s3[3]
      /\ s5[1] = s4[1] /\ s5[2] = s4[2] /\ s5[3] = s4[3] /\ s5[4] = s4[4]
  OBVIOUS
<1>4. <<b>> \o <<c>> = <<b, c>> /\ <<c>> \o <<d>> = <<c, d>> /\ <<d>> \o <<e>> = <<d, e>>
  <2>1. ASSUME NEW x, NEW y PROVE <<x>> \o <<y>> = <<x, y>>
    <3> DEFINE U == {x, y}
               u1 == <<x>>
               u2 == <<x, y>>
    <3>1. /\ u1 \in Seq(U) /\ u2 \in Seq(U) /\ y \in U /\ Len(u1) = 1 /\ Len(u2) = 1 + 1
          /\ u2[1 + 1] = y /\ u2[1] = u1[1]
      OBVIOUS
    <3> HIDE DEF U, u1, u2
    <3>2. /\ Len(u2) = Len(u1) + 1 /\ u2[Len(u1) + 1] = y
          /\ \A i \in 1 .. Len(u1) : u2[i] = u1[i]
      BY <3>1
    <3>3. u1 \o <<y>> = u2
      BY <3>1, <3>2, Extended
    <3> QED BY <3>3 DEF u1, u2
  <2> QED BY <2>1
<1> HIDE DEF S, s1, s2, s3, s4, s5
<1>5. /\ Len(s2) = Len(s1) + 1 /\ s2[Len(s1) + 1] = b /\ \A i \in 1 .. Len(s1) : s2[i] = s1[i]
      /\ Len(s3) = Len(s2) + 1 /\ s3[Len(s2) + 1] = c /\ \A i \in 1 .. Len(s2) : s3[i] = s2[i]
      /\ Len(s4) = Len(s3) + 1 /\ s4[Len(s3) + 1] = d /\ \A i \in 1 .. Len(s3) : s4[i] = s3[i]
      /\ Len(s5) = Len(s4) + 1 /\ s5[Len(s4) + 1] = e /\ \A i \in 1 .. Len(s4) : s5[i] = s4[i]
  BY <1>2, <1>3
<1>6. s1 \o <<b>> = s2 /\ s2 \o <<c>> = s3 /\ s3 \o <<d>> = s4 /\ s4 \o <<e>> = s5
  BY <1>1, <1>5, Extended
<1>7. /\ s1 \o (<<b>> \o <<c>>) = s3 /\ s2 \o (<<c>> \o <<d>>) = s4 /\ s3 \o (<<d>> \o <<e>>) = s5
  <2>1. (s1 \o <<b>>) \o <<c>> = s1 \o (<<b>> \o <<c>>)
    BY <1>1, ConcatAssociative
  <2>2. (s2 \o <<c>>) \o <<d>> = s2 \o (<<c>> \o <<d>>)
    BY <1>1, ConcatAssociative
  <2>3. (s3 \o <<d>>) \o <<e>> = s3 \o (<<d>> \o <<e>>)
    BY <1>1, ConcatAssociative
  <2> QED BY <2>1, <2>2, <2>3, <1>6
<1>8. s1 \o <<b, c>> = s3 /\ s2 \o <<c, d>> = s4 /\ s3 \o <<d, e>> = s5
  BY <1>4, <1>7
<1>9. /\ << >> \o << >> = << >> /\ << >> \o s1 = s1 /\ s1 \o << >> = s1
      /\ s2 \o << >> = s2 /\ s3 \o << >> = s3 /\ s4 \o << >> = s4
  BY <1>1, ConcatEmptySeq
<1>10. Append(s1, b) = s2
  BY <1>1, <1>6, AppendIsConcat
<1> QED
  BY <1>6, <1>8, <1>9, <1>10 DEF s1, s2, s3, s4, s5

(* A remainder, of a number that fits and of one that wraps around once.     *)
LEMMA Wrapped ==
    ASSUME NEW m \in Nat, m > 0, NEW x \in Nat, x < m
    PROVE  x % m = x /\ (x + m) % m = x
OBVIOUS

(* Counting up a little wraps around at most once.                           *)
LEMMA PlusIs ==
    ASSUME NEW m \in Nat, m >= 16, NEW w \in Nat, w < m, NEW n \in 0 .. 3
    PROVE  /\ w + n < m => (w + n) % m = w + n
           /\ ~ (w + n < m) => (w + n) % m = w + n - m
<1>1. CASE w + n < m
  BY <1>1, Wrapped
<1>2. CASE ~ (w + n < m)
  <2> DEFINE x == w + n - m
  <2>1. x \in Nat /\ x < m /\ x + m = w + n
    BY <1>2
  <2> HIDE DEF x
  <2>2. (x + m) % m = x
    BY <2>1, Wrapped
  <2> QED BY <2>1, <2>2, <1>2
<1> QED BY <1>1, <1>2

(* So does counting down.                                                    *)
LEMMA MinusIs ==
    ASSUME NEW m \in Nat, m >= 16, NEW w \in Nat, w < m, NEW n \in 0 .. 3
    PROVE  /\ w >= n => (w + m - n) % m = w - n
           /\ ~ (w >= n) => (w + m - n) % m = w + m - n
<1>1. CASE w >= n
  <2> DEFINE x == w - n
  <2>1. x \in Nat /\ x < m /\ x + m = w + m - n
    BY <1>1
  <2> HIDE DEF x
  <2>2. (x + m) % m = x
    BY <2>1, Wrapped
  <2> QED BY <2>1, <2>2, <1>1
<1>2. CASE ~ (w >= n)
  <2> DEFINE x == w + m - n
  <2>1. x \in Nat /\ x < m
    BY <1>2
  <2> HIDE DEF x
  <2>2. x % m = x
    BY <2>1, Wrapped
  <2> QED BY <2>2, <1>2 DEF x
<1> QED BY <1>1, <1>2

(* Counting one further is counting by one more.                             *)
LEMMA PlusPlus ==
    ASSUME NEW m \in Nat, m >= 16, NEW w \in Nat, w < m, NEW n \in 0 .. 2
    PROVE  (((w + n) % m) + 1) % m = (w + (n + 1)) % m
<1>1. n \in 0 .. 3 /\ n + 1 \in 0 .. 3 /\ 1 \in 0 .. 3
  OBVIOUS
<1>2. CASE w + n < m
  <2>1. (w + n) % m = w + n
    BY <1>1, <1>2, PlusIs
  <2>2. (w + n) + 1 = w + (n + 1)
    OBVIOUS
  <2> QED BY <2>1, <2>2
<1>3. CASE ~ (w + n < m)
  <2> DEFINE x == w + n - m
  <2>1. (w + n) % m = x
    BY <1>1, <1>3, PlusIs
  <2>2. (w + (n + 1)) % m = w + (n + 1) - m
    BY <1>1, <1>3, PlusIs
  <2>3. x \in Nat /\ x + 1 < m /\ x < m /\ x + 1 = w + (n + 1) - m
    BY <1>3
  <2> HIDE DEF x
  <2>4. (x + 1) % m = x + 1
    BY <1>1, <2>3, PlusIs
  <2> QED BY <2>1, <2>2, <2>3, <2>4
<1> QED BY <1>2, <1>3

(* Counting down by one twice is counting down by two.                       *)
LEMMA MinusMinus ==
    ASSUME NEW m \in Nat, m >= 16, NEW w \in Nat, w < m
    PROVE  (((w + m - 1) % m) + m - 1) % m = (w + m - 2) % m
<1>1. 1 \in 0 .. 3 /\ 2 \in 0 .. 3
  OBVIOUS
<1>2. CASE w >= 1
  <2> DEFINE x == w - 1
  <2>1. (w + m - 1) % m = x
    BY <1>1, <1>2, MinusIs
  <2>2. x + m - 1 = w + m - 2
    BY <1>2
  <2> QED BY <2>1, <2>2
<1>3. CASE w = 0
  <2> DEFINE x == m - 1
  <2>1. (w + m - 1) % m = w + m - 1 /\ (w + m - 2) % m = w + m - 2
    BY <1>1, <1>3, MinusIs
  <2>2. x \in Nat /\ x < m /\ x >= 1 /\ w + m - 1 = x /\ w + m - 2 = x - 1
    BY <1>3
  <2> HIDE DEF x
  <2>3. (x + m - 1) % m = x - 1
    BY <2>2, <1>1, MinusIs
  <2> QED BY <2>1, <2>2, <2>3
<1> QED BY <1>2, <1>3

(* Consecutive words: the bytes of an instruction, the bytes of a push.      *)
LEMMA Counting ==
    ASSUME NEW w \in Word
    PROVE  /\ Plus(w, 0) = w
           /\ Plus(Plus(w, 0), 1) = Plus(w, 1)
           /\ Plus(Plus(w, 1), 1) = Plus(w, 2)
           /\ Plus(Plus(w, 2), 1) = Plus(w, 3)
           /\ Minus(Minus(w, 1), 1) = Minus(w, 2)
<1>1. PICK m \in Nat : m = WordMod /\ m >= 16
  BY WordModNat
<1>2. w \in Nat /\ w < m
  BY <1>1 DEF Word
<1>3. \A n \in 0 .. 2 : (((w + n) % m) + 1) % m = (w + (n + 1)) % m
  BY <1>1, <1>2, PlusPlus
<1>4. (((w + m - 1) % m) + m - 1) % m = (w + m - 2) % m
  BY <1>1, <1>2, MinusMinus
<1>5. (w + 0) % m = w
  BY <1>1, <1>2
<1>6. /\ (((w + 0) % m) + 1) % m = (w + 1) % m
      /\ (((w + 1) % m) + 1) % m = (w + 2) % m
      /\ (((w + 2) % m) + 1) % m = (w + 3) % m
  BY <1>3
<1> QED
  BY <1>1, <1>4, <1>5, <1>6 DEF Plus, Minus

(* A byte is its own low byte.                                               *)
LEMMA LoOfByte == ASSUME NEW v \in Byte PROVE Lo(v) = v
<1>1. PICK m \in Nat : m = ByteMod /\ m > 0
  BY ByteModAssumption
<1>2. v \in Nat /\ v < m
  BY <1>1 DEF Byte
<1>3. v % m = v
  BY <1>1, <1>2
<1> QED BY <1>1, <1>3 DEF Lo

(* The instruction in progress has fetched n bytes and so far changed the    *)
(* program counter, perhaps the stack pointer and the condition.             *)
Ran(n, sp, cc) ==
    /\ arch.pc = Machine!After(n) /\ arch.sp = sp /\ arch.cc = cc
    /\ arch.hl = st.hl /\ arch.a = st.a /\ arch.ime = st.ime /\ arch.halt = "Running"

(* It has made the transactions trs, in n cycles.                            *)
Made(trs, n) == log = trs /\ cycles = n

(* The reads of the opcode and of operand byte d at offset n.                *)
Opcode == Read(st.pc, 0)
Operand(n, d) == Read(Machine!After(n), d)

(* Between instructions the recorded state is that of the core.              *)
AtBoundary ==
    InstructionComplete(micro.phase) => arch = st /\ Made(<<>>, 0)

(* Only an interrupt ends HALT.                                              *)
InInstruction ==
    micro.phase.n \notin {"Fetch", "Halted", "ServiceInterrupt"} => st.halt # "Halted"

(* The prefix byte has been read, the opcode after it has not.               *)
AfterPrefix ==
    micro.phase.n = "FetchPrefix" =>
        micro.decoded = "Cb" /\ Ran(1, st.sp, st.cc) /\ Made(<<Opcode>>, 1)

(* Before the only operand byte, and before each of two.                     *)
InImmediate ==
    /\ micro.phase.n \in {"ReadImm8", "ReadImm16Lo"} =>
          Ran(1, st.sp, st.cc) /\ Made(<<Opcode>>, 1)
    /\ micro.phase.n = "ReadImm16Hi" =>
          Ran(2, st.sp, st.cc) /\ Made(<<Opcode, Operand(1, micro.phase.lo)>>, 2)

(* Before a read: of (HL), of an address in the instruction, of the stack.   *)
InRead ==
    LET ph == micro.phase IN
    ph.n = "ReadMem" =>
        /\ ph.k \in {"LoadReg8", "AluFromMem"} \/ micro.decoded = "LdAPp" =>
              Ran(1, st.sp, st.cc) /\ Made(<<Opcode>>, 1) /\ ph.addr = st.hl
        /\ ph.k = "BitOpFromMem" =>
              /\ Ran(2, st.sp, st.cc) /\ Made(<<Opcode, Operand(1, 0)>>, 2)
              /\ ph.addr = st.hl
        /\ micro.decoded = "LdhR" =>
              /\ Ran(2, st.sp, st.cc) /\ Made(<<Opcode, Operand(1, micro.imm_lo)>>, 2)
              /\ ph.addr = IoAddress(micro.imm_lo)
        /\ micro.decoded = "LdANn" =>
              /\ Ran(3, st.sp, st.cc)
              /\ Made(<<Opcode, Operand(1, micro.imm_lo), Operand(2, micro.imm_hi)>>, 3)
              /\ ph.addr = Pair(micro.imm_hi, micro.imm_lo)
        /\ ph.k \in {"PopLo", "RetLo"} =>
              /\ Ran(1, st.sp, st.cc) /\ log = <<Opcode>> /\ ph.addr = st.sp
              /\ micro.decoded # "RetCc" => cycles = 1
              /\ micro.decoded = "RetCc" => cycles = 2 /\ st.cc
        /\ ph.k \in {"PopHi", "RetHi"} =>
              /\ Ran(1, Plus(st.sp, 1), st.cc) /\ log = <<Opcode, Read(st.sp, ph.lo)>>
              /\ ph.addr = Plus(st.sp, 1)
              /\ micro.decoded # "RetCc" => cycles = 2
              /\ micro.decoded = "RetCc" => cycles = 3 /\ st.cc

(* The operands of a CALL and the bytes a return has popped are no longer in *)
(* the latches of the core when they are needed.                             *)
Popped(n) ==
    \E l, v \in Byte :
       /\ Ran(1, Plus(st.sp, 2), st.cc)
       /\ Made(<<Opcode, Read(st.sp, l), Read(Plus(st.sp, 1), v)>>, n)
       /\ micro.temp = Pair(v, l)

(* Before an internal cycle: what the instruction has read, and where it has *)
(* put it.                                                                   *)
InExecute ==
    LET op1 == micro.decoded IN
    micro.phase.n = "Execute" =>
        /\ op1 \in ExecOps \ {"LdSpHl", "RetCc"} => Ran(1, st.sp, st.cc) /\ Made(<<Opcode>>, 1)
        /\ op1 = "LdSpHl" => Ran(1, st.hl, st.cc) /\ Made(<<Opcode>>, 1)
        /\ op1 = "RetCc" /\ micro.imm_hi = 1 => Ran(1, st.sp, st.cc) /\ Made(<<Opcode>>, 1)
        /\ op1 = "RetCc" /\ micro.imm_hi # 1 => Popped(4) /\ st.cc
        /\ op1 \in {"Ret", "Reti"} => Popped(3)
        /\ op1 \in {"AluN", "Jr", "JrCc", "LdHlSp"} \/ (op1 = "AddSp" /\ micro.imm_hi = 0) =>
              Ran(2, st.sp, st.cc) /\ Made(<<Opcode, Operand(1, micro.imm_lo)>>, 2)
        /\ op1 = "AddSp" /\ micro.imm_hi # 0 =>
              /\ Ran(2, st.sp, AluFlag(Lo(st.sp), micro.imm_lo))
              /\ Made(<<Opcode, Operand(1, micro.imm_lo)>>, 3)
              /\ micro.temp = Plus(st.sp, SignExtend(micro.imm_lo))
        /\ op1 \in {"Jp", "JpCc", "Call", "CallCc"} =>
              /\ Ran(3, st.sp, st.cc)
              /\ Made(<<Opcode, Operand(1, micro.imm_lo), Operand(2, micro.imm_hi)>>, 3)
              /\ micro.temp = Pair(micro.imm_hi, micro.imm_lo)
        /\ op1 \in {"AluHl", "IncMem"} =>
              /\ Ran(1, st.sp, st.cc) /\ Made(<<Opcode, Read(st.hl, micro.temp)>>, 2)
              /\ micro.temp \in Byte
        /\ op1 \in CondOps \ {"RetCc"} => st.cc

(* A write as the instruction set has it.                                    *)
Writing(ad, d) == micro.phase.addr = ad /\ micro.phase.data = d

(* An instruction of n bytes has read a byte at HL to write it back changed. *)
Modified(n) ==
    \E l \in Byte :
       /\ Ran(n, st.sp, AluFlag(l, l))
       /\ n = 1 => Made(<<Opcode, Read(st.hl, l)>>, 3)
       /\ n = 2 => Made(<<Opcode, Operand(1, 0), Read(st.hl, l)>>, 3)
       /\ Writing(st.hl, AluVal(l, l))

(* Before the last write of an instruction.                                  *)
InStore ==
    LET op1 == micro.decoded
        ph == micro.phase
    IN
    ph.n = "WriteMem" /\ ph.k = "StoreDone" =>
        /\ op1 \in WriteHlOps =>
              Ran(1, st.sp, st.cc) /\ Made(<<Opcode>>, 1) /\ Writing(st.hl, st.a)
        /\ op1 = "LdHlN" =>
              /\ Ran(2, st.sp, st.cc) /\ Made(<<Opcode, Operand(1, micro.imm_lo)>>, 2)
              /\ Writing(st.hl, micro.imm_lo)
        /\ op1 = "LdhW" =>
              /\ Ran(2, st.sp, st.cc) /\ Made(<<Opcode, Operand(1, micro.imm_lo)>>, 2)
              /\ Writing(IoAddress(micro.imm_lo), st.a)
        /\ op1 = "LdNnA" =>
              /\ Ran(3, st.sp, st.cc)
              /\ Made(<<Opcode, Operand(1, micro.imm_lo), Operand(2, micro.imm_hi)>>, 3)
              /\ Writing(Pair(micro.imm_hi, micro.imm_lo), st.a)
        /\ op1 = "LdNnSp" =>
              LET w == Pair(micro.imm_hi, micro.imm_lo) IN
              /\ Ran(3, st.sp, st.cc)
              /\ Made(<<Opcode, Operand(1, micro.imm_lo), Operand(2, micro.imm_hi),
                        Write(w, Lo(st.sp))>>, 4)
              /\ Writing(Plus(w, 1), Hi(st.sp))
        /\ op1 = "IncMem" => Modified(1)
        /\ op1 = "CbRmw" => Modified(2)
        /\ op1 = "Push" =>
              /\ Ran(1, Minus(st.sp, 1), st.cc)
              /\ Made(<<Opcode, Write(Minus(st.sp, 1), Hi(st.hl))>>, 3)
              /\ Writing(Minus(st.sp, 2), Lo(st.hl))

(* Before the first of the two writes of LD (nn),SP.                         *)
InStoreSp ==
    LET ph == micro.phase
        w == Pair(micro.imm_hi, micro.imm_lo)
    IN
    ph.n = "WriteMem" /\ ph.k = "StoreSpHi" =>
        /\ Ran(3, st.sp, st.cc)
        /\ Made(<<Opcode, Operand(1, micro.imm_lo), Operand(2, micro.imm_hi)>>, 3)
        /\ Writing(w, Lo(st.sp)) /\ ph.lo = Hi(st.sp) /\ ph.aux = Plus(w, 1)

(* Before the first write of PUSH.                                           *)
InPush ==
    LET ph == micro.phase IN
    ph.n = "WriteMem" /\ ph.k = "PushLo" =>
        /\ Ran(1, st.sp, st.cc) /\ Made(<<Opcode>>, 2)
        /\ Writing(Minus(st.sp, 1), Hi(st.hl))
        /\ ph.lo = Lo(st.hl) /\ ph.aux = Minus(st.sp, 2)

(* Before each of the two writes of RST.                                     *)
InRst ==
    LET ph == micro.phase IN
    ph.n = "WriteMem" /\ micro.decoded = "Rst" =>
        /\ micro.temp = RstVector
        /\ ph.k = "PushHi" =>
              /\ Ran(1, st.sp, st.cc) /\ Made(<<Opcode>>, 2)
              /\ Writing(Minus(st.sp, 1), Hi(Machine!After(1)))
              /\ ph.aux = Machine!After(1)
        /\ ph.k = "StoreDone" =>
              /\ Ran(1, Minus(st.sp, 1), st.cc)
              /\ Made(<<Opcode, Write(Minus(st.sp, 1), Hi(Machine!After(1)))>>, 3)
              /\ Writing(Minus(st.sp, 2), Lo(Machine!After(1)))

(* Before each of the two writes of CALL: the high byte of the target is no  *)
(* longer in its latch.                                                      *)
InCall ==
    LET ph == micro.phase IN
    ph.n = "WriteMem" /\ micro.decoded \in {"Call", "CallCc"} =>
        \E h \in Byte :
        /\ micro.decoded = "CallCc" => st.cc
        /\ micro.temp = Pair(h, micro.imm_lo)
        /\ ph.k = "PushHi" =>
              /\ Ran(3, st.sp, st.cc)
              /\ Made(<<Opcode, Operand(1, micro.imm_lo), Operand(2, h)>>, 4)
              /\ Writing(Minus(st.sp, 1), Hi(Machine!After(3)))
              /\ ph.aux = Machine!After(3)
        /\ ph.k = "StoreDone" =>
              /\ Ran(3, Minus(st.sp, 1), st.cc)
              /\ Made(<<Opcode, Operand(1, micro.imm_lo), Operand(2, h),
                        Write(Minus(st.sp, 1), Hi(Machine!After(3)))>>, 5)
              /\ Writing(Minus(st.sp, 2), Lo(Machine!After(3)))

(* During the dispatch of an interrupt, after the decision and before the    *)
(* vector.                                                                   *)
InDispatch ==
    LET ph == micro.phase IN
    ph.n = "ServiceInterrupt" =>
        /\ st.ime = "Enabled" /\ st.halt # "HaltBugPending"
        /\ arch.pc = st.pc /\ arch.hl = st.hl /\ arch.a = st.a /\ arch.cc = st.cc
        /\ arch.ime = "Disabled" /\ arch.halt = "Running"
        /\ ph.k \in {"Delay1", "Delay2", "PushPcHi"} => arch.sp = st.sp /\ log = <<>>
        /\ ph.k = "PushPcLo" =>
              arch.sp = Minus(st.sp, 1) /\ log = <<Write(Minus(st.sp, 1), Hi(st.pc))>>
        /\ ph.k = "Jump" =>
              /\ arch.sp = Minus(st.sp, 2)
              /\ log = <<Write(Minus(st.sp, 1), Hi(st.pc)), Write(Minus(st.sp, 2), Lo(st.pc))>>

(* The inductive invariant: in each phase, what the instruction has fetched  *)
(* and transferred so far, in how many cycles, where its operands are, and   *)
(* which registers it has changed already.                                   *)
TraceInv ==
    /\ st \in ArchState /\ retired \in Nat /\ cycles \in Nat
    /\ AtBoundary /\ InInstruction /\ AfterPrefix /\ InImmediate /\ InRead /\ InExecute
    /\ InStore /\ InStoreSp /\ InPush /\ InRst /\ InCall /\ InDispatch

(* A cycle that completes an instruction leaves the core at a boundary.      *)
LEMMA BoundaryReached ==
    ASSUME TraceInv, CpuTypeOK', NEW tr, NEW o, Record(tr, o),
           InstructionComplete(micro'.phase)
    PROVE  TraceInv' /\ st' = arch' /\ op' = o /\ bus' = log \o tr /\ cycles' = 0
<1>1. /\ st' = arch' /\ op' = o /\ bus' = log \o tr
      /\ log' = <<>> /\ cycles' = 0 /\ retired' = retired + 1
  BY DEF Record
<1>2. st' \in ArchState /\ retired' \in Nat /\ cycles' \in Nat
  BY <1>1 DEF TraceInv, CpuTypeOK
<1>3. AtBoundary'
  BY <1>1 DEF AtBoundary, Made
<1>4. micro'.phase.n \in {"Fetch", "Halted"}
  BY DEF InstructionComplete
<1>5. InInstruction' /\ AfterPrefix' /\ InImmediate' /\ InRead' /\ InExecute'
  BY <1>4 DEF InInstruction, AfterPrefix, InImmediate, InRead, InExecute
<1>6. InStore' /\ InStoreSp' /\ InPush' /\ InRst' /\ InCall' /\ InDispatch'
  BY <1>4 DEF InStore, InStoreSp, InPush, InRst, InCall, InDispatch
<1> QED
  BY <1>1, <1>2, <1>3, <1>5, <1>6 DEF TraceInv

(* A cycle that does not is recorded.                                        *)
LEMMA Recorded ==
    ASSUME TraceInv, NEW tr, NEW o, Record(tr, o), ~ InstructionComplete(micro'.phase)
    PROVE  /\ UNCHANGED <<st, op, bus>> /\ retired' = retired
           /\ log' = log \o tr /\ cycles' = cycles + 1 /\ cycles' \in Nat
BY DEF Record, TraceInv

(* A state of the core is the sum of its registers.                          *)
LEMMA SameArch ==
    ASSUME NEW x \in ArchState, NEW y \in ArchState,
           x.pc = y.pc, x.sp = y.sp, x.hl = y.hl, x.a = y.a, x.cc = y.cc,
           x.ime = y.ime, x.halt = y.halt
    PROVE  x = y
BY DEF ArchState

(* What a read transfers.                                                    *)
LEMMA ReadData ==
    \A ad, d : Reads(d) = <<[BusReq({}) EXCEPT !.data = d]>>
               /\ [Read(ad, 0) EXCEPT !.data = d] = Read(ad, d)
BY DEF Reads, Read

(* The bus request of each phase.                                            *)
LEMMA Requests ==
    /\ \A d : micro.phase.n \in {"Fetch", "FetchPrefix", "ReadImm8", "ReadImm16Lo", "ReadImm16Hi"}
              => Reads(d) = <<Read(arch.pc, d)>>
    /\ \A d : micro.phase.n = "ReadMem" => Reads(d) = <<Read(micro.phase.addr, d)>>
    /\ micro.phase.n = "WriteMem" => Writes = <<Write(micro.phase.addr, micro.phase.data)>>
<1>0. ~ TakesInterrupt({})
  BY DEF TakesInterrupt
<1>1. micro.phase.n \in {"Fetch", "FetchPrefix", "ReadImm8", "ReadImm16Lo", "ReadImm16Hi"}
      => BusReq({}) = Read(arch.pc, 0)
  BY <1>0 DEF BusReq
<1>2. micro.phase.n = "ReadMem" => BusReq({}) = Read(micro.phase.addr, 0)
  BY DEF BusReq
<1>3. micro.phase.n = "WriteMem" => BusReq({}) = Write(micro.phase.addr, micro.phase.data)
  BY DEF BusReq
<1>4. Write(micro.phase.addr, micro.phase.data).kind = "Write"
  BY DEF Write
<1> QED
  BY <1>1, <1>2, <1>3, <1>4, ReadData DEF Writes

(* The instruction set has the data types of the core.                       *)
LEMMA SameWords ==
    /\ Machine!WordMod = WordMod /\ Machine!Byte = Byte /\ Machine!Word = Word
    /\ \A w, n : Machine!Plus(w, n) = Plus(w, n) /\ Machine!Minus(w, n) = Minus(w, n)
    /\ \A w : Machine!Hi(w) = Hi(w) /\ Machine!Lo(w) = Lo(w)
    /\ \A h, l : Machine!Pair(h, l) = Pair(h, l)
    /\ \A b : Machine!SignExtend(b) = SignExtend(b) /\ Machine!IoAddress(b) = IoAddress(b)
    /\ \A ad, d : Machine!Read(ad, d) = Read(ad, d) /\ Machine!Write(ad, d) = Write(ad, d)
    /\ Machine!Irq = Irq /\ \A i : Machine!Vector(i) = Vector(i)
BY DEF Machine!WordMod, WordMod, Machine!Byte, Byte, Machine!Word, Word, Machine!Plus, Plus,
   Machine!Minus, Minus, Machine!Hi, Hi, Machine!Lo, Lo, Machine!Pair, Pair,
   Machine!SignExtend, SignExtend, Machine!IoAddress, IoAddress, Machine!Read, Read,
   Machine!Write, Write, Machine!Irq, Irq, Machine!Vector, Vector

(* And its classes of instructions.                                          *)
LEMMA SameClasses ==
    /\ Machine!Imm8Ops = Imm8Ops /\ Machine!Imm16Ops = Imm16Ops /\ Machine!ReadHlOps = ReadHlOps
    /\ Machine!PopOps = PopOps /\ Machine!WriteHlOps = WriteHlOps /\ Machine!CbOps = CbOps
BY DEF Machine!Imm8Ops, Imm8Ops, Machine!Imm8Cont, Imm8Cont, Machine!Imm16Ops, Imm16Ops,
   Machine!Imm16Cont, Imm16Cont, Machine!ReadHlOps, ReadHlOps, Machine!ReadHlCont, ReadHlCont,
   Machine!PopOps, PopOps, Machine!PopCont, PopCont, Machine!WriteHlOps, WriteHlOps,
   Machine!CbOps, CbOps

(* The state the instruction set starts from does not change in the middle. *)
LEMMA AfterKept ==
    ASSUME st' = st
    PROVE  /\ Machine!After(1)' = Machine!After(1) /\ Machine!After(2)' = Machine!After(2)
           /\ Machine!After(3)' = Machine!After(3)
           /\ Opcode' = Opcode
           /\ \A d : Operand(1, d)' = Operand(1, d) /\ Operand(2, d)' = Operand(2, d)
BY DEF Machine!After, Machine!HaltBug, Opcode, Operand

(* The addresses of the bytes of an instruction follow each other, but for   *)
(* the byte that the HALT bug reads twice.                                   *)
LEMMA Following ==
    ASSUME st \in ArchState
    PROVE  /\ Plus(Machine!After(1), 1) = Machine!After(2)
           /\ Plus(Machine!After(2), 1) = Machine!After(3)
           /\ Machine!HaltBug => Machine!After(1) = st.pc
           /\ ~ Machine!HaltBug => Machine!After(1) = Plus(st.pc, 1)
                                   /\ Machine!After(2) = Plus(st.pc, 2)
           /\ Machine!After(1) \in Word /\ Machine!After(2) \in Word /\ Machine!After(3) \in Word
<1>1. st.pc \in Word
  BY DEF ArchState
<1>2. \A n \in Nat : Plus(st.pc, n) \in Word
  BY <1>1, PlusWord, WordNat
<1>3. /\ Plus(st.pc, 0) = st.pc
      /\ Plus(Plus(st.pc, 0), 1) = Plus(st.pc, 1)
      /\ Plus(Plus(st.pc, 1), 1) = Plus(st.pc, 2)
      /\ Plus(Plus(st.pc, 2), 1) = Plus(st.pc, 3)
  BY <1>1, Counting
<1>4. CASE Machine!HaltBug
  <2>1. /\ Machine!After(1) = Plus(st.pc, 0) /\ Machine!After(2) = Plus(st.pc, 1)
        /\ Machine!After(3) = Plus(st.pc, 2)
    BY <1>4, SameWords DEF Machine!After
  <2> QED BY <1>2, <1>3, <1>4, <2>1
<1>5. CASE ~ Machine!HaltBug
  <2>1. /\ Machine!After(1) = Plus(st.pc, 1) /\ Machine!After(2) = Plus(st.pc, 2)
        /\ Machine!After(3) = Plus(st.pc, 3)
    BY <1>5, SameWords DEF Machine!After
  <2> QED BY <1>2, <1>3, <1>5, <2>1
<1> QED BY <1>4, <1>5

(* In the middle of an instruction only what belongs to the phase is to show. *)
StillRunning ==
    /\ TraceInv /\ st' = st /\ retired' = retired /\ cycles' \in Nat

(* A step to one phase has only the part of the invariant to show that is    *)
(* about that phase: operand bytes,                                          *)
LEMMA ToOperand ==
    ASSUME StillRunning, st.halt # "Halted", AfterPrefix', InImmediate',
           micro'.phase.n \in {"FetchPrefix", "ReadImm8", "ReadImm16Lo", "ReadImm16Hi"}
    PROVE  TraceInv'
BY DEF StillRunning, TraceInv, AtBoundary, InstructionComplete, InInstruction, InRead, InExecute,
   InStore, InStoreSp, InPush, InRst, InCall, InDispatch

(* reads,                                                                    *)
LEMMA ToReadMem ==
    ASSUME StillRunning, st.halt # "Halted", InRead', micro'.phase.n = "ReadMem"
    PROVE  TraceInv'
BY DEF StillRunning, TraceInv, AtBoundary, InstructionComplete, InInstruction, AfterPrefix,
   InImmediate,
   InExecute, InStore, InStoreSp, InPush, InRst, InCall, InDispatch

(* internal cycles,                                                          *)
LEMMA ToExecute ==
    ASSUME StillRunning, st.halt # "Halted", InExecute', micro'.phase.n = "Execute"
    PROVE  TraceInv'
BY DEF StillRunning, TraceInv, AtBoundary, InstructionComplete, InInstruction, AfterPrefix,
   InImmediate,
   InRead, InStore, InStoreSp, InPush, InRst, InCall, InDispatch

(* writes,                                                                   *)
LEMMA ToWriteMem ==
    ASSUME StillRunning, st.halt # "Halted", micro'.phase.n = "WriteMem",
           InStore', InStoreSp', InPush', InRst', InCall'
    PROVE  TraceInv'
BY DEF StillRunning, TraceInv, AtBoundary, InstructionComplete, InInstruction, AfterPrefix,
   InImmediate,
   InRead, InExecute, InDispatch

(* dispatch.                                                                 *)
LEMMA ToService ==
    ASSUME StillRunning, InDispatch', micro'.phase.n = "ServiceInterrupt"
    PROVE  TraceInv'
BY DEF StillRunning, TraceInv, AtBoundary, InstructionComplete, InInstruction, AfterPrefix,
   InImmediate,
   InRead, InExecute, InStore, InStoreSp, InPush, InRst, InCall

(* The state at the end of an instruction before its own effect.             *)
LEMMA DoneState ==
    ASSUME st \in ArchState, NEW o, NEW n \in 1 .. 3
    PROVE  LET end == Machine!Done(o, n) IN
           /\ end \in ArchState
           /\ end.pc = Machine!After(n) /\ end.sp = st.sp /\ end.hl = st.hl /\ end.a = st.a
           /\ end.cc = st.cc /\ end.ime = Machine!ImeAfter(o) /\ end.halt = "Running"
<1>1. Machine!After(n) \in Word
  BY Following
<1>2. Machine!ImeAfter(o) \in ImeState
  <2>1. st.ime \in ImeState
    BY DEF ArchState
  <2> QED BY <2>1 DEF Machine!ImeAfter, ImeState
<1> QED
  BY <1>1, <1>2 DEF Machine!Done, ArchState, HaltState

(* The IME after an instruction that does not write it.                      *)
LEMMA MaturedIme ==
    ASSUME NEW o, o \notin {"Ei", "Di", "Reti"}
    PROVE  /\ st.ime = "PendingEnable" => Machine!ImeAfter(o) = "Enabled"
           /\ st.ime # "PendingEnable" => Machine!ImeAfter(o) = st.ime
BY DEF Machine!ImeAfter

(* What the instruction set says of the instructions that use no memory, one *)
(* by one.                                                                   *)
LEMMA RegisterEffects ==
    LET end == Machine!Done(op', 1) IN
    /\ op' \in {"Nop", "Ei", "Di"} => Machine!RegisterEffect(op') = end
    /\ op' = "LdRR" => Machine!RegisterEffect(op') = [end EXCEPT !.a = Lo(st.hl)]
    /\ op' = "Stop" /\ Machine!HaltBug => Machine!RegisterEffect(op') = end
    /\ op' = "Stop" /\ ~ Machine!HaltBug => Machine!RegisterEffect(op') = Machine!Done(op', 2)
    /\ op' = "JpHl" /\ Machine!HaltBug => Machine!RegisterEffect(op') = end
    /\ op' = "JpHl" /\ ~ Machine!HaltBug => Machine!RegisterEffect(op') = [end EXCEPT !.pc = st.hl]
    /\ op' = "LdSpHl" => Machine!RegisterEffect(op') = [end EXCEPT !.sp = st.hl]
    /\ op' = "AluR" => Machine!RegisterEffect(op') =
          [end EXCEPT !.a = AluVal(st.a, Lo(st.hl)), !.cc = AluFlag(st.a, Lo(st.hl))]
    /\ op' = "AddHl" => Machine!RegisterEffect(op') =
          [end EXCEPT !.hl = Plus(st.hl, st.hl), !.cc = AluFlag(Hi(st.hl), Hi(st.hl))]
    /\ op' = "IncHl" => Machine!RegisterEffect(op') = [end EXCEPT !.hl = Plus(st.hl, 1)]
    /\ op' = "DecHl" => Machine!RegisterEffect(op') = [end EXCEPT !.hl = Minus(st.hl, 1)]
    /\ op' = "IncSp" => Machine!RegisterEffect(op') = [end EXCEPT !.sp = Plus(st.sp, 1)]
    /\ op' = "DecSp" => Machine!RegisterEffect(op') = [end EXCEPT !.sp = Minus(st.sp, 1)]
BY SameWords DEF Machine!RegisterEffect

(* Such an instruction is a step of the instruction set.                     *)
LEMMA RegisterDone ==
    ASSUME st.halt # "Halted", op' \in Machine!RegisterOps,
           st' = Machine!RegisterEffect(op'), bus' = <<Opcode>>
    PROVE  Machine!Next
<1>1. op' \notin CbOps
  BY DEF Machine!RegisterOps, CbOps
<1>2. Machine!OpcodeReads(op') = <<Opcode>>
  BY <1>1, SameWords, SameClasses DEF Machine!OpcodeReads, Opcode
<1>3. bus' = (Machine!OpcodeReads(op') \o <<>>) \o <<>>
  BY <1>2, Concatenations
<1>4. Machine!Makes(<<Machine!RegisterEffect(op'), <<>>>>, <<>>)
  BY <1>3 DEF Machine!Makes
<1> QED
  BY <1>4 DEF Machine!Next, Machine!Instruction
(* The fields of the phases the handlers build.                              *)
LEMMA PhaseFields ==
    /\ Fetch.n = "Fetch"
    /\ \A o : Execute(o).n = "Execute" /\ Execute(o).k = o
    /\ \A n, k : MkPhase(n, k).n = n /\ MkPhase(n, k).k = k
    /\ \A ad, k : /\ ReadMem(ad, k).n = "ReadMem" /\ ReadMem(ad, k).k = k
                  /\ ReadMem(ad, k).addr = ad
    /\ \A ad, k, l : LET ph == [ReadMem(ad, k) EXCEPT !.lo = l] IN
                     ph.n = "ReadMem" /\ ph.k = k /\ ph.addr = ad /\ ph.lo = l
    /\ \A ad, d, k : LET ph == WriteMem(ad, d, k) IN
                     ph.n = "WriteMem" /\ ph.k = k /\ ph.addr = ad /\ ph.data = d
    /\ \A ad, d, k, x : LET ph == [WriteMem(ad, d, k) EXCEPT !.aux = x] IN
                        /\ ph.n = "WriteMem" /\ ph.k = k /\ ph.addr = ad /\ ph.data = d
                        /\ ph.aux = x
    /\ \A ad, d, k, l, x : LET ph == [WriteMem(ad, d, k) EXCEPT !.lo = l, !.aux = x] IN
                           /\ ph.n = "WriteMem" /\ ph.k = k /\ ph.addr = ad /\ ph.data = d
                           /\ ph.lo = l /\ ph.aux = x
    /\ \A i, k : /\ Service(i, k).n = "ServiceInterrupt" /\ Service(i, k).k = k
                 /\ Service(i, k).aux = i
<1>1. \A n, k : MkPhase(n, k).n = n /\ MkPhase(n, k).k = k
  BY DEF MkPhase
<1>2. /\ Fetch.n = "Fetch"
      /\ \A o : Execute(o).n = "Execute" /\ Execute(o).k = o
  BY <1>1 DEF Fetch, Execute
<1>3. \A ad, k : LET ph == ReadMem(ad, k) IN
         /\ ph.n = "ReadMem" /\ ph.k = k /\ ph.addr = ad
  BY DEF ReadMem, MkPhase
<1>4. \A ad, d, k : LET ph == WriteMem(ad, d, k) IN
         /\ ph.n = "WriteMem" /\ ph.k = k /\ ph.addr = ad /\ ph.data = d
  BY DEF WriteMem, MkPhase
<1>5. \A i, k : LET ph == Service(i, k) IN
         ph.n = "ServiceInterrupt" /\ ph.k = k /\ ph.aux = i
  BY DEF Service, MkPhase
<1>6. \A ad, k, l : LET ph == [ReadMem(ad, k) EXCEPT !.lo = l] IN
         ph.n = "ReadMem" /\ ph.k = k /\ ph.addr = ad /\ ph.lo = l
  BY DEF ReadMem, MkPhase
<1>7. \A ad, d, k, x : LET ph == [WriteMem(ad, d, k) EXCEPT !.aux = x] IN
         ph.n = "WriteMem" /\ ph.k = k /\ ph.addr = ad /\ ph.data = d /\ ph.aux = x
  BY DEF WriteMem, MkPhase
<1>8. \A ad, d, k, l, x : LET ph == [WriteMem(ad, d, k) EXCEPT !.lo = l, !.aux = x] IN
         /\ ph.n = "WriteMem" /\ ph.k = k /\ ph.addr = ad /\ ph.data = d
         /\ ph.lo = l /\ ph.aux = x
  BY DEF WriteMem, MkPhase
<1> QED
  BY <1>1, <1>2, <1>3, <1>4, <1>5, <1>6, <1>7, <1>8

(* The continuations the fetch chooses.                                      *)
LEMMA Continuations ==
    /\ \A o \in {"LdRHl", "LdAHli", "LdAHld"} : ReadHlCont[o] = "LoadReg8"
    /\ ReadHlCont["LdAPp"] = "LoadAFromAddr"
    /\ \A o \in {"AluHl", "IncMem"} : ReadHlCont[o] = "AluFromMem"
    /\ PopCont["Pop"] = "PopLo" /\ PopCont["Ret"] = "RetLo" /\ PopCont["Reti"] = "RetLo"
    /\ Imm8Cont["LdRN"] = "LoadReg8" /\ Imm8Cont["LdHlN"] = "StoreToHl"
    /\ Imm8Cont["LdhR"] = "IoOffsetReadA" /\ Imm8Cont["LdhW"] = "IoOffsetWriteA"
    /\ Imm8Cont["AluN"] = "AluImm8" /\ Imm8Cont["AddSp"] = "AddSpDisp"
    /\ Imm8Cont["LdHlSp"] = "LoadHlSpDisp"
    /\ \A o \in {"Jr", "JrCc"} : Imm8Cont[o] = "RelativeJump"
    /\ \A o \in {"LdRrNn", "LdSpNn"} : Imm16Cont[o] = "LoadRegPair"
    /\ \A o \in {"Jp", "JpCc"} : Imm16Cont[o] = "JumpAbs"
    /\ \A o \in {"Call", "CallCc"} : Imm16Cont[o] = "CallTarget"
    /\ Imm16Cont["LdANn"] = "ReadAddrToA" /\ Imm16Cont["LdNnA"] = "WriteAToAddr"
    /\ Imm16Cont["LdNnSp"] = "StoreSpToAddr"
BY DEF ReadHlCont, PopCont, Imm8Cont, Imm16Cont

(* What a fetch leaves, by the instruction decoded: apply_delta is a part of *)
(* the fetch cycle for the loads that need no ALU.                           *)
LEMMA FetchedState ==
    ASSUME SeqInv, TraceInv, AtFetch, NEW o \in Ops, NEW pc \in Word, FetchOpcode(o, pc)
    PROVE  /\ arch = st /\ Made(<<>>, 0) /\ st.halt # "Halted" /\ st \in ArchState
           /\ micro'.phase = PhaseAfterFetch(o) /\ micro'.decoded = o
           /\ o = "RetCc" => micro'.imm_hi = 1
           /\ arch'.pc = pc /\ arch'.hl = st.hl /\ arch'.cc = st.cc /\ arch'.halt = "Running"
           /\ o # "LdRR" => arch'.a = st.a
           /\ o = "LdRR" => arch'.a = Lo(st.hl)
           /\ o # "LdSpHl" => arch'.sp = st.sp
           /\ o = "LdSpHl" => arch'.sp = st.hl
           /\ o \in {"Ei", "Di"} => arch'.ime = Machine!ImeAfter(o)
           /\ o \notin {"Ei", "Di"} => arch'.ime = ResolvedIme(micro')
<1>1. arch = st /\ Made(<<>>, 0) /\ st \in ArchState
  BY DEF TraceInv, AtBoundary, InstructionComplete, AtFetch
<1>2. st.halt # "Halted"
  BY <1>1 DEF SeqInv, SequencerConsistent, InterruptStateConsistent, AtFetch
<1> DEFINE ar == [arch EXCEPT !.pc = pc,
                           !.a = IF o = "LdRR" THEN Lo(arch.hl) ELSE @,
                           !.sp = IF o = "LdSpHl" THEN arch.hl ELSE @,
                           !.halt = IF @ = "HaltBugPending" THEN "Running" ELSE @]
           mi == [micro EXCEPT !.phase = PhaseAfterFetch(o),
                            !.decoded = o,
                            !.imm_hi = IF o = "RetCc" THEN 1 ELSE @]
<1>3. /\ mi.phase = PhaseAfterFetch(o) /\ mi.decoded = o
      /\ o = "RetCc" => mi.imm_hi = 1
  BY DEF SeqInv, CpuTypeOK, MicroState
<1>4. ar \in ArchState
  BY <1>1, LoByte, WordNat DEF ArchState, HaltState
<1>5. /\ ar.pc = pc /\ ar.hl = st.hl /\ ar.cc = st.cc /\ ar.halt = "Running"
      /\ o # "LdRR" => ar.a = st.a
      /\ o = "LdRR" => ar.a = Lo(st.hl)
      /\ o # "LdSpHl" => ar.sp = st.sp
      /\ o = "LdSpHl" => ar.sp = st.hl
  BY <1>1, <1>2 DEF ArchState, HaltState
<1>6. \E ime \in ImeState :
         /\ CommitIme(ar, ime, mi)
         /\ o = "Ei" => ime = "PendingEnable"
         /\ o = "Di" => ime = "Disabled"
         /\ o \notin {"Ei", "Di"} => ime = ResolvedIme(mi)
  BY <1>1 DEF FetchOpcode, Commit, ImeState, ResolvedIme, ArchState
<1>7. PICK ime \in ImeState :
         /\ CommitIme(ar, ime, mi)
         /\ o = "Ei" => ime = "PendingEnable"
         /\ o = "Di" => ime = "Disabled"
         /\ o \notin {"Ei", "Di"} => ime = ResolvedIme(mi)
  BY <1>6
<1> HIDE DEF ar, mi
<1>8. micro' = mi /\ arch' = [ar EXCEPT !.ime = ime]
  BY <1>7 DEF CommitIme
<1>9. /\ arch'.pc = ar.pc /\ arch'.sp = ar.sp /\ arch'.hl = ar.hl /\ arch'.a = ar.a
      /\ arch'.cc = ar.cc /\ arch'.halt = ar.halt /\ arch'.ime = ime
  BY <1>4, <1>8 DEF ArchState
<1>10. o \in {"Ei", "Di"} => ime = Machine!ImeAfter(o)
  BY <1>7 DEF Machine!ImeAfter
<1>11. o \notin {"Ei", "Di"} => ime = ResolvedIme(micro')
  BY <1>7, <1>8
<1>12. /\ micro'.phase = PhaseAfterFetch(o) /\ micro'.decoded = o
       /\ o = "RetCc" => micro'.imm_hi = 1
  BY <1>3, <1>8
<1> QED
  BY <1>1, <1>2, <1>5, <1>9, <1>10, <1>11, <1>12

(* The fetch of a longer instruction.                                        *)
LEMMA FetchGoesOn ==
    ASSUME SeqInv, TraceInv, SeqInv', AtFetch, NEW o \in Ops \ FetchOps,
           FetchOpcode(o, Machine!After(1)), Record(<<Opcode>>, o)
    PROVE  TraceInv' /\ UNCHANGED <<st, op, bus>>
<1>1. Machine!After(1) \in Word /\ st \in ArchState
  BY Following DEF TraceInv
<1>2. /\ arch = st /\ Made(<<>>, 0) /\ st.halt # "Halted"
      /\ micro'.phase = PhaseAfterFetch(o) /\ micro'.decoded = o
      /\ o = "RetCc" => micro'.imm_hi = 1
      /\ arch'.pc = Machine!After(1) /\ arch'.hl = st.hl /\ arch'.cc = st.cc
      /\ arch'.halt = "Running" /\ arch'.a = st.a
      /\ o # "LdSpHl" => arch'.sp = st.sp
      /\ o = "LdSpHl" => arch'.sp = st.hl
      /\ arch'.ime = ResolvedIme(micro')
  BY <1>1, FetchedState DEF FetchOps
<1>3. ~ InstructionComplete(micro'.phase)
  BY <1>2, AfterFetch, PhaseFields DEF InstructionComplete, Ops
<1>4. /\ UNCHANGED <<st, op, bus>> /\ retired' = retired
      /\ log' = log \o <<Opcode>> /\ cycles' = cycles + 1 /\ cycles' \in Nat
  BY <1>3, Recorded
<1>5. log' = <<Opcode>> /\ cycles' = 1
  BY <1>2, <1>4, Concatenations DEF Made
<1>6. StillRunning
  BY <1>4 DEF StillRunning
<1>7. arch'.ime = st.ime
  BY <1>2, <1>3 DEF ResolvedIme
<1>8. o # "LdSpHl" => Ran(1, st.sp, st.cc)'
  BY <1>2, <1>4, <1>7, AfterKept DEF Ran
<1>9. Made(<<Opcode>>, 1)'
  BY <1>4, <1>5, AfterKept DEF Made
<1>10. CASE o \in ExecOps
  <2>1. micro'.phase.n = "Execute"
    BY <1>2, <1>10, AfterFetch DEF Execute, MkPhase
  <2>2. o = "LdSpHl" => Ran(1, st.hl, st.cc)'
    BY <1>2, <1>4, <1>7, AfterKept DEF Ran
  <2>3. InExecute'
    BY <1>2, <1>8, <1>9, <1>10, <2>2 DEF InExecute, ExecOps, CondOps
  <2> QED BY <1>2, <1>4, <1>6, <2>1, <2>3, ToExecute
<1>11. CASE o \in Imm8Ops \cup Imm16Ops \cup {"Cb"}
  <2>1. micro'.phase.n \in {"FetchPrefix", "ReadImm8", "ReadImm16Lo"}
        /\ (micro'.phase.n = "FetchPrefix" => o = "Cb")
    BY <1>2, <1>11, AfterFetch, OpClasses DEF MkPhase
  <2>2. AfterPrefix' /\ InImmediate'
    BY <1>2, <1>8, <1>9, <1>11, <2>1, OpClasses DEF AfterPrefix, InImmediate
  <2> QED BY <1>2, <1>4, <1>6, <2>1, <2>2, ToOperand
<1>12. CASE o \in ReadHlOps \cup PopOps
  <2>1. micro'.phase.n = "ReadMem"
    BY <1>2, <1>12, AfterFetch, OpClasses, PhaseFields
  <2>2. CASE o \in ReadHlOps
    <3>1. micro'.phase.k \in {"LoadReg8", "AluFromMem", "LoadAFromAddr"}
          /\ (micro'.phase.k = "LoadAFromAddr" => o = "LdAPp") /\ micro'.phase.addr = st.hl
      BY <1>2, <2>2, AfterFetch, OpClasses, PhaseFields, Continuations
    <3>2. InRead'
      BY <1>2, <1>4, <1>8, <1>9, <2>2, <3>1, OpClasses DEF InRead
    <3> QED BY <1>2, <1>4, <1>6, <2>1, <3>2, ToReadMem
  <2>3. CASE o \in PopOps
    <3>1. micro'.phase.k \in {"PopLo", "RetLo"} /\ micro'.phase.addr = st.sp
      BY <1>2, <2>3, AfterFetch, OpClasses, PhaseFields, Continuations
    <3>2. InRead'
      BY <1>2, <1>4, <1>8, <1>9, <2>3, <3>1, OpClasses DEF InRead, Made
    <3> QED BY <1>2, <1>4, <1>6, <2>1, <3>2, ToReadMem
  <2> QED BY <1>12, <2>2, <2>3
<1>13. CASE o \in WriteHlOps
  <2>1. /\ micro'.phase.n = "WriteMem" /\ micro'.phase.k = "StoreDone"
        /\ micro'.phase.addr = st.hl /\ micro'.phase.data = st.a
    BY <1>2, <1>13, AfterFetch, PhaseFields
  <2>2. InStore' /\ InStoreSp' /\ InPush' /\ InRst' /\ InCall'
    BY <1>2, <1>4, <1>8, <1>9, <1>13, <2>1
       DEF InStore, InStoreSp, InPush, InRst, InCall, Writing, WriteHlOps
  <2> QED BY <1>2, <1>4, <1>6, <2>1, <2>2, ToWriteMem
<1> QED
  BY <1>10, <1>11, <1>12, <1>13 DEF Ops

(* An instruction that completes in its fetch.                               *)
LEMMA FetchCompletes ==
    ASSUME SeqInv, TraceInv, SeqInv', AtFetch, NEW o \in FetchOps, NEW pc \in Word,
           FetchOpcode(o, pc), Record(<<Opcode>>, o),
           o \notin {"Stop", "JpHl"} \/ Machine!HaltBug => pc = Machine!After(1),
           o = "Stop" /\ ~ Machine!HaltBug => pc = Machine!After(2),
           o = "JpHl" /\ ~ Machine!HaltBug => pc = st.hl
    PROVE  TraceInv' /\ Machine!Next
<1>1. o \in Ops
  BY DEF Ops
<1>2. /\ arch = st /\ Made(<<>>, 0) /\ st.halt # "Halted" /\ st \in ArchState
      /\ micro'.phase = Fetch
      /\ arch'.pc = pc /\ arch'.hl = st.hl /\ arch'.cc = st.cc /\ arch'.halt = "Running"
      /\ o # "LdRR" => arch'.a = st.a
      /\ o = "LdRR" => arch'.a = Lo(st.hl)
      /\ arch'.sp = st.sp
      /\ o \in {"Ei", "Di"} => arch'.ime = Machine!ImeAfter(o)
      /\ o \notin {"Ei", "Di"} => arch'.ime = ResolvedIme(micro')
  BY <1>1, FetchedState, AfterFetch DEF FetchOps
<1>3. InstructionComplete(micro'.phase)
  BY <1>2, PhaseFields DEF InstructionComplete
<1>4. TraceInv' /\ st' = arch' /\ op' = o /\ bus' = <<Opcode>>
  <2>1. CpuTypeOK'
    BY DEF SeqInv
  <2>2. TraceInv' /\ st' = arch' /\ op' = o /\ bus' = log \o <<Opcode>>
    BY <1>3, <2>1, BoundaryReached
  <2> QED BY <1>2, <2>2, Concatenations DEF Made
<1>5. arch'.ime = Machine!ImeAfter(o)
  BY <1>2, <1>3, MaturedIme DEF ResolvedIme, FetchOps
<1>6. st' \in ArchState
  BY <1>4 DEF SeqInv, CpuTypeOK
<1>7. st' = Machine!RegisterEffect(o)
  <2> DEFINE end == Machine!Done(o, 1)
             two == Machine!Done(o, 2)
  <2>1. /\ end \in ArchState
        /\ end.pc = Machine!After(1) /\ end.sp = st.sp /\ end.hl = st.hl /\ end.a = st.a
        /\ end.cc = st.cc /\ end.ime = Machine!ImeAfter(o) /\ end.halt = "Running"
    BY <1>2, DoneState
  <2>2. /\ two \in ArchState
        /\ two.pc = Machine!After(2) /\ two.sp = st.sp /\ two.hl = st.hl /\ two.a = st.a
        /\ two.cc = st.cc /\ two.ime = Machine!ImeAfter(o) /\ two.halt = "Running"
    BY <1>2, DoneState
  <2>3. [end EXCEPT !.a = Lo(st.hl)] \in ArchState /\ [end EXCEPT !.pc = st.hl] \in ArchState
    BY <1>2, <2>1, LoByte, WordNat DEF ArchState
  <2> HIDE DEF end, two
  <2>4. CASE o \in {"Nop", "Ei", "Di"}
    BY <1>2, <1>4, <1>5, <1>6, <2>1, <2>4, SameArch, RegisterEffects DEF end
  <2>5. CASE o = "LdRR"
    <3>1. st' = [end EXCEPT !.a = Lo(st.hl)]
      BY <1>2, <1>4, <1>5, <1>6, <2>1, <2>3, <2>5, SameArch DEF ArchState
    <3> QED BY <1>4, <2>5, <3>1, RegisterEffects DEF end
  <2>6. CASE o \in {"Stop", "JpHl"} /\ Machine!HaltBug
    BY <1>2, <1>4, <1>5, <1>6, <2>1, <2>6, SameArch, RegisterEffects DEF end
  <2>7. CASE o = "Stop" /\ ~ Machine!HaltBug
    BY <1>2, <1>4, <1>5, <1>6, <2>2, <2>7, SameArch, RegisterEffects DEF two
  <2>8. CASE o = "JpHl" /\ ~ Machine!HaltBug
    <3>1. st' = [end EXCEPT !.pc = st.hl]
      BY <1>2, <1>4, <1>5, <1>6, <2>1, <2>3, <2>8, SameArch DEF ArchState
    <3> QED BY <1>4, <2>8, <3>1, RegisterEffects DEF end
  <2> QED BY <2>4, <2>5, <2>6, <2>7, <2>8 DEF FetchOps
<1> QED
  BY <1>2, <1>4, <1>7, RegisterDone DEF FetchOps, Machine!RegisterOps

(* handle_fetch and handle_fetch_halt_bug: instructions of one cycle end     *)
(* here, the others go on to the phase of their first operand, transfer or   *)
(* internal cycle.                                                           *)
LEMMA FetchTrace ==
    ASSUME SeqInv, TraceInv, SeqInv', FetchStep
    PROVE  TraceInv' /\ (Machine!Next \/ UNCHANGED <<st, op, bus>>)
<1>1. PICK o \in Ops, pending \in Pendings :
         (HandleFetchHaltBug(o) \/ HandleFetch(o, pending)) /\ Record(Reads(0), o)
  BY DEF FetchStep
<1>2. AtFetch /\ arch = st /\ st \in ArchState
  BY <1>1 DEF HandleFetchHaltBug, HandleFetch, TraceInv, AtBoundary, InstructionComplete, AtFetch
<1>3. Record(<<Opcode>>, o)
  <2>1. Reads(0) = <<Opcode>>
    BY <1>2, Requests DEF AtFetch, Opcode
  <2> QED BY <1>1, <2>1
<1>4. PICK pc \in Word :
         /\ FetchOpcode(o, pc)
         /\ o \notin {"Stop", "JpHl"} \/ Machine!HaltBug => pc = Machine!After(1)
         /\ o = "Stop" /\ ~ Machine!HaltBug => pc = Machine!After(2)
         /\ o = "JpHl" /\ ~ Machine!HaltBug => pc = st.hl
  <2>1. CASE HandleFetchHaltBug(o)
    <3>1. Machine!HaltBug /\ arch.pc = Machine!After(1)
      BY <1>2, <2>1, Following DEF HandleFetchHaltBug, Machine!HaltBug
    <3> QED BY <1>2, <2>1, <3>1 DEF HandleFetchHaltBug, ArchState
  <2>2. CASE HandleFetch(o, pending)
    <3>1. ~ Machine!HaltBug
      BY <1>2, <2>2 DEF HandleFetch, Machine!HaltBug
    <3>2. PcAfterFetch(o) \in Word
      BY PcType DEF SeqInv
    <3>3. /\ o \notin {"Stop", "JpHl"} => PcAfterFetch(o) = Machine!After(1)
          /\ o = "Stop" => PcAfterFetch(o) = Machine!After(2)
          /\ o = "JpHl" => PcAfterFetch(o) = st.hl
      BY <1>2, <3>1, Following DEF PcAfterFetch
    <3> QED BY <2>2, <3>1, <3>2, <3>3 DEF HandleFetch
  <2> QED BY <1>1, <2>1, <2>2
<1>5. CASE o \in FetchOps
  BY <1>2, <1>3, <1>4, <1>5, FetchCompletes
<1>6. CASE o \notin FetchOps
  BY <1>2, <1>3, <1>4, <1>6, FetchGoesOn DEF FetchOps
<1> QED BY <1>5, <1>6

(* The registers an instruction can write.                                   *)
SetA(r, xa) == [r EXCEPT !.a = xa]
SetACc(r, xa, xcc) == [r EXCEPT !.a = xa, !.cc = xcc]
SetHl(r, xhl) == [r EXCEPT !.hl = xhl]
SetHlCc(r, xhl, xcc) == [r EXCEPT !.hl = xhl, !.cc = xcc]
SetAHl(r, xa, xhl) == [r EXCEPT !.a = xa, !.hl = xhl]
SetSp(r, xsp) == [r EXCEPT !.sp = xsp]
SetSpCc(r, xsp, xcc) == [r EXCEPT !.sp = xsp, !.cc = xcc]
SetCc(r, xcc) == [r EXCEPT !.cc = xcc]
SetPc(r, xpc) == [r EXCEPT !.pc = xpc]
SetPcSp(r, xpc, xsp) == [r EXCEPT !.pc = xpc, !.sp = xsp]

(* The state s a handler leaves is the one the instruction set gives when    *)
(* the registers the instruction does not write are those of the start.      *)
LEMMA EndStates ==
    ASSUME st \in ArchState, NEW o, NEW n \in 1 .. 3, NEW s \in ArchState,
           s.ime = Machine!ImeAfter(o), s.halt = "Running"
    PROVE  LET end == Machine!Done(o, n)
               pc == s.pc = Machine!After(n)
               sp == s.sp = st.sp
               hl == s.hl = st.hl
               a == s.a = st.a
               cc == s.cc = st.cc
           IN /\ pc /\ sp /\ hl /\ a /\ cc => s = end
              /\ pc /\ sp /\ hl /\ cc => s = SetA(end, s.a)
              /\ pc /\ sp /\ hl => s = SetACc(end, s.a, s.cc)
              /\ pc /\ sp /\ a /\ cc => s = SetHl(end, s.hl)
              /\ pc /\ sp /\ a => s = SetHlCc(end, s.hl, s.cc)
              /\ pc /\ sp /\ cc => s = SetAHl(end, s.a, s.hl)
              /\ pc /\ hl /\ a /\ cc => s = SetSp(end, s.sp)
              /\ pc /\ hl /\ a => s = SetSpCc(end, s.sp, s.cc)
              /\ pc /\ sp /\ hl /\ a => s = SetCc(end, s.cc)
              /\ sp /\ hl /\ a /\ cc => s = SetPc(end, s.pc)
              /\ hl /\ a /\ cc => s = SetPcSp(end, s.pc, s.sp)
              /\ hl /\ a /\ cc => s = SetPc(SetSp(end, s.sp), s.pc)
              /\ pc /\ a /\ cc => s = SetHl(SetSp(end, s.sp), s.hl)
<1> DEFINE end == Machine!Done(o, n)
<1>1. /\ end \in ArchState
      /\ end.pc = Machine!After(n) /\ end.sp = st.sp /\ end.hl = st.hl /\ end.a = st.a
      /\ end.cc = st.cc /\ end.ime = s.ime /\ end.halt = s.halt
  BY DoneState
<1>2. /\ s.pc \in Word /\ s.sp \in Word /\ s.hl \in Word /\ s.a \in Byte /\ s.cc \in BOOLEAN
  BY DEF ArchState
<1> HIDE DEF end
<1>3. ASSUME s.pc = Machine!After(n), s.sp = st.sp, s.hl = st.hl, s.a = st.a, s.cc = st.cc
      PROVE  s = end
  BY <1>1, <1>3, SameArch
<1>4. ASSUME s.pc = Machine!After(n), s.sp = st.sp, s.hl = st.hl, s.cc = st.cc
      PROVE  s = SetA(end, s.a)
  <2> DEFINE x == SetA(end, s.a)
  <2>1. /\ x \in ArchState /\ x.ime = s.ime /\ x.halt = s.halt
        /\ x.pc = s.pc /\ x.sp = s.sp /\ x.hl = s.hl /\ x.a = s.a /\ x.cc = s.cc
    BY <1>1, <1>2, <1>4 DEF ArchState, SetA
  <2> HIDE DEF x
  <2>2. s = x
    BY <2>1, SameArch
  <2> QED BY <2>2 DEF x
<1>5. ASSUME s.pc = Machine!After(n), s.sp = st.sp, s.hl = st.hl
      PROVE  s = SetACc(end, s.a, s.cc)
  <2> DEFINE x == SetACc(end, s.a, s.cc)
  <2>1. /\ x \in ArchState /\ x.ime = s.ime /\ x.halt = s.halt
        /\ x.pc = s.pc /\ x.sp = s.sp /\ x.hl = s.hl /\ x.a = s.a /\ x.cc = s.cc
    BY <1>1, <1>2, <1>5 DEF ArchState, SetACc
  <2> HIDE DEF x
  <2>2. s = x
    BY <2>1, SameArch
  <2> QED BY <2>2 DEF x
<1>6. ASSUME s.pc = Machine!After(n), s.sp = st.sp, s.a = st.a, s.cc = st.cc
      PROVE  s = SetHl(end, s.hl)
  <2> DEFINE x == SetHl(end, s.hl)
  <2>1. /\ x \in ArchState /\ x.ime = s.ime /\ x.halt = s.halt
        /\ x.pc = s.pc /\ x.sp = s.sp /\ x.hl = s.hl /\ x.a = s.a /\ x.cc = s.cc
    BY <1>1, <1>2, <1>6 DEF ArchState, SetHl
  <2> HIDE DEF x
  <2>2. s = x
    BY <2>1, SameArch
  <2> QED BY <2>2 DEF x
<1>7. ASSUME s.pc = Machine!After(n), s.sp = st.sp, s.a = st.a
      PROVE  s = SetHlCc(end, s.hl, s.cc)
  <2> DEFINE x == SetHlCc(end, s.hl, s.cc)
  <2>1. /\ x \in ArchState /\ x.ime = s.ime /\ x.halt = s.halt
        /\ x.pc = s.pc /\ x.sp = s.sp /\ x.hl = s.hl /\ x.a = s.a /\ x.cc = s.cc
    BY <1>1, <1>2, <1>7 DEF ArchState, SetHlCc
  <2> HIDE DEF x
  <2>2. s = x
    BY <2>1, SameArch
  <2> QED BY <2>2 DEF x
<1>8. ASSUME s.pc = Machine!After(n), s.sp = st.sp, s.cc = st.cc
      PROVE  s = SetAHl(end, s.a, s.hl)
  <2> DEFINE x == SetAHl(end, s.a, s.hl)
  <2>1. /\ x \in ArchState /\ x.ime = s.ime /\ x.halt = s.halt
        /\ x.pc = s.pc /\ x.sp = s.sp /\ x.hl = s.hl /\ x.a = s.a /\ x.cc = s.cc
    BY <1>1, <1>2, <1>8 DEF ArchState, SetAHl
  <2> HIDE DEF x
  <2>2. s = x
    BY <2>1, SameArch
  <2> QED BY <2>2 DEF x
<1>9. ASSUME s.pc = Machine!After(n), s.hl = st.hl, s.a = st.a, s.cc = st.cc
      PROVE  s = SetSp(end, s.sp)
  <2> DEFINE x == SetSp(end, s.sp)
  <2>1. /\ x \in ArchState /\ x.ime = s.ime /\ x.halt = s.halt
        /\ x.pc = s.pc /\ x.sp = s.sp /\ x.hl = s.hl /\ x.a = s.a /\ x.cc = s.cc
    BY <1>1, <1>2, <1>9 DEF ArchState, SetSp
  <2> HIDE DEF x
  <2>2. s = x
    BY <2>1, SameArch
  <2> QED BY <2>2 DEF x
<1>10. ASSUME s.pc = Machine!After(n), s.hl = st.hl, s.a = st.a
      PROVE  s = SetSpCc(end, s.sp, s.cc)
  <2> DEFINE x == SetSpCc(end, s.sp, s.cc)
  <2>1. /\ x \in ArchState /\ x.ime = s.ime /\ x.halt = s.halt
        /\ x.pc = s.pc /\ x.sp = s.sp /\ x.hl = s.hl /\ x.a = s.a /\ x.cc = s.cc
    BY <1>1, <1>2, <1>10 DEF ArchState, SetSpCc
  <2> HIDE DEF x
  <2>2. s = x
    BY <2>1, SameArch
  <2> QED BY <2>2 DEF x
<1>11. ASSUME s.pc = Machine!After(n), s.sp = st.sp, s.hl = st.hl, s.a = st.a
      PROVE  s = SetCc(end, s.cc)
  <2> DEFINE x == SetCc(end, s.cc)
  <2>1. /\ x \in ArchState /\ x.ime = s.ime /\ x.halt = s.halt
        /\ x.pc = s.pc /\ x.sp = s.sp /\ x.hl = s.hl /\ x.a = s.a /\ x.cc = s.cc
    BY <1>1, <1>2, <1>11 DEF ArchState, SetCc
  <2> HIDE DEF x
  <2>2. s = x
    BY <2>1, SameArch
  <2> QED BY <2>2 DEF x
<1>12. ASSUME s.sp = st.sp, s.hl = st.hl, s.a = st.a, s.cc = st.cc
      PROVE  s = SetPc(end, s.pc)
  <2> DEFINE x == SetPc(end, s.pc)
  <2>1. /\ x \in ArchState /\ x.ime = s.ime /\ x.halt = s.halt
        /\ x.pc = s.pc /\ x.sp = s.sp /\ x.hl = s.hl /\ x.a = s.a /\ x.cc = s.cc
    BY <1>1, <1>2, <1>12 DEF ArchState, SetPc
  <2> HIDE DEF x
  <2>2. s = x
    BY <2>1, SameArch
  <2> QED BY <2>2 DEF x
<1>13. ASSUME s.hl = st.hl, s.a = st.a, s.cc = st.cc
      PROVE  s = SetPcSp(end, s.pc, s.sp)
  <2> DEFINE x == SetPcSp(end, s.pc, s.sp)
  <2>1. /\ x \in ArchState /\ x.ime = s.ime /\ x.halt = s.halt
        /\ x.pc = s.pc /\ x.sp = s.sp /\ x.hl = s.hl /\ x.a = s.a /\ x.cc = s.cc
    BY <1>1, <1>2, <1>13 DEF ArchState, SetPcSp
  <2> HIDE DEF x
  <2>2. s = x
    BY <2>1, SameArch
  <2> QED BY <2>2 DEF x
<1>14. ASSUME s.hl = st.hl, s.a = st.a, s.cc = st.cc
      PROVE  s = SetPc(SetSp(end, s.sp), s.pc)
  <2> DEFINE x == SetPc(SetSp(end, s.sp), s.pc)
  <2>1. /\ x \in ArchState /\ x.ime = s.ime /\ x.halt = s.halt
        /\ x.pc = s.pc /\ x.sp = s.sp /\ x.hl = s.hl /\ x.a = s.a /\ x.cc = s.cc
    BY <1>1, <1>2, <1>14 DEF ArchState, SetPc, SetSp
  <2> HIDE DEF x
  <2>2. s = x
    BY <2>1, SameArch
  <2> QED BY <2>2 DEF x
<1>15. ASSUME s.pc = Machine!After(n), s.a = st.a, s.cc = st.cc
      PROVE  s = SetHl(SetSp(end, s.sp), s.hl)
  <2> DEFINE x == SetHl(SetSp(end, s.sp), s.hl)
  <2>1. /\ x \in ArchState /\ x.ime = s.ime /\ x.halt = s.halt
        /\ x.pc = s.pc /\ x.sp = s.sp /\ x.hl = s.hl /\ x.a = s.a /\ x.cc = s.cc
    BY <1>1, <1>2, <1>15 DEF ArchState, SetHl, SetSp
  <2> HIDE DEF x
  <2>2. s = x
    BY <2>1, SameArch
  <2> QED BY <2>2 DEF x
<1> QED
  BY <1>3, <1>4, <1>5, <1>6, <1>7, <1>8, <1>9, <1>10, <1>11, <1>12, <1>13, <1>14, <1>15 DEF end

(* What a commit leaves.                                                     *)
LEMMA CommitFields ==
    ASSUME NEW ar \in ArchState, NEW mi, Commit(ar, mi), arch.ime = st.ime
    PROVE  /\ micro' = mi
           /\ arch'.pc = ar.pc /\ arch'.sp = ar.sp /\ arch'.hl = ar.hl /\ arch'.a = ar.a
           /\ arch'.cc = ar.cc /\ arch'.halt = ar.halt
           /\ ~ InstructionComplete(micro'.phase) => arch'.ime = st.ime
           /\ InstructionComplete(micro'.phase) =>
                 \A o : o \notin {"Ei", "Di", "Reti"} => arch'.ime = Machine!ImeAfter(o)
<1>1. micro' = mi /\ arch' = [ar EXCEPT !.ime = ResolvedIme(mi)]
  BY DEF Commit, CommitIme
<1>2. /\ arch'.pc = ar.pc /\ arch'.sp = ar.sp /\ arch'.hl = ar.hl /\ arch'.a = ar.a
      /\ arch'.cc = ar.cc /\ arch'.halt = ar.halt /\ arch'.ime = ResolvedIme(micro')
  BY <1>1 DEF ArchState
<1>3. ~ InstructionComplete(micro'.phase) => arch'.ime = st.ime
  BY <1>2 DEF ResolvedIme
<1>4. InstructionComplete(micro'.phase) =>
         \A o : o \notin {"Ei", "Di", "Reti"} => arch'.ime = Machine!ImeAfter(o)
  BY <1>2, MaturedIme DEF ResolvedIme
<1> QED BY <1>1, <1>2, <1>3, <1>4

(* What the instruction set says of the instructions with one operand byte,  *)
LEMMA Imm8Effects ==
    ASSUME NEW imm, NEW v
    PROVE  LET end == Machine!Done(op', 2)
               sum == Plus(st.sp, SignExtend(imm))
               jump == SetPc(end, Plus(end.pc, SignExtend(imm)))
               carry == AluFlag(Lo(st.sp), imm)
               effect == Machine!Imm8Effect(op', imm, v)
           IN /\ op' = "LdRN" => effect = <<SetA(end, imm), <<>>>>
              /\ op' = "LdHlN" => effect = <<end, <<Write(st.hl, imm)>>>>
              /\ op' = "LdhR" => effect = <<SetA(end, v), <<Read(IoAddress(imm), v)>>>>
              /\ op' = "LdhW" => effect = <<end, <<Write(IoAddress(imm), st.a)>>>>
              /\ op' = "AluN" => effect = <<SetACc(end, AluVal(st.a, imm), AluFlag(st.a, imm)), <<>>>>
              /\ op' = "Jr" => effect = <<jump, <<>>>>
              /\ op' = "JrCc" /\ st.cc => effect = <<jump, <<>>>>
              /\ op' = "JrCc" /\ ~ st.cc => effect = <<end, <<>>>>
              /\ op' = "AddSp" => effect = <<SetSpCc(end, sum, carry), <<>>>>
              /\ op' = "LdHlSp" => effect = <<SetHlCc(end, sum, carry), <<>>>>
BY SameWords DEF Machine!Imm8Effect, Machine!Done, SetA, SetACc, SetPc, SetSpCc, SetHlCc

(* The two writes of a push: the high byte first, each one address lower.    *)
LEMMA PushedWord ==
    \A w : Machine!PushWord(w) = <<Write(Minus(st.sp, 1), Hi(w)), Write(Minus(st.sp, 2), Lo(w))>>
BY SameWords DEF Machine!PushWord

(* with two operand bytes,                                                   *)
LEMMA Imm16Effects ==
    ASSUME NEW w, NEW v
    PROVE  LET end == Machine!Done(op', 3)
               jump == <<SetPc(end, w), <<>>>>
               call == <<Machine!Called(end, w), Machine!PushWord(end.pc)>>
               effect == Machine!Imm16Effect(op', w, v)
           IN /\ op' = "LdRrNn" => effect = <<SetHl(end, w), <<>>>>
              /\ op' = "LdSpNn" => effect = <<SetSp(end, w), <<>>>>
              /\ op' = "Jp" => effect = jump
              /\ op' = "JpCc" /\ st.cc => effect = jump
              /\ op' \in {"JpCc", "CallCc"} /\ ~ st.cc => effect = <<end, <<>>>>
              /\ op' = "Call" => effect = call
              /\ op' = "CallCc" /\ st.cc => effect = call
              /\ op' = "LdANn" => effect = <<SetA(end, v), <<Read(w, v)>>>>
              /\ op' = "LdNnA" => effect = <<end, <<Write(w, st.a)>>>>
              /\ op' = "LdNnSp" => effect =
                    <<end, <<Write(w, Lo(st.sp)), Write(Plus(w, 1), Hi(st.sp))>>>>
BY SameWords DEF Machine!Imm16Effect, SetA, SetHl, SetSp, SetPc

(* with transfers at HL or at the stack pointer.                             *)
LEMMA MemoryEffects ==
    ASSUME NEW l, NEW v
    PROVE  LET end == Machine!Done(op', 1)
               get == <<Read(st.hl, l)>>
               put == <<Write(st.hl, st.a)>>
               pop == <<Read(st.sp, l), Read(Plus(st.sp, 1), v)>>
               popped == SetSp(end, Plus(st.sp, 2))
               returned == SetPc(popped, Pair(v, l))
               bit == SetCc(Machine!Done(op', 2), AluFlag(l, l))
               modified == Append(get, Write(st.hl, AluVal(l, l)))
               effect == Machine!MemoryEffect(op', l, v)
           IN /\ op' \in {"LdRHl", "LdAPp"} => effect = <<SetA(end, l), get>>
              /\ op' = "LdAHli" => effect = <<SetAHl(end, l, Plus(end.hl, 1)), get>>
              /\ op' = "LdAHld" => effect = <<SetAHl(end, l, Minus(end.hl, 1)), get>>
              /\ op' = "AluHl" =>
                    effect = <<SetACc(end, AluVal(st.a, l), AluFlag(st.a, l)), get>>
              /\ op' = "IncMem" => effect = <<SetCc(end, AluFlag(l, l)), modified>>
              /\ op' = "LdHlR" => effect = <<end, put>>
              /\ op' = "LdHliA" => effect = <<SetHl(end, Plus(end.hl, 1)), put>>
              /\ op' = "LdHldA" => effect = <<SetHl(end, Minus(end.hl, 1)), put>>
              /\ op' = "Push" =>
                    effect = <<SetSp(end, Minus(end.sp, 2)), Machine!PushWord(st.hl)>>
              /\ op' = "Pop" => effect = <<SetHl(popped, Pair(v, l)), pop>>
              /\ op' \in {"Ret", "Reti"} => effect = <<returned, pop>>
              /\ op' = "RetCc" /\ st.cc => effect = <<returned, pop>>
              /\ op' = "RetCc" /\ ~ st.cc => effect = <<end, <<>>>>
              /\ op' = "Rst" =>
                    effect = <<Machine!Called(end, RstVector), Machine!PushWord(end.pc)>>
              /\ op' = "CbR" => effect =
                    <<SetACc(Machine!Done(op', 2), AluVal(st.a, st.a), AluFlag(st.a, st.a)), <<>>>>
              /\ op' = "CbBit" => effect = <<bit, get>>
              /\ op' = "CbRmw" => effect = <<bit, modified>>
BY SameWords DEF Machine!MemoryEffect, Machine!Done, SetA, SetAHl, SetACc, SetCc, SetHl, SetSp,
   SetPc

(* An instruction of each format is done when its transactions and its       *)
(* effect are.                                                               *)
LEMMA Imm8Done ==
    ASSUME st.halt # "Halted", op' \in Imm8Ops, NEW imm \in Byte, NEW v \in Byte, NEW trs,
           Machine!Imm8Effect(op', imm, v) = <<st', trs>>,
           bus' = <<Opcode, Operand(1, imm)>> \o trs
    PROVE  Machine!Next
<1>1. op' \notin CbOps
  BY OpClasses DEF CbOps
<1>2. Machine!OpcodeReads(op') = <<Opcode>>
  BY <1>1, SameWords, SameClasses DEF Machine!OpcodeReads, Opcode
<1>3. bus' = (Machine!OpcodeReads(op') \o <<Machine!Read(Machine!After(1), imm)>>) \o trs
  BY <1>2, Concatenations, SameWords DEF Operand
<1>4. Machine!Makes(Machine!Imm8Effect(op', imm, v), <<Machine!Read(Machine!After(1), imm)>>)
  BY <1>3 DEF Machine!Makes
<1> QED
  BY <1>4, SameWords, SameClasses DEF Machine!Next, Machine!Instruction

(* An instruction with two operand bytes that completes is a step of the     *)
(* set.                                                                      *)
LEMMA Imm16Done ==
    ASSUME st.halt # "Halted", op' \in Imm16Ops, NEW l \in Byte, NEW h \in Byte, NEW v \in Byte,
           NEW trs, Machine!Imm16Effect(op', Pair(h, l), v) = <<st', trs>>,
           bus' = <<Opcode, Operand(1, l), Operand(2, h)>> \o trs
    PROVE  Machine!Next
<1> DEFINE operands == <<Machine!Read(Machine!After(1), l), Machine!Read(Machine!After(2), h)>>
<1>1. op' \notin CbOps
  BY OpClasses DEF CbOps
<1>2. Machine!OpcodeReads(op') = <<Opcode>>
  BY <1>1, SameWords, SameClasses DEF Machine!OpcodeReads, Opcode
<1>0. operands = <<Operand(1, l), Operand(2, h)>>
  BY SameWords DEF Operand
<1>3. bus' = (Machine!OpcodeReads(op') \o operands) \o trs
  <2>1. <<Opcode>> \o <<Operand(1, l), Operand(2, h)>> = <<Opcode, Operand(1, l), Operand(2, h)>>
    BY Concatenations
  <2> QED BY <1>0, <1>2, <2>1
<1>4. Machine!Makes(Machine!Imm16Effect(op', Pair(h, l), v), operands)
  <2> HIDE DEF operands
  <2> QED BY <1>3 DEF Machine!Makes
<1>5. Pair(h, l) = Machine!Pair(h, l)
  BY SameWords
<1> QED
  BY <1>4, <1>5, SameWords, SameClasses DEF Machine!Next, Machine!Instruction

(* So is one with a transfer at HL or at the stack pointer, prefixed or not. *)
LEMMA MemoryDone ==
    ASSUME st.halt # "Halted", op' \in Machine!MemoryOps, NEW l \in Byte, NEW v \in Byte, NEW trs,
           Machine!MemoryEffect(op', l, v) = <<st', trs>>,
           op' \notin CbOps => bus' = <<Opcode>> \o trs,
           op' \in CbOps => bus' = <<Opcode, Operand(1, 0)>> \o trs
    PROVE  Machine!Next
<1>1. /\ op' \notin CbOps => Machine!OpcodeReads(op') = <<Opcode>>
      /\ op' \in CbOps => Machine!OpcodeReads(op') = <<Opcode, Operand(1, 0)>>
  BY SameWords, SameClasses DEF Machine!OpcodeReads, Opcode, Operand
<1>2. bus' = (Machine!OpcodeReads(op') \o <<>>) \o trs
  <2>1. <<Opcode>> \o <<>> = <<Opcode>> /\ <<Opcode, Operand(1, 0)>> \o <<>> = <<Opcode, Operand(1, 0)>>
    BY Concatenations
  <2> QED BY <1>1, <2>1
<1>3. Machine!Makes(Machine!MemoryEffect(op', l, v), <<>>)
  BY <1>2 DEF Machine!Makes
<1> QED
  BY <1>3, SameWords DEF Machine!Next, Machine!Instruction

(* The end of an instruction, ready for the effect that it had.              *)
LEMMA Completed ==
    ASSUME TraceInv, SeqInv', NEW tr, NEW o, Record(tr, o), InstructionComplete(micro'.phase)
    PROVE  /\ TraceInv' /\ st' = arch' /\ op' = o /\ bus' = log \o tr
           /\ st' \in ArchState /\ st \in ArchState
           /\ st'.pc \in Word /\ st'.sp \in Word /\ st'.hl \in Word /\ st'.a \in Byte
           /\ st'.cc \in BOOLEAN
<1>1. CpuTypeOK'
  BY DEF SeqInv
<1>2. TraceInv' /\ st' = arch' /\ op' = o /\ bus' = log \o tr
  BY <1>1, BoundaryReached
<1> QED BY <1>1, <1>2 DEF CpuTypeOK, TraceInv, ArchState

(* The second opcode byte: CB on a register completes, the others read (hl). *)
LEMMA PrefixTrace ==
    ASSUME SeqInv, TraceInv, SeqInv', PrefixStep
    PROVE  TraceInv' /\ (Machine!Next \/ UNCHANGED <<st, op, bus>>)
<1>1. PICK o \in CbOps : HandleFetchPrefix(o) /\ Record(Reads(0), o)
  BY DEF PrefixStep
<1>2. /\ micro.phase.n = "FetchPrefix" /\ st.halt # "Halted" /\ st \in ArchState
      /\ Ran(1, st.sp, st.cc) /\ Made(<<Opcode>>, 1)
  BY <1>1 DEF HandleFetchPrefix, TraceInv, AfterPrefix, InInstruction
<1>3. Reads(0) = <<Operand(1, 0)>>
  BY <1>2, Requests DEF Ran, Operand
<1>4. log \o Reads(0) = <<Opcode, Operand(1, 0)>>
  BY <1>2, <1>3, Concatenations DEF Made
<1>5. /\ arch \in ArchState /\ micro \in MicroState
      /\ arch.pc = Machine!After(1) /\ arch.sp = st.sp /\ arch.cc = st.cc
      /\ arch.hl = st.hl /\ arch.a = st.a /\ arch.ime = st.ime /\ arch.halt = "Running"
  BY <1>2 DEF Ran, SeqInv, CpuTypeOK
<1>6. Machine!After(2) \in Word /\ Plus(Machine!After(1), 1) = Machine!After(2)
  BY <1>2, Following
<1> DEFINE ar == [arch EXCEPT !.pc = Plus(arch.pc, 1)]
           v == AluVal(arch.a, arch.a)
           br == [ar EXCEPT !.a = v, !.cc = AluFlag(arch.a, arch.a)]
<1>7. v \in Byte /\ AluFlag(arch.a, arch.a) \in BOOLEAN
  BY <1>5, AluAssumption DEF ArchState
<1>8. /\ ar \in ArchState /\ ar.pc = Machine!After(2) /\ ar.sp = st.sp /\ ar.hl = st.hl
      /\ ar.a = st.a /\ ar.cc = st.cc /\ ar.halt = "Running"
  BY <1>5, <1>6 DEF ArchState
<1>9. /\ br \in ArchState /\ br.pc = Machine!After(2) /\ br.sp = st.sp /\ br.hl = st.hl
      /\ br.a = AluVal(st.a, st.a) /\ br.cc = AluFlag(st.a, st.a) /\ br.halt = "Running"
  BY <1>5, <1>7, <1>8 DEF ArchState
<1>10. CASE o = "CbR"
  <2> DEFINE mi == [micro EXCEPT !.phase = Fetch, !.decoded = o, !.temp = v]
  <2>1. Commit(br, mi)
    BY <1>1, <1>10 DEF HandleFetchPrefix
  <2>2. mi.phase = Fetch
    BY <1>5 DEF MicroState
  <2> HIDE DEF ar, br, mi, v
  <2>3. /\ micro' = mi
        /\ arch'.pc = br.pc /\ arch'.sp = br.sp /\ arch'.hl = br.hl /\ arch'.a = br.a
        /\ arch'.cc = br.cc /\ arch'.halt = br.halt
        /\ InstructionComplete(micro'.phase) => arch'.ime = Machine!ImeAfter(o)
    BY <1>5, <1>9, <1>10, <2>1, CommitFields
  <2>4. InstructionComplete(micro'.phase)
    BY <2>2, <2>3, PhaseFields DEF InstructionComplete
  <2>5. /\ TraceInv' /\ st' = arch' /\ op' = o /\ bus' = <<Opcode, Operand(1, 0)>> \o <<>>
        /\ st' \in ArchState
    <3>1. /\ TraceInv' /\ st' = arch' /\ op' = o /\ bus' = log \o Reads(0)
          /\ st' \in ArchState
      BY <1>1, <2>4, Completed
    <3>2. log \o Reads(0) = <<Opcode, Operand(1, 0)>> \o <<>>
      BY <1>4, Concatenations
    <3> QED BY <3>1, <3>2
  <2>6. /\ st'.pc = Machine!After(2) /\ st'.sp = st.sp /\ st'.hl = st.hl
        /\ st'.a = AluVal(st.a, st.a) /\ st'.cc = AluFlag(st.a, st.a)
        /\ st'.ime = Machine!ImeAfter(o) /\ st'.halt = "Running"
    BY <1>9, <2>3, <2>4, <2>5
  <2>7. st' = SetACc(Machine!Done(o, 2), st'.a, st'.cc)
    BY <1>2, <2>5, <2>6, EndStates
  <2>8. Machine!MemoryEffect(op', 0, 0) = <<st', <<>>>>
    BY <1>10, <2>5, <2>6, <2>7, MemoryEffects
  <2> QED
    BY <1>2, <1>10, <2>5, <2>8, SmallBytes, MemoryDone DEF CbOps, Machine!MemoryOps, Machine!CbOps
<1>11. CASE o \in {"CbBit", "CbRmw"}
  <2> DEFINE mi == [micro EXCEPT !.phase = ReadMem(arch.hl, "BitOpFromMem"), !.decoded = o]
  <2>1. Commit(ar, mi)
    BY <1>1, <1>11 DEF HandleFetchPrefix
  <2>2. mi.phase = ReadMem(arch.hl, "BitOpFromMem") /\ mi.decoded = o
    BY <1>5 DEF MicroState
  <2> HIDE DEF ar, br, mi, v
  <2>3. /\ micro' = mi
        /\ arch'.pc = ar.pc /\ arch'.sp = ar.sp /\ arch'.hl = ar.hl /\ arch'.a = ar.a
        /\ arch'.cc = ar.cc /\ arch'.halt = ar.halt
        /\ ~ InstructionComplete(micro'.phase) => arch'.ime = st.ime
    BY <1>5, <1>8, <2>1, CommitFields
  <2>4. /\ micro'.phase.n = "ReadMem" /\ micro'.phase.k = "BitOpFromMem"
        /\ micro'.phase.addr = st.hl /\ micro'.decoded = o
    BY <1>5, <2>2, <2>3, PhaseFields
  <2>5. ~ InstructionComplete(micro'.phase)
    BY <2>4 DEF InstructionComplete
  <2>a. /\ UNCHANGED <<st, op, bus>> /\ retired' = retired
        /\ log' = log \o Reads(0) /\ cycles' = cycles + 1 /\ cycles' \in Nat
    BY <1>1, <2>5, Recorded
  <2>6. log' = <<Opcode, Operand(1, 0)>> /\ cycles' = 2
    BY <1>2, <1>4, <2>a DEF Made
  <2>7. Ran(2, st.sp, st.cc)' /\ Made(<<Opcode, Operand(1, 0)>>, 2)'
    BY <1>8, <2>3, <2>5, <2>a, <2>6, AfterKept DEF Ran, Made
  <2>8. InRead'
    BY <1>11, <2>4, <2>a, <2>7 DEF InRead
  <2> QED
    BY <1>2, <2>4, <2>a, <2>8, ToReadMem DEF StillRunning
<1> QED BY <1>10, <1>11 DEF CbOps

(* An immediate byte: the instruction completes, executes, or goes to memory. *)
LEMMA Imm8Trace ==
    ASSUME SeqInv, TraceInv, SeqInv', Imm8Step
    PROVE  TraceInv' /\ (Machine!Next \/ UNCHANGED <<st, op, bus>>)
<1> DEFINE o == micro.decoded
           k == micro.phase.k
<1>1. PICK d \in Byte : HandleReadImm8(d) /\ Record(Reads(d), o)
  BY DEF Imm8Step
<1>2. /\ micro.phase.n = "ReadImm8" /\ st.halt # "Halted" /\ st \in ArchState
      /\ Ran(1, st.sp, st.cc) /\ Made(<<Opcode>>, 1)
      /\ o \in Imm8Ops /\ k = Imm8Cont[o]
  BY <1>1 DEF HandleReadImm8, TraceInv, InImmediate, InInstruction, SeqInv, SequencerConsistent,
     LatchMatchesPhase
<1>3. log \o Reads(d) = <<Opcode, Operand(1, d)>>
  <2>1. Reads(d) = <<Operand(1, d)>>
    BY <1>2, Requests DEF Ran, Operand
  <2> QED BY <1>2, <2>1, Concatenations DEF Made
<1>4. /\ arch \in ArchState /\ micro \in MicroState
      /\ arch.pc = Machine!After(1) /\ arch.sp = st.sp /\ arch.cc = st.cc
      /\ arch.hl = st.hl /\ arch.a = st.a /\ arch.ime = st.ime /\ arch.halt = "Running"
  BY <1>2 DEF Ran, SeqInv, CpuTypeOK
<1> DEFINE ar == [arch EXCEPT !.pc = Plus(arch.pc, 1),
                              !.a = IF k = "LoadReg8" THEN d ELSE @]
<1>5. /\ ar \in ArchState /\ ar.pc = Machine!After(2) /\ ar.sp = st.sp /\ ar.hl = st.hl
      /\ k # "LoadReg8" => ar.a = st.a
      /\ k = "LoadReg8" => ar.a = d
      /\ ar.cc = st.cc /\ ar.halt = "Running"
  <2>1. Machine!After(2) \in Word /\ Plus(Machine!After(1), 1) = Machine!After(2)
    BY <1>2, Following
  <2> QED BY <1>4, <2>1 DEF ArchState
<1> DEFINE next ==
             CASE k = "LoadReg8" -> Fetch
               [] k = "StoreToHl" -> WriteMem(arch.hl, d, "StoreDone")
               [] k = "IoOffsetReadA" -> ReadMem(IoAddress(d), "LoadAFromAddr")
               [] k = "IoOffsetWriteA" -> WriteMem(IoAddress(d), arch.a, "StoreDone")
               [] k = "RelativeJump" -> IF CondMatches(o) THEN Execute(o) ELSE Fetch
               [] k \in {"AluImm8", "AddSpDisp", "LoadHlSpDisp"} -> Execute(o)
           mi == [micro EXCEPT
                    !.phase = next, !.imm_lo = d,
                    !.imm_hi = IF k \in {"AddSpDisp", "RelativeJump"} THEN 0 ELSE @]
<1>6a. Commit(ar, mi)
  BY <1>1 DEF HandleReadImm8
<1>6b. /\ mi.phase = next /\ mi.decoded = o /\ mi.imm_lo = d
       /\ k = "AddSpDisp" => mi.imm_hi = 0
  BY <1>4 DEF MicroState
<1>6. /\ Commit(ar, mi) /\ mi.decoded = o /\ mi.imm_lo = d
      /\ k = "LoadReg8" => mi.phase = Fetch
      /\ k = "StoreToHl" => mi.phase = WriteMem(arch.hl, d, "StoreDone")
      /\ k = "IoOffsetReadA" => mi.phase = ReadMem(IoAddress(d), "LoadAFromAddr")
      /\ k = "IoOffsetWriteA" => mi.phase = WriteMem(IoAddress(d), arch.a, "StoreDone")
      /\ k = "RelativeJump" /\ CondMatches(o) => mi.phase = Execute(o)
      /\ k = "RelativeJump" /\ ~ CondMatches(o) => mi.phase = Fetch
      /\ k \in {"AluImm8", "AddSpDisp", "LoadHlSpDisp"} => mi.phase = Execute(o)
      /\ k = "AddSpDisp" => mi.imm_hi = 0
  <2> HIDE DEF ar, mi
  <2> QED BY <1>6a, <1>6b
<1> HIDE DEF mi, next
<1> HIDE DEF ar
<1>7. /\ micro' = mi
      /\ arch'.pc = Machine!After(2) /\ arch'.sp = st.sp /\ arch'.hl = st.hl
      /\ arch'.cc = st.cc /\ arch'.halt = "Running"
      /\ k # "LoadReg8" => arch'.a = st.a
      /\ k = "LoadReg8" => arch'.a = d
      /\ ~ InstructionComplete(micro'.phase) => arch'.ime = st.ime
      /\ InstructionComplete(micro'.phase) =>
            \A i : i \notin {"Ei", "Di", "Reti"} => arch'.ime = Machine!ImeAfter(i)
  <2>1. arch.ime = st.ime
    BY <1>4
  <2> QED BY <1>5, <1>6a, <2>1, CommitFields
<1>7a. /\ o = "Jr" => CondMatches(o)
       /\ o = "JrCc" /\ st.cc => CondMatches(o)
       /\ o = "JrCc" /\ ~ st.cc => ~ CondMatches(o)
  <2>1. st.cc \in BOOLEAN /\ arch.cc = st.cc
    BY <1>2, <1>4 DEF ArchState
  <2> QED BY <2>1 DEF CondMatches, CondOps
<1>7b. /\ o = "LdRN" => k = "LoadReg8"
       /\ o = "LdHlN" => k = "StoreToHl"
       /\ o = "LdhR" => k = "IoOffsetReadA"
       /\ o = "LdhW" => k = "IoOffsetWriteA"
       /\ o \in {"Jr", "JrCc"} => k = "RelativeJump"
       /\ o = "AluN" => k = "AluImm8"
       /\ o = "AddSp" => k = "AddSpDisp"
       /\ o = "LdHlSp" => k = "LoadHlSpDisp"
  BY <1>2, Continuations
<1>7c. /\ o = "LdRN" \/ (o = "JrCc" /\ ~ st.cc) => micro'.phase = Fetch
       /\ o \in {"AluN", "Jr", "AddSp", "LdHlSp"} \/ (o = "JrCc" /\ st.cc) =>
             micro'.phase = Execute(o)
       /\ o = "LdHlN" => micro'.phase = WriteMem(st.hl, d, "StoreDone")
       /\ o = "LdhW" => micro'.phase = WriteMem(IoAddress(d), st.a, "StoreDone")
       /\ o = "LdhR" => micro'.phase = ReadMem(IoAddress(d), "LoadAFromAddr")
       /\ o = "AddSp" => micro'.imm_hi = 0
  <2>1. micro' = mi
    BY <1>7
  <2>2. o = "LdRN" => mi.phase = Fetch
    BY <1>6, <1>7b
  <2>3. o = "JrCc" /\ ~ st.cc => mi.phase = Fetch
    BY <1>6, <1>7a, <1>7b
  <2>4. o \in {"AluN", "AddSp", "LdHlSp"} => mi.phase = Execute(o)
    BY <1>6, <1>7b
  <2>5. o = "Jr" \/ (o = "JrCc" /\ st.cc) => mi.phase = Execute(o)
    BY <1>6, <1>7a, <1>7b
  <2>6. /\ o = "LdHlN" => mi.phase = WriteMem(st.hl, d, "StoreDone")
        /\ o = "LdhW" => mi.phase = WriteMem(IoAddress(d), st.a, "StoreDone")
        /\ o = "LdhR" => mi.phase = ReadMem(IoAddress(d), "LoadAFromAddr")
        /\ o = "AddSp" => mi.imm_hi = 0
    BY <1>4, <1>6, <1>7b
  <2> QED BY <2>1, <2>2, <2>3, <2>4, <2>5, <2>6
<1>8. ASSUME o = "LdRN" \/ (o = "JrCc" /\ ~ st.cc)
      PROVE  TraceInv' /\ Machine!Next
  <2>1. micro'.phase = Fetch
    BY <1>7c, <1>8
  <2>2. InstructionComplete(micro'.phase)
    BY <2>1, PhaseFields DEF InstructionComplete
  <2>3. /\ TraceInv' /\ st' = arch' /\ op' = o /\ bus' = <<Opcode, Operand(1, d)>>
        /\ st' \in ArchState
    BY <1>1, <1>3, <2>2, Completed
  <2>4. /\ st'.pc = Machine!After(2) /\ st'.sp = st.sp /\ st'.hl = st.hl /\ st'.cc = st.cc
        /\ o = "LdRN" => st'.a = d
        /\ o # "LdRN" => st'.a = st.a
        /\ st'.ime = Machine!ImeAfter(o) /\ st'.halt = "Running"
    BY <1>2, <1>7, <1>8, <2>2, <2>3, Continuations
  <2>5. Machine!Imm8Effect(op', d, d) = <<st', <<>>>>
    <3>1. o = "LdRN" => st' = SetA(Machine!Done(o, 2), d)
      BY <1>2, <2>3, <2>4, EndStates
    <3>2. o # "LdRN" => st' = Machine!Done(o, 2)
      BY <1>2, <2>3, <2>4, EndStates
    <3> QED BY <1>8, <2>3, <3>1, <3>2, Imm8Effects
  <2>6. bus' = <<Opcode, Operand(1, d)>> \o <<>>
    BY <2>3, Concatenations
  <2> QED BY <1>2, <2>3, <2>5, <2>6, Imm8Done
<1>9. ASSUME o # "LdRN", ~ (o = "JrCc" /\ ~ st.cc)
      PROVE  TraceInv' /\ UNCHANGED <<st, op, bus>>
  <2>1. /\ o \in {"AluN", "Jr", "JrCc", "AddSp", "LdHlSp"} => micro'.phase = Execute(o)
        /\ o = "LdHlN" => micro'.phase = WriteMem(st.hl, d, "StoreDone")
        /\ o = "LdhW" => micro'.phase = WriteMem(IoAddress(d), st.a, "StoreDone")
        /\ o = "LdhR" => micro'.phase = ReadMem(IoAddress(d), "LoadAFromAddr")
        /\ o = "AddSp" => micro'.imm_hi = 0
        /\ micro'.imm_lo = d /\ micro'.decoded = o
    BY <1>6, <1>7, <1>7c, <1>9
  <2>2. /\ micro'.phase.n \in {"Execute", "WriteMem", "ReadMem"}
        /\ o \in {"AluN", "Jr", "JrCc", "AddSp", "LdHlSp"} <=> micro'.phase.n = "Execute"
        /\ o \in {"LdHlN", "LdhW"} <=> micro'.phase.n = "WriteMem"
        /\ o = "LdhR" <=> micro'.phase.n = "ReadMem"
    BY <1>2, <1>9, <2>1, PhaseFields, OpClasses
  <2>3. ~ InstructionComplete(micro'.phase)
    BY <2>2 DEF InstructionComplete
  <2>4. /\ UNCHANGED <<st, op, bus>> /\ retired' = retired
        /\ log' = log \o Reads(d) /\ cycles' = cycles + 1 /\ cycles' \in Nat
    BY <1>1, <2>3, Recorded
  <2>5. log' = <<Opcode, Operand(1, d)>> /\ cycles' = 2
    BY <1>2, <1>3, <2>4 DEF Made
  <2>6. k # "LoadReg8"
    BY <1>2, <1>9, OpClasses, Continuations
  <2>7. Ran(2, st.sp, st.cc)' /\ Made(<<Opcode, Operand(1, micro.imm_lo)>>, 2)'
    BY <1>7, <2>1, <2>3, <2>4, <2>5, <2>6, AfterKept DEF Ran, Made
  <2>8. StillRunning
    BY <2>4 DEF StillRunning
  <2>9. CASE micro'.phase.n = "Execute"
    <3>1. InExecute'
      BY <1>9, <2>1, <2>2, <2>4, <2>7, <2>9 DEF InExecute, ExecOps, CondOps
    <3> QED BY <1>2, <2>4, <2>8, <2>9, <3>1, ToExecute
  <2>10. CASE micro'.phase.n = "ReadMem"
    <3>1. micro'.phase.k = "LoadAFromAddr" /\ micro'.phase.addr = IoAddress(micro'.imm_lo)
      BY <2>1, <2>2, <2>10, PhaseFields
    <3>2. InRead'
      BY <2>1, <2>2, <2>7, <2>10, <3>1 DEF InRead
    <3> QED BY <1>2, <2>4, <2>8, <2>10, <3>2, ToReadMem
  <2>11. CASE micro'.phase.n = "WriteMem"
    <3>1. /\ micro'.phase.k = "StoreDone"
          /\ o = "LdHlN" => micro'.phase.addr = st.hl /\ micro'.phase.data = micro'.imm_lo
          /\ o = "LdhW" => micro'.phase.addr = IoAddress(micro'.imm_lo)
                           /\ micro'.phase.data = st.a
      BY <2>1, <2>2, <2>11, PhaseFields
    <3>2. InStore' /\ InStoreSp' /\ InPush' /\ InRst' /\ InCall'
      BY <2>1, <2>2, <2>4, <2>7, <2>11, <3>1
         DEF InStore, InStoreSp, InPush, InRst, InCall, Writing, WriteHlOps
    <3> QED BY <1>2, <2>4, <2>8, <2>11, <3>2, ToWriteMem
  <2> QED BY <2>2, <2>4, <2>9, <2>10, <2>11
<1> QED BY <1>8, <1>9

(* The low byte of a word operand.                                           *)
LEMMA Imm16LoTrace ==
    ASSUME SeqInv, TraceInv, SeqInv', Imm16LoStep
    PROVE  TraceInv' /\ UNCHANGED <<st, op, bus>>
<1>1. PICK d \in Byte : HandleReadImm16Lo(d) /\ Record(Reads(d), micro.decoded)
  BY DEF Imm16LoStep
<1>2. /\ micro.phase.n = "ReadImm16Lo" /\ st.halt # "Halted" /\ st \in ArchState
      /\ Ran(1, st.sp, st.cc) /\ Made(<<Opcode>>, 1)
  BY <1>1 DEF HandleReadImm16Lo, TraceInv, InImmediate, InInstruction
<1>3. log \o Reads(d) = <<Opcode, Operand(1, d)>>
  <2>1. Reads(d) = <<Operand(1, d)>>
    BY <1>2, Requests DEF Ran, Operand
  <2> QED BY <1>2, <2>1, Concatenations DEF Made
<1>4. /\ arch \in ArchState /\ micro \in MicroState
      /\ arch.pc = Machine!After(1) /\ arch.sp = st.sp /\ arch.cc = st.cc
      /\ arch.hl = st.hl /\ arch.a = st.a /\ arch.ime = st.ime /\ arch.halt = "Running"
  BY <1>2 DEF Ran, SeqInv, CpuTypeOK
<1> DEFINE ar == [arch EXCEPT !.pc = Plus(arch.pc, 1)]
           mi == [micro EXCEPT
                 !.phase = [MkPhase("ReadImm16Hi", micro.phase.k) EXCEPT !.lo = d],
                 !.imm_lo = d]
<1>5. /\ ar \in ArchState /\ ar.pc = Machine!After(2) /\ ar.sp = st.sp /\ ar.hl = st.hl
      /\ ar.a = st.a /\ ar.cc = st.cc /\ ar.halt = "Running"
  <2>1. Machine!After(2) \in Word /\ Plus(Machine!After(1), 1) = Machine!After(2)
    BY <1>2, Following
  <2> QED BY <1>4, <2>1 DEF ArchState
<1>6. Commit(ar, mi)
  BY <1>1 DEF HandleReadImm16Lo
<1>7. mi.phase.n = "ReadImm16Hi" /\ mi.phase.lo = d
  BY <1>4 DEF MicroState, MkPhase
<1> HIDE DEF ar, mi
<1>8. /\ micro' = mi
      /\ arch'.pc = Machine!After(2) /\ arch'.sp = st.sp /\ arch'.hl = st.hl /\ arch'.a = st.a
      /\ arch'.cc = st.cc /\ arch'.halt = "Running"
      /\ ~ InstructionComplete(micro'.phase) => arch'.ime = st.ime
  <2>1. arch.ime = st.ime
    BY <1>4
  <2> QED BY <1>5, <1>6, <2>1, CommitFields
<1>9. ~ InstructionComplete(micro'.phase)
  BY <1>7, <1>8 DEF InstructionComplete
<1>10. /\ UNCHANGED <<st, op, bus>> /\ retired' = retired
       /\ log' = log \o Reads(d) /\ cycles' = cycles + 1 /\ cycles' \in Nat
  BY <1>1, <1>9, Recorded
<1>11. log' = <<Opcode, Operand(1, d)>> /\ cycles' = 2
  BY <1>2, <1>3, <1>10 DEF Made
<1>12. Ran(2, st.sp, st.cc)' /\ Made(<<Opcode, Operand(1, micro.phase.lo)>>, 2)'
  BY <1>7, <1>8, <1>9, <1>10, <1>11, AfterKept DEF Ran, Made
<1>13. AfterPrefix' /\ InImmediate'
  BY <1>7, <1>8, <1>12 DEF AfterPrefix, InImmediate
<1> QED
  BY <1>2, <1>7, <1>8, <1>10, <1>13, ToOperand DEF StillRunning

(* The high byte: a load or an untaken jump completes.                       *)
LEMMA Imm16HiTrace ==
    ASSUME SeqInv, TraceInv, SeqInv', Imm16HiStep
    PROVE  TraceInv' /\ (Machine!Next \/ UNCHANGED <<st, op, bus>>)
<1> DEFINE o == micro.decoded
           k == micro.phase.k
           l == micro.phase.lo
<1>1. PICK d \in Byte : HandleReadImm16Hi(d) /\ Record(Reads(d), o)
  BY DEF Imm16HiStep
<1>2. /\ micro.phase.n = "ReadImm16Hi" /\ st.halt # "Halted" /\ st \in ArchState
      /\ Ran(2, st.sp, st.cc) /\ Made(<<Opcode, Operand(1, l)>>, 2)
      /\ o \in Imm16Ops /\ k = Imm16Cont[o]
  BY <1>1 DEF HandleReadImm16Hi, TraceInv, InImmediate, InInstruction, SeqInv,
     SequencerConsistent, LatchMatchesPhase
<1>3. log \o Reads(d) = <<Opcode, Operand(1, l), Operand(2, d)>>
  <2>1. Reads(d) = <<Operand(2, d)>>
    BY <1>2, Requests DEF Ran, Operand
  <2> QED BY <1>2, <2>1, Concatenations DEF Made
<1>4. /\ arch \in ArchState /\ micro \in MicroState /\ l \in Byte
      /\ arch.pc = Machine!After(2) /\ arch.sp = st.sp /\ arch.cc = st.cc
      /\ arch.hl = st.hl /\ arch.a = st.a /\ arch.ime = st.ime /\ arch.halt = "Running"
  BY <1>2 DEF Ran, SeqInv, CpuTypeOK, MicroState, Phase
<1> DEFINE w == Pair(d, l)
           ar == [arch EXCEPT !.pc = Plus(arch.pc, 1),
                              !.sp = IF o = "LdSpNn" THEN w ELSE @,
                              !.hl = IF o = "LdRrNn" THEN w ELSE @]
           next ==
               CASE k = "LoadRegPair" -> Fetch
                 [] k \in {"JumpAbs", "CallTarget"} ->
                      IF CondMatches(o) THEN Execute(o) ELSE Fetch
                 [] k = "ReadAddrToA" -> ReadMem(w, "LoadAFromAddr")
                 [] k = "WriteAToAddr" -> WriteMem(w, arch.a, "StoreDone")
                 [] k = "StoreSpToAddr" ->
                      [WriteMem(w, Lo(arch.sp), "StoreSpHi")
                         EXCEPT !.lo = Hi(arch.sp), !.aux = Plus(w, 1)]
           mi == [micro EXCEPT !.phase = next, !.imm_lo = micro.phase.lo, !.imm_hi = d,
                               !.temp = IF k = "LoadRegPair" THEN @ ELSE w]
<1>5. w \in Word
  BY <1>4, PairWord
<1>6. /\ ar \in ArchState /\ ar.pc = Machine!After(3) /\ ar.a = st.a
      /\ o # "LdSpNn" => ar.sp = st.sp
      /\ o = "LdSpNn" => ar.sp = w
      /\ o # "LdRrNn" => ar.hl = st.hl
      /\ o = "LdRrNn" => ar.hl = w
      /\ ar.cc = st.cc /\ ar.halt = "Running"
  <2>1. Machine!After(3) \in Word /\ Plus(Machine!After(2), 1) = Machine!After(3)
    BY <1>2, Following
  <2> HIDE DEF w
  <2> QED BY <1>4, <1>5, <2>1 DEF ArchState
<1>7. Commit(ar, mi)
  BY <1>1 DEF HandleReadImm16Hi
<1>8. /\ mi.phase = next /\ mi.decoded = o /\ mi.imm_lo = l /\ mi.imm_hi = d
      /\ k # "LoadRegPair" => mi.temp = w
  BY <1>4 DEF MicroState
<1>9. /\ o \in {"LdRrNn", "LdSpNn"} => k = "LoadRegPair"
      /\ o \in {"Jp", "JpCc"} => k = "JumpAbs"
      /\ o \in {"Call", "CallCc"} => k = "CallTarget"
      /\ o = "LdANn" => k = "ReadAddrToA"
      /\ o = "LdNnA" => k = "WriteAToAddr"
      /\ o = "LdNnSp" => k = "StoreSpToAddr"
  BY <1>2, Continuations
<1>10. /\ o \in {"Jp", "Call"} => CondMatches(o)
       /\ o \in {"JpCc", "CallCc"} /\ st.cc => CondMatches(o)
       /\ o \in {"JpCc", "CallCc"} /\ ~ st.cc => ~ CondMatches(o)
  <2>1. st.cc \in BOOLEAN /\ arch.cc = st.cc
    BY <1>2, <1>4 DEF ArchState
  <2> QED BY <2>1 DEF CondMatches, CondOps
<1>11. /\ o \in {"LdRrNn", "LdSpNn"} \/ (o \in {"JpCc", "CallCc"} /\ ~ st.cc) => next = Fetch
       /\ o \in {"Jp", "Call"} \/ (o \in {"JpCc", "CallCc"} /\ st.cc) => next = Execute(o)
       /\ o = "LdANn" => next = ReadMem(w, "LoadAFromAddr")
       /\ o = "LdNnA" => next = WriteMem(w, st.a, "StoreDone")
       /\ o = "LdNnSp" => next = [WriteMem(w, Lo(st.sp), "StoreSpHi")
                                    EXCEPT !.lo = Hi(st.sp), !.aux = Plus(w, 1)]
  BY <1>4, <1>9, <1>10
<1>15. o = "LdNnSp" =>
         /\ next.n = "WriteMem" /\ next.k = "StoreSpHi" /\ next.addr = w
         /\ next.data = Lo(st.sp) /\ next.lo = Hi(st.sp) /\ next.aux = Plus(w, 1)
  <2> DEFINE ph == [WriteMem(w, Lo(st.sp), "StoreSpHi")
                      EXCEPT !.lo = Hi(st.sp), !.aux = Plus(w, 1)]
  <2> HIDE DEF w, next
  <2>1. /\ ph.n = "WriteMem" /\ ph.k = "StoreSpHi" /\ ph.addr = w
        /\ ph.data = Lo(st.sp) /\ ph.lo = Hi(st.sp) /\ ph.aux = Plus(w, 1)
    BY DEF WriteMem, MkPhase
  <2>2. o = "LdNnSp" => next = ph
    BY <1>11
  <2> HIDE DEF ph
  <2> QED BY <2>1, <2>2
<1> HIDE DEF w, ar, next, mi
<1>12. /\ micro' = mi
       /\ arch'.pc = ar.pc /\ arch'.sp = ar.sp /\ arch'.hl = ar.hl /\ arch'.a = ar.a
       /\ arch'.cc = ar.cc /\ arch'.halt = ar.halt
       /\ ~ InstructionComplete(micro'.phase) => arch'.ime = st.ime
       /\ InstructionComplete(micro'.phase) =>
            \A i : i \notin {"Ei", "Di", "Reti"} => arch'.ime = Machine!ImeAfter(i)
  <2>1. arch.ime = st.ime
    BY <1>4
  <2> QED BY <1>6, <1>7, <2>1, CommitFields
<1>13. ASSUME o \in {"LdRrNn", "LdSpNn"} \/ (o \in {"JpCc", "CallCc"} /\ ~ st.cc)
       PROVE  TraceInv' /\ Machine!Next
  <2>2. InstructionComplete(micro'.phase)
    BY <1>8, <1>11, <1>12, <1>13, PhaseFields DEF InstructionComplete
  <2>3. /\ TraceInv' /\ st' = arch' /\ op' = o
        /\ bus' = <<Opcode, Operand(1, l), Operand(2, d)>> /\ st' \in ArchState
    BY <1>1, <1>3, <2>2, Completed
  <2>4. /\ st'.pc = Machine!After(3) /\ st'.a = st.a /\ st'.cc = st.cc
        /\ o # "LdSpNn" => st'.sp = st.sp
        /\ o = "LdSpNn" => st'.sp = w
        /\ o # "LdRrNn" => st'.hl = st.hl
        /\ o = "LdRrNn" => st'.hl = w
        /\ st'.ime = Machine!ImeAfter(o) /\ st'.halt = "Running"
    BY <1>6, <1>12, <1>13, <2>2, <2>3
  <2>5. Machine!Imm16Effect(op', w, d) = <<st', <<>>>>
    <3>1. o = "LdRrNn" => st' = SetHl(Machine!Done(o, 3), w)
      BY <1>2, <2>3, <2>4, EndStates
    <3>2. o = "LdSpNn" => st' = SetSp(Machine!Done(o, 3), w)
      BY <1>2, <2>3, <2>4, EndStates
    <3>3. o \notin {"LdRrNn", "LdSpNn"} => st' = Machine!Done(o, 3)
      BY <1>2, <2>3, <2>4, EndStates
    <3> QED BY <1>13, <2>3, <3>1, <3>2, <3>3, Imm16Effects
  <2>6. bus' = <<Opcode, Operand(1, l), Operand(2, d)>> \o <<>>
    BY <2>3, Concatenations
  <2> QED BY <1>2, <1>4, <2>3, <2>5, <2>6, Imm16Done DEF w
<1>14. ASSUME o \notin {"LdRrNn", "LdSpNn"}, ~ (o \in {"JpCc", "CallCc"} /\ ~ st.cc)
       PROVE  TraceInv' /\ UNCHANGED <<st, op, bus>>
  <2>1. /\ micro'.phase = next /\ micro'.decoded = o /\ micro'.imm_lo = l /\ micro'.imm_hi = d
        /\ micro'.temp = w
    <3>1. k # "LoadRegPair"
      BY <1>2, <1>9, <1>14, OpClasses
    <3> QED BY <1>8, <1>12, <3>1
  <2>2. /\ micro'.phase.n \in {"Execute", "WriteMem", "ReadMem"}
        /\ o \in {"Jp", "JpCc", "Call", "CallCc"} <=> micro'.phase.n = "Execute"
        /\ o \in {"LdNnA", "LdNnSp"} <=> micro'.phase.n = "WriteMem"
        /\ o = "LdANn" <=> micro'.phase.n = "ReadMem"
    BY <1>2, <1>11, <1>14, <1>15, <2>1, PhaseFields, OpClasses
  <2>3. ~ InstructionComplete(micro'.phase)
    BY <2>2 DEF InstructionComplete
  <2>4. /\ UNCHANGED <<st, op, bus>> /\ retired' = retired
        /\ log' = log \o Reads(d) /\ cycles' = cycles + 1 /\ cycles' \in Nat
    BY <1>1, <2>3, Recorded
  <2>5. log' = <<Opcode, Operand(1, l), Operand(2, d)>> /\ cycles' = 3
    BY <1>2, <1>3, <2>4 DEF Made
  <2>6. /\ Ran(3, st.sp, st.cc)'
        /\ Made(<<Opcode, Operand(1, micro.imm_lo), Operand(2, micro.imm_hi)>>, 3)'
    BY <1>6, <1>12, <1>14, <2>1, <2>3, <2>4, <2>5, AfterKept DEF Ran, Made
  <2>7. StillRunning
    BY <2>4 DEF StillRunning
  <2>8. Pair(micro.imm_hi, micro.imm_lo)' = w
    BY <2>1 DEF w
  <2>9. CASE micro'.phase.n = "Execute"
    <3>1. InExecute'
      BY <1>14, <2>1, <2>2, <2>4, <2>6, <2>8, <2>9 DEF InExecute, ExecOps, CondOps
    <3> QED BY <1>2, <2>4, <2>7, <2>9, <3>1, ToExecute
  <2>10. CASE micro'.phase.n = "ReadMem"
    <3>1. micro'.phase.k = "LoadAFromAddr" /\ micro'.phase.addr = w
      BY <1>11, <2>1, <2>2, <2>10, PhaseFields
    <3>2. InRead'
      BY <2>1, <2>2, <2>6, <2>8, <2>10, <3>1 DEF InRead
    <3> QED BY <1>2, <2>4, <2>7, <2>10, <3>2, ToReadMem
  <2>11. CASE micro'.phase.n = "WriteMem"
    <3>1. /\ micro'.phase.addr = w
          /\ o = "LdNnA" => micro'.phase.k = "StoreDone" /\ micro'.phase.data = st.a
          /\ o = "LdNnSp" => /\ micro'.phase.k = "StoreSpHi" /\ micro'.phase.data = Lo(st.sp)
                             /\ micro'.phase.lo = Hi(st.sp) /\ micro'.phase.aux = Plus(w, 1)
      BY <1>11, <1>15, <2>1, <2>2, <2>11, PhaseFields
    <3>2. InStore' /\ InStoreSp' /\ InPush' /\ InRst' /\ InCall'
      BY <2>1, <2>2, <2>4, <2>6, <2>8, <2>11, <3>1
         DEF InStore, InStoreSp, InPush, InRst, InCall, Writing, WriteHlOps
    <3> QED BY <1>2, <2>4, <2>7, <2>11, <3>2, ToWriteMem
  <2> QED BY <2>2, <2>4, <2>9, <2>10, <2>11
<1> QED BY <1>13, <1>14

(* The load of a byte completes, and moves hl for LD (HL+) and LD (HL-).     *)
LEMMA LoadTrace ==
    ASSUME SeqInv, TraceInv, SeqInv', NEW v \in Byte, HandleReadMem(v),
           Record(Reads(v), micro.decoded), micro.phase.k \in {"LoadReg8", "LoadAFromAddr"}
    PROVE  TraceInv' /\ Machine!Next
<1> DEFINE o == micro.decoded
           k == micro.phase.k
           x == micro.phase.addr
           bytes == IF o = "LdANn" THEN 3 ELSE IF o = "LdhR" THEN 2 ELSE 1
           r == <<Read(x, v)>>
<1>1. /\ micro.phase.n = "ReadMem" /\ st.halt # "Halted" /\ st \in ArchState
      /\ o \in {"LdRHl", "LdAHli", "LdAHld", "LdAPp", "LdhR", "LdANn"}
      /\ k = "LoadReg8" => o \in {"LdRHl", "LdAHli", "LdAHld"}
      /\ k = "LoadAFromAddr" => o \in {"LdAPp", "LdhR", "LdANn"}
  BY DEF HandleReadMem, TraceInv, InInstruction, SeqInv, SequencerConsistent,
     LatchMatchesPhase, Continues
<1>2. /\ arch \in ArchState /\ micro \in MicroState /\ micro.imm_lo \in Byte
      /\ micro.imm_hi \in Byte
  BY DEF SeqInv, CpuTypeOK, MicroState
<1>3. /\ arch.pc = Machine!After(bytes) /\ arch.sp = st.sp /\ arch.cc = st.cc
      /\ arch.hl = st.hl /\ arch.a = st.a /\ arch.ime = st.ime /\ arch.halt = "Running"
      /\ o \notin {"LdhR", "LdANn"} => log = <<Opcode>> /\ x = st.hl
      /\ o = "LdhR" => log = <<Opcode, Operand(1, micro.imm_lo)>> /\ x = IoAddress(micro.imm_lo)
      /\ o = "LdANn" => /\ log = <<Opcode, Operand(1, micro.imm_lo), Operand(2, micro.imm_hi)>>
                        /\ x = Pair(micro.imm_hi, micro.imm_lo)
  BY <1>1 DEF TraceInv, InRead, Ran, Made
<1>4. Reads(v) = r
  BY <1>1, Requests
<1> DEFINE ar == [arch EXCEPT !.a = v, !.hl = HlAdjusted]
           mi == [micro EXCEPT !.phase = Fetch, !.temp = x]
<1>5. /\ HlAdjusted \in Word
      /\ o = "LdAHli" => HlAdjusted = Plus(st.hl, 1)
      /\ o = "LdAHld" => HlAdjusted = Minus(st.hl, 1)
      /\ o \notin {"LdAHli", "LdAHld"} => HlAdjusted = st.hl
  BY <1>1, <1>3, HlAdjustedType DEF HlAdjusted, SeqInv
<1>6. /\ ar \in ArchState /\ ar.pc = Machine!After(bytes) /\ ar.sp = st.sp /\ ar.a = v
      /\ ar.hl = HlAdjusted /\ ar.cc = st.cc /\ ar.halt = "Running"
  BY <1>2, <1>3, <1>5 DEF ArchState
<1>7. Commit(ar, mi) /\ mi.phase = Fetch
  BY <1>1, <1>2 DEF HandleReadMem, MicroState
<1>8. bytes \in 1 .. 3
  OBVIOUS
<1> HIDE DEF ar, mi, r, bytes
<1>9. /\ micro' = mi
      /\ arch'.pc = ar.pc /\ arch'.sp = ar.sp /\ arch'.hl = ar.hl /\ arch'.a = ar.a
      /\ arch'.cc = ar.cc /\ arch'.halt = ar.halt
      /\ InstructionComplete(micro'.phase) =>
            \A i : i \notin {"Ei", "Di", "Reti"} => arch'.ime = Machine!ImeAfter(i)
  <2>1. arch.ime = st.ime
    BY <1>3
  <2> QED BY <1>6, <1>7, <2>1, CommitFields
<1>10. InstructionComplete(micro'.phase)
  BY <1>7, <1>9, PhaseFields DEF InstructionComplete
<1>11. /\ TraceInv' /\ st' = arch' /\ op' = o /\ bus' = log \o r /\ st' \in ArchState
  BY <1>4, <1>10, Completed
<1>12. /\ st'.pc = Machine!After(bytes) /\ st'.sp = st.sp /\ st'.a = v /\ st'.cc = st.cc
       /\ st'.hl = HlAdjusted /\ st'.ime = Machine!ImeAfter(o) /\ st'.halt = "Running"
  BY <1>1, <1>6, <1>9, <1>10, <1>11
<1>13. CASE o = "LdhR"
  <2>1. st' = SetA(Machine!Done(o, bytes), v)
    BY <1>1, <1>5, <1>8, <1>11, <1>12, <1>13, EndStates
  <2>2. bytes = 2
    BY <1>13 DEF bytes
  <2>3. Machine!Imm8Effect(op', micro.imm_lo, v) = <<st', r>>
    BY <1>3, <1>11, <1>13, <2>1, <2>2, Imm8Effects DEF r
  <2>4. bus' = <<Opcode, Operand(1, micro.imm_lo)>> \o r
    BY <1>3, <1>11, <1>13
  <2> QED BY <1>1, <1>2, <1>11, <1>13, <2>3, <2>4, Imm8Done, OpClasses
<1>14. CASE o = "LdANn"
  <2>1. st' = SetA(Machine!Done(o, bytes), v)
    BY <1>1, <1>5, <1>8, <1>11, <1>12, <1>14, EndStates
  <2>2. bytes = 3
    BY <1>14 DEF bytes
  <2>3. Machine!Imm16Effect(op', Pair(micro.imm_hi, micro.imm_lo), v) = <<st', r>>
    BY <1>3, <1>11, <1>14, <2>1, <2>2, Imm16Effects DEF r
  <2>4. bus' = <<Opcode, Operand(1, micro.imm_lo), Operand(2, micro.imm_hi)>> \o r
    BY <1>3, <1>11, <1>14
  <2> QED BY <1>1, <1>2, <1>11, <1>14, <2>3, <2>4, Imm16Done, OpClasses
<1>15. CASE o \notin {"LdhR", "LdANn"}
  <2>1. bytes = 1
    BY <1>15 DEF bytes
  <2>2. /\ o \in {"LdRHl", "LdAPp"} => st' = SetA(Machine!Done(o, 1), v)
        /\ o \in {"LdAHli", "LdAHld"} => st' = SetAHl(Machine!Done(o, 1), v, HlAdjusted)
    BY <1>1, <1>5, <1>8, <1>11, <1>12, <2>1, EndStates
  <2>3. Machine!Done(o, 1).hl = st.hl
    BY <1>1, DoneState
  <2>4. Machine!MemoryEffect(op', v, v) = <<st', r>>
    <3>1. r = <<Read(st.hl, v)>>
      BY <1>3, <1>15 DEF r
    <3>2. CASE o \in {"LdRHl", "LdAPp"}
      BY <1>11, <2>2, <3>1, <3>2, MemoryEffects
    <3>3. CASE o = "LdAHli"
      BY <1>5, <1>11, <2>2, <2>3, <3>1, <3>3, MemoryEffects
    <3>4. CASE o = "LdAHld"
      BY <1>5, <1>11, <2>2, <2>3, <3>1, <3>4, MemoryEffects
    <3> QED BY <1>1, <1>15, <3>2, <3>3, <3>4
  <2>5. bus' = <<Opcode>> \o r
    BY <1>3, <1>11, <1>15
  <2>6. op' \in Machine!MemoryOps /\ op' \notin CbOps
    BY <1>1, <1>11, <1>15, SameClasses, OpClasses DEF Machine!MemoryOps, CbOps
  <2> QED BY <1>1, <1>11, <2>4, <2>5, <2>6, MemoryDone
<1> QED BY <1>13, <1>14, <1>15

(* The low byte from the stack.                                              *)
LEMMA PopLoTrace ==
    ASSUME SeqInv, TraceInv, SeqInv', NEW v \in Byte, HandleReadMem(v),
           Record(Reads(v), micro.decoded), micro.phase.k \in {"PopLo", "RetLo"}
    PROVE  TraceInv' /\ UNCHANGED <<st, op, bus>>
<1> DEFINE o == micro.decoded
           k == micro.phase.k
           up == Plus(arch.sp, 1)
           ph == [ReadMem(up, IF k = "PopLo" THEN "PopHi" ELSE "RetHi") EXCEPT !.lo = v]
           ar == [arch EXCEPT !.sp = up]
           mi == [micro EXCEPT !.phase = ph, !.temp = micro.phase.addr]
<1>1. /\ micro.phase.n = "ReadMem" /\ st.halt # "Halted" /\ st \in ArchState
      /\ k = "PopLo" => o = "Pop"
      /\ k = "RetLo" => o \in {"Ret", "Reti", "RetCc"}
  BY DEF HandleReadMem, TraceInv, InInstruction, SeqInv, SequencerConsistent,
     LatchMatchesPhase, Continues
<1>2. arch \in ArchState /\ micro \in MicroState
  BY DEF SeqInv, CpuTypeOK
<1>3. /\ arch.pc = Machine!After(1) /\ arch.sp = st.sp /\ arch.cc = st.cc
      /\ arch.hl = st.hl /\ arch.a = st.a /\ arch.ime = st.ime /\ arch.halt = "Running"
      /\ log = <<Opcode>> /\ micro.phase.addr = st.sp
      /\ o # "RetCc" => cycles = 1
      /\ o = "RetCc" => cycles = 2 /\ st.cc
  BY <1>1 DEF TraceInv, InRead, Ran, Made
<1>4. log \o Reads(v) = <<Opcode, Read(st.sp, v)>>
  <2>1. Reads(v) = <<Read(st.sp, v)>>
    BY <1>1, <1>3, Requests
  <2> QED BY <1>3, <2>1, Concatenations
<1>5. up \in Word /\ up = Plus(st.sp, 1)
  BY <1>2, <1>3, PlusWord, WordNat DEF ArchState
<1>6. /\ ar \in ArchState /\ ar.pc = Machine!After(1) /\ ar.sp = up /\ ar.hl = st.hl
      /\ ar.a = st.a /\ ar.cc = st.cc /\ ar.halt = "Running"
  <2> HIDE DEF up
  <2> QED BY <1>2, <1>3, <1>5 DEF ArchState
<1>7. Commit(ar, mi)
  BY <1>1 DEF HandleReadMem
<1>8. mi.phase = ph /\ mi.decoded = o
  BY <1>2 DEF MicroState
<1>9. /\ ph.n = "ReadMem" /\ ph.addr = up /\ ph.lo = v
      /\ k = "PopLo" => ph.k = "PopHi"
      /\ k = "RetLo" => ph.k = "RetHi"
  <2> HIDE DEF up
  <2> QED BY DEF ReadMem, MkPhase
<1> HIDE DEF ar, mi, ph, up
<1>10. /\ micro' = mi
       /\ arch'.pc = ar.pc /\ arch'.sp = ar.sp /\ arch'.hl = ar.hl /\ arch'.a = ar.a
       /\ arch'.cc = ar.cc /\ arch'.halt = ar.halt
       /\ ~ InstructionComplete(micro'.phase) => arch'.ime = st.ime
  <2>1. arch.ime = st.ime
    BY <1>3
  <2> QED BY <1>6, <1>7, <2>1, CommitFields
<1>11. ~ InstructionComplete(micro'.phase)
  BY <1>8, <1>9, <1>10 DEF InstructionComplete
<1>12. /\ UNCHANGED <<st, op, bus>> /\ retired' = retired
       /\ log' = log \o Reads(v) /\ cycles' = cycles + 1 /\ cycles' \in Nat
  BY <1>11, Recorded
<1>13. Ran(1, Plus(st.sp, 1), st.cc)'
  BY <1>5, <1>6, <1>10, <1>11, <1>12, AfterKept DEF Ran
<1>14. /\ micro'.decoded = o /\ micro'.phase.n = "ReadMem" /\ micro'.phase.k \in {"PopHi", "RetHi"}
       /\ micro'.phase.addr = Plus(st.sp, 1) /\ micro'.phase.lo = v
       /\ o \notin {"LdhR", "LdANn", "LdAPp"}
  BY <1>1, <1>5, <1>8, <1>9, <1>10
<1>15. log' = <<Opcode', Read(st'.sp, v)>>
  BY <1>4, <1>12, AfterKept
<1>16. /\ o # "RetCc" => cycles' = 2
       /\ o = "RetCc" => cycles' = 3 /\ st'.cc
  BY <1>3, <1>12
<1>17. InRead'
  BY <1>12, <1>13, <1>14, <1>15, <1>16 DEF InRead
<1> QED
  BY <1>1, <1>12, <1>14, <1>17, ToReadMem DEF StillRunning

(* The high byte of POP completes it.                                        *)
LEMMA PopHiTrace ==
    ASSUME SeqInv, TraceInv, SeqInv', NEW v \in Byte, HandleReadMem(v),
           Record(Reads(v), micro.decoded), micro.phase.k = "PopHi"
    PROVE  TraceInv' /\ Machine!Next
<1> DEFINE o == micro.decoded
           l == micro.phase.lo
           up == Plus(arch.sp, 1)
           w == Pair(v, l)
           ar == [arch EXCEPT !.sp = up, !.hl = w]
           mi == [[micro EXCEPT !.phase = Fetch, !.temp = w] EXCEPT !.imm_hi = 0]
<1>1. micro.phase.n = "ReadMem" /\ st.halt # "Halted" /\ st \in ArchState /\ o = "Pop"
  BY DEF HandleReadMem, TraceInv, InInstruction, SeqInv, SequencerConsistent,
     LatchMatchesPhase, Continues
<1>2. arch \in ArchState /\ micro \in MicroState /\ l \in Byte
  BY DEF SeqInv, CpuTypeOK, MicroState, Phase
<1>3. /\ arch.pc = Machine!After(1) /\ arch.sp = Plus(st.sp, 1) /\ arch.cc = st.cc
      /\ arch.hl = st.hl /\ arch.a = st.a /\ arch.ime = st.ime /\ arch.halt = "Running"
      /\ log = <<Opcode, Read(st.sp, l)>> /\ micro.phase.addr = Plus(st.sp, 1)
  BY <1>1 DEF TraceInv, InRead, Ran, Made
<1>4. Reads(v) = <<Read(Plus(st.sp, 1), v)>>
  BY <1>1, <1>3, Requests
<1>5. up \in Word /\ up = Plus(st.sp, 2) /\ w \in Word
  <2>1. up \in Word
    BY <1>2, <1>3, PlusWord, WordNat DEF ArchState
  <2>2. up = Plus(st.sp, 2)
    BY <1>1, <1>3, Counting DEF ArchState
  <2> QED BY <1>2, <2>1, <2>2, PairWord
<1>6. Commit(ar, mi)
  BY <1>1 DEF HandleReadMem
<1>7. mi.phase = Fetch
  BY <1>2 DEF MicroState
<1>8. /\ ar \in ArchState /\ ar.pc = Machine!After(1) /\ ar.sp = up /\ ar.hl = w
      /\ ar.a = st.a /\ ar.cc = st.cc /\ ar.halt = "Running"
  <2> HIDE DEF up, w
  <2> QED BY <1>2, <1>3, <1>5 DEF ArchState
<1> HIDE DEF ar, mi, up, w
<1>9. /\ micro' = mi
      /\ arch'.pc = ar.pc /\ arch'.sp = ar.sp /\ arch'.hl = ar.hl /\ arch'.a = ar.a
      /\ arch'.cc = ar.cc /\ arch'.halt = ar.halt
      /\ InstructionComplete(micro'.phase) =>
            \A i : i \notin {"Ei", "Di", "Reti"} => arch'.ime = Machine!ImeAfter(i)
  <2>1. arch.ime = st.ime
    BY <1>3
  <2> QED BY <1>6, <1>8, <2>1, CommitFields
<1>10. InstructionComplete(micro'.phase)
  BY <1>7, <1>9, PhaseFields DEF InstructionComplete
<1>11. /\ TraceInv' /\ st' = arch' /\ op' = o /\ bus' = log \o Reads(v) /\ st' \in ArchState
  BY <1>10, Completed
<1>12. /\ st'.pc = Machine!After(1) /\ st'.sp = Plus(st.sp, 2) /\ st'.a = st.a /\ st'.cc = st.cc
       /\ st'.hl = w /\ st'.ime = Machine!ImeAfter(o) /\ st'.halt = "Running"
  BY <1>1, <1>5, <1>8, <1>9, <1>10, <1>11
<1> DEFINE pop == <<Read(st.sp, l), Read(Plus(st.sp, 1), v)>>
<1>13. bus' = <<Opcode>> \o pop
  BY <1>3, <1>4, <1>11, Concatenations
<1>14. st' = SetHl(SetSp(Machine!Done(o, 1), Plus(st.sp, 2)), w)
  BY <1>1, <1>11, <1>12, EndStates
<1>15. Machine!MemoryEffect(op', l, v) = <<st', pop>>
  BY <1>1, <1>11, <1>14, MemoryEffects DEF w
<1>16. op' \in Machine!MemoryOps /\ op' \notin CbOps
  <2>1. op' = "Pop"
    BY <1>1, <1>11
  <2>2. "Pop" \in PopOps /\ "Pop" \notin CbOps
    BY OpClasses DEF CbOps
  <2>3. "Pop" \in Machine!MemoryOps
    BY <2>2, SameClasses DEF Machine!MemoryOps
  <2> QED BY <2>1, <2>2, <2>3
<1> HIDE DEF pop
<1> QED BY <1>1, <1>2, <1>11, <1>13, <1>15, <1>16, MemoryDone

(* The high byte of a return address: the jump takes one more cycle.         *)
LEMMA RetHiTrace ==
    ASSUME SeqInv, TraceInv, SeqInv', NEW v \in Byte, HandleReadMem(v),
           Record(Reads(v), micro.decoded), micro.phase.k = "RetHi"
    PROVE  TraceInv' /\ UNCHANGED <<st, op, bus>>
<1> DEFINE o == micro.decoded
           l == micro.phase.lo
           up == Plus(arch.sp, 1)
           w == Pair(v, l)
           ar == [arch EXCEPT !.sp = up]
           mi == [[micro EXCEPT !.phase = Execute(o), !.temp = w] EXCEPT !.imm_hi = 2]
<1>1. /\ micro.phase.n = "ReadMem" /\ st.halt # "Halted" /\ st \in ArchState
      /\ o \in {"Ret", "Reti", "RetCc"}
  BY DEF HandleReadMem, TraceInv, InInstruction, SeqInv, SequencerConsistent,
     LatchMatchesPhase, Continues
<1>2. arch \in ArchState /\ micro \in MicroState /\ l \in Byte
  BY DEF SeqInv, CpuTypeOK, MicroState, Phase
<1>3. /\ arch.pc = Machine!After(1) /\ arch.sp = Plus(st.sp, 1) /\ arch.cc = st.cc
      /\ arch.hl = st.hl /\ arch.a = st.a /\ arch.ime = st.ime /\ arch.halt = "Running"
      /\ log = <<Opcode, Read(st.sp, l)>> /\ micro.phase.addr = Plus(st.sp, 1)
      /\ o # "RetCc" => cycles = 2
      /\ o = "RetCc" => cycles = 3 /\ st.cc
  BY <1>1 DEF TraceInv, InRead, Ran, Made
<1>4. log \o Reads(v) = <<Opcode, Read(st.sp, l), Read(Plus(st.sp, 1), v)>>
  <2>1. Reads(v) = <<Read(Plus(st.sp, 1), v)>>
    BY <1>1, <1>3, Requests
  <2> QED BY <1>3, <2>1, Concatenations
<1>5. up \in Word /\ up = Plus(st.sp, 2)
  <2>1. up \in Word
    BY <1>2, <1>3, PlusWord, WordNat DEF ArchState
  <2>2. up = Plus(st.sp, 2)
    BY <1>1, <1>3, Counting DEF ArchState
  <2> QED BY <2>1, <2>2
<1>6. Commit(ar, mi)
  BY <1>1 DEF HandleReadMem
<1>7. mi.phase = Execute(o) /\ mi.decoded = o /\ mi.imm_hi = 2 /\ mi.temp = w
  BY <1>2 DEF MicroState
<1>8. /\ ar \in ArchState /\ ar.pc = Machine!After(1) /\ ar.sp = up /\ ar.hl = st.hl
      /\ ar.a = st.a /\ ar.cc = st.cc /\ ar.halt = "Running"
  <2> HIDE DEF up
  <2> QED BY <1>2, <1>3, <1>5 DEF ArchState
<1> HIDE DEF ar, mi, up, w
<1>9. /\ micro' = mi
      /\ arch'.pc = ar.pc /\ arch'.sp = ar.sp /\ arch'.hl = ar.hl /\ arch'.a = ar.a
      /\ arch'.cc = ar.cc /\ arch'.halt = ar.halt
      /\ ~ InstructionComplete(micro'.phase) => arch'.ime = st.ime
  <2>1. arch.ime = st.ime
    BY <1>3
  <2> QED BY <1>6, <1>8, <2>1, CommitFields
<1>10. micro'.phase.n = "Execute" /\ micro'.decoded = o /\ micro'.imm_hi = 2 /\ micro'.temp = w
  BY <1>7, <1>9, PhaseFields
<1>11. ~ InstructionComplete(micro'.phase)
  BY <1>10 DEF InstructionComplete
<1>12. /\ UNCHANGED <<st, op, bus>> /\ retired' = retired
       /\ log' = log \o Reads(v) /\ cycles' = cycles + 1 /\ cycles' \in Nat
  BY <1>11, Recorded
<1>13. Ran(1, Plus(st.sp, 2), st.cc)'
  BY <1>5, <1>8, <1>9, <1>11, <1>12, AfterKept DEF Ran
<1>14. log' = <<Opcode', Read(st'.sp, l), Read(Plus(st'.sp, 1), v)>>
  BY <1>4, <1>12, AfterKept
<1>15. /\ o # "RetCc" => cycles' = 3
       /\ o = "RetCc" => cycles' = 4 /\ st'.cc
  BY <1>3, <1>12
<1>16. /\ o # "RetCc" => Popped(3)'
       /\ o = "RetCc" => Popped(4)'
  BY <1>2, <1>10, <1>13, <1>14, <1>15 DEF Popped, Made, w
<1>17. InExecute'
  BY <1>1, <1>10, <1>15, <1>16 DEF InExecute, ExecOps, CondOps
<1> QED
  BY <1>1, <1>10, <1>12, <1>17, ToExecute DEF StillRunning

(* A cycle that commits ar and ends the instruction.                         *)
LEMMA Ended ==
    ASSUME TraceInv, SeqInv', NEW ar \in ArchState, NEW mi, NEW tr, NEW o, Commit(ar, mi),
           Record(tr, o), arch.ime = st.ime, mi.phase.n = "Fetch", o \notin {"Ei", "Di", "Reti"}
    PROVE  /\ TraceInv' /\ op' = o /\ bus' = log \o tr /\ st' \in ArchState
           /\ st'.pc = ar.pc /\ st'.sp = ar.sp /\ st'.hl = ar.hl /\ st'.a = ar.a
           /\ st'.cc = ar.cc /\ st'.halt = ar.halt /\ st'.ime = Machine!ImeAfter(o)
<1>1. /\ micro' = mi
      /\ arch'.pc = ar.pc /\ arch'.sp = ar.sp /\ arch'.hl = ar.hl /\ arch'.a = ar.a
      /\ arch'.cc = ar.cc /\ arch'.halt = ar.halt
      /\ InstructionComplete(micro'.phase) =>
            \A i : i \notin {"Ei", "Di", "Reti"} => arch'.ime = Machine!ImeAfter(i)
  BY CommitFields
<1>2. InstructionComplete(micro'.phase)
  BY <1>1 DEF InstructionComplete
<1>3. /\ TraceInv' /\ st' = arch' /\ op' = o /\ bus' = log \o tr /\ st' \in ArchState
  BY <1>2, Completed
<1> QED BY <1>1, <1>2, <1>3

(* A cycle that commits ar in the middle of the instruction.                 *)
LEMMA GoesOn ==
    ASSUME TraceInv, NEW ar \in ArchState, NEW mi, NEW tr, NEW o, Commit(ar, mi),
           Record(tr, o), arch.ime = st.ime, mi.phase.n \notin {"Fetch", "Halted"},
           ar.hl = st.hl, ar.a = st.a, ar.halt = "Running"
    PROVE  /\ StillRunning /\ UNCHANGED <<st, op, bus>>
           /\ log' = log \o tr /\ cycles' = cycles + 1
           /\ micro' = mi
           /\ \A n : ar.pc = Machine!After(n) => Ran(n, ar.sp, ar.cc)'
<1>1. /\ micro' = mi
      /\ arch'.pc = ar.pc /\ arch'.sp = ar.sp /\ arch'.hl = ar.hl /\ arch'.a = ar.a
      /\ arch'.cc = ar.cc /\ arch'.halt = ar.halt
      /\ ~ InstructionComplete(micro'.phase) => arch'.ime = st.ime
  BY CommitFields
<1>2. ~ InstructionComplete(micro'.phase)
  BY <1>1 DEF InstructionComplete
<1>3. /\ UNCHANGED <<st, op, bus>> /\ retired' = retired
      /\ log' = log \o tr /\ cycles' = cycles + 1 /\ cycles' \in Nat
  BY <1>2, Recorded
<1>4. \A n : Machine!After(n)' = Machine!After(n)
  BY <1>3 DEF Machine!After, Machine!HaltBug
<1> QED BY <1>1, <1>2, <1>3, <1>4 DEF Ran, StillRunning

(* An operand of the arithmetic unit has arrived.                            *)
LEMMA AluReadTrace ==
    ASSUME SeqInv, TraceInv, SeqInv', NEW v \in Byte, HandleReadMem(v),
           Record(Reads(v), micro.decoded), micro.phase.k = "AluFromMem"
    PROVE  TraceInv' /\ UNCHANGED <<st, op, bus>>
<1> DEFINE o == micro.decoded
           mi == [micro EXCEPT !.phase = Execute(o), !.temp = v]
<1>1. micro.phase.n = "ReadMem" /\ st.halt # "Halted" /\ st \in ArchState /\ o \in {"AluHl", "IncMem"}
  BY DEF HandleReadMem, TraceInv, InInstruction, SeqInv, SequencerConsistent,
     LatchMatchesPhase, Continues
<1>2. arch \in ArchState /\ micro \in MicroState
  BY DEF SeqInv, CpuTypeOK
<1>3. /\ arch.pc = Machine!After(1) /\ arch.sp = st.sp /\ arch.cc = st.cc
      /\ arch.hl = st.hl /\ arch.a = st.a /\ arch.ime = st.ime /\ arch.halt = "Running"
      /\ log = <<Opcode>> /\ cycles = 1 /\ micro.phase.addr = st.hl
  BY <1>1 DEF TraceInv, InRead, Ran, Made
<1>4. log \o Reads(v) = <<Opcode, Read(st.hl, v)>>
  <2>1. Reads(v) = <<Read(st.hl, v)>>
    BY <1>1, <1>3, Requests
  <2> QED BY <1>3, <2>1, Concatenations
<1>5. Commit(arch, mi)
  BY <1>1 DEF HandleReadMem
<1>6. mi.phase.n = "Execute" /\ mi.decoded = o /\ mi.temp = v
  BY <1>2, PhaseFields DEF MicroState
<1> HIDE DEF mi
<1>7. /\ StillRunning /\ UNCHANGED <<st, op, bus>>
      /\ log' = log \o Reads(v) /\ cycles' = cycles + 1 /\ micro' = mi
      /\ Ran(1, st.sp, st.cc)'
  BY <1>2, <1>3, <1>5, <1>6, GoesOn
<1>8. Made(<<Opcode, Read(st.hl, micro.temp)>>, 2)'
  <2>1. cycles' = 2 /\ micro'.temp = v /\ Opcode' = Opcode /\ st' = st
    BY <1>3, <1>6, <1>7, AfterKept
  <2> QED BY <1>4, <1>7, <2>1 DEF Made
<1>9. InExecute'
  BY <1>1, <1>6, <1>7, <1>8 DEF InExecute, ExecOps, CondOps
<1> QED
  BY <1>1, <1>6, <1>7, <1>9, ToExecute

(* The byte a CB instruction works on: BIT completes.                        *)
LEMMA BitReadTrace ==
    ASSUME SeqInv, TraceInv, SeqInv', NEW v \in Byte, HandleReadMem(v),
           Record(Reads(v), micro.decoded), micro.phase.k = "BitOpFromMem"
    PROVE  TraceInv' /\ (Machine!Next \/ UNCHANGED <<st, op, bus>>)
<1> DEFINE o == micro.decoded
           r == AluVal(v, v)
           f == AluFlag(v, v)
           ar == [arch EXCEPT !.cc = f]
           next == IF o = "CbBit" THEN Fetch ELSE WriteMem(micro.phase.addr, r, "StoreDone")
           mi == [micro EXCEPT !.phase = next, !.temp = r]
<1>1. micro.phase.n = "ReadMem" /\ st.halt # "Halted" /\ st \in ArchState /\ o \in {"CbBit", "CbRmw"}
  BY DEF HandleReadMem, TraceInv, InInstruction, SeqInv, SequencerConsistent,
     LatchMatchesPhase, Continues
<1>2. arch \in ArchState /\ micro \in MicroState /\ f \in BOOLEAN
  BY AluAssumption DEF SeqInv, CpuTypeOK
<1>3. /\ arch.pc = Machine!After(2) /\ arch.sp = st.sp /\ arch.cc = st.cc
      /\ arch.hl = st.hl /\ arch.a = st.a /\ arch.ime = st.ime /\ arch.halt = "Running"
      /\ log = <<Opcode, Operand(1, 0)>> /\ cycles = 2 /\ micro.phase.addr = st.hl
  BY <1>1 DEF TraceInv, InRead, Ran, Made
<1>4. Reads(v) = <<Read(st.hl, v)>>
  BY <1>1, <1>3, Requests
<1>5. Commit(ar, mi)
  BY <1>1 DEF HandleReadMem
<1>6. /\ ar \in ArchState /\ ar.pc = Machine!After(2) /\ ar.sp = st.sp /\ ar.hl = st.hl
      /\ ar.a = st.a /\ ar.cc = f /\ ar.halt = "Running"
  <2> HIDE DEF f
  <2> QED BY <1>2, <1>3 DEF ArchState
<1>7. mi.phase = next /\ mi.decoded = o
  BY <1>2 DEF MicroState
<1>8. /\ o = "CbBit" => next.n = "Fetch"
      /\ o = "CbRmw" => next.n = "WriteMem" /\ next.k = "StoreDone" /\ next.addr = st.hl /\ next.data = r
  BY <1>3, PhaseFields
<1> HIDE DEF ar, mi, next, r, f
<1>9. CASE o = "CbBit"
  <2>1. /\ TraceInv' /\ op' = o /\ bus' = log \o Reads(v) /\ st' \in ArchState
        /\ st'.pc = ar.pc /\ st'.sp = ar.sp /\ st'.hl = ar.hl /\ st'.a = ar.a
        /\ st'.cc = ar.cc /\ st'.halt = ar.halt /\ st'.ime = Machine!ImeAfter(o)
    BY <1>3, <1>5, <1>6, <1>7, <1>8, <1>9, Ended
  <2>2. st' = SetCc(Machine!Done(o, 2), f)
    BY <1>1, <1>6, <2>1, EndStates
  <2>3. Machine!MemoryEffect(op', v, v) = <<st', <<Read(st.hl, v)>>>>
    BY <1>9, <2>1, <2>2, MemoryEffects DEF f
  <2>4. op' \in Machine!MemoryOps /\ op' \in CbOps
    BY <1>9, <2>1, SameClasses DEF Machine!MemoryOps, CbOps
  <2>5. bus' = <<Opcode, Operand(1, 0)>> \o <<Read(st.hl, v)>>
    BY <1>3, <1>4, <2>1
  <2> QED BY <1>1, <2>1, <2>3, <2>4, <2>5, MemoryDone
<1>10. CASE o = "CbRmw"
  <2>1. /\ StillRunning /\ UNCHANGED <<st, op, bus>>
        /\ log' = log \o Reads(v) /\ cycles' = cycles + 1 /\ micro' = mi
        /\ Ran(2, st.sp, f)'
    BY <1>3, <1>5, <1>6, <1>7, <1>8, <1>10, GoesOn
  <2>2. log \o Reads(v) = <<Opcode, Operand(1, 0), Read(st.hl, v)>>
    BY <1>3, <1>4, Concatenations
  <2>3. Made(<<Opcode, Operand(1, 0), Read(st.hl, v)>>, 3)'
    <3>1. cycles' = 3 /\ Opcode' = Opcode /\ Operand(1, 0)' = Operand(1, 0) /\ st' = st
      BY <1>3, <2>1, AfterKept
    <3> QED BY <2>1, <2>2, <3>1 DEF Made
  <2>4. /\ micro'.phase.n = "WriteMem" /\ micro'.phase.k = "StoreDone" /\ micro'.decoded = "CbRmw"
        /\ Writing(st.hl, AluVal(v, v))'
    BY <1>7, <1>8, <1>10, <2>1 DEF r, Writing
  <2>5. Modified(2)'
    <3>1. Ran(2, st.sp, AluFlag(v, v))'
      BY <2>1 DEF f
    <3>2. Made(<<Opcode, Operand(1, 0), Read(st.hl, v)>>, 3)' /\ Writing(st.hl, AluVal(v, v))'
      BY <2>3, <2>4
    <3> QED BY <3>1, <3>2 DEF Modified
  <2>6. InStore' /\ InStoreSp' /\ InPush' /\ InRst' /\ InCall'
    BY <2>4, <2>5 DEF InStore, InStoreSp, InPush, InRst, InCall, WriteHlOps
  <2> QED BY <1>1, <2>1, <2>4, <2>6, ToWriteMem
<1> QED BY <1>1, <1>9, <1>10

(* Every read of memory.                                                     *)
LEMMA ReadTrace ==
    ASSUME SeqInv, TraceInv, SeqInv', ReadStep
    PROVE  TraceInv' /\ (Machine!Next \/ UNCHANGED <<st, op, bus>>)
<1>1. PICK v \in Byte : HandleReadMem(v) /\ Record(Reads(v), micro.decoded)
  BY DEF ReadStep
<1>2. micro.phase.k \in ReadConts
  BY <1>1 DEF HandleReadMem, SeqInv, SequencerConsistent, LatchMatchesPhase
<1>3. CASE micro.phase.k \in {"LoadReg8", "LoadAFromAddr"}
  BY <1>1, <1>3, LoadTrace
<1>4. CASE micro.phase.k \in {"PopLo", "RetLo"}
  BY <1>1, <1>4, PopLoTrace
<1>5. CASE micro.phase.k = "PopHi"
  BY <1>1, <1>5, PopHiTrace
<1>6. CASE micro.phase.k = "RetHi"
  BY <1>1, <1>6, RetHiTrace
<1>7. CASE micro.phase.k = "AluFromMem"
  BY <1>1, <1>7, AluReadTrace
<1>8. CASE micro.phase.k = "BitOpFromMem"
  BY <1>1, <1>8, BitReadTrace
<1> QED BY <1>2, <1>3, <1>4, <1>5, <1>6, <1>7, <1>8 DEF ReadConts

(* The last write of an instruction commits the state it leaves.             *)
LEMMA StoreEnds ==
    ASSUME SeqInv, TraceInv, SeqInv', HandleWriteMem, Record(Writes, micro.decoded),
           micro.phase.k = "StoreDone"
    PROVE  LET o == micro.decoded IN
           /\ micro.phase.n = "WriteMem" /\ st.halt # "Halted" /\ st \in ArchState
           /\ o \in WriteHlOps \cup {"LdHlN", "LdhW", "LdNnA", "LdNnSp", "IncMem", "CbRmw",
                                     "Push", "Call", "CallCc", "Rst"}
           /\ TraceInv' /\ op' = o /\ st' \in ArchState
           /\ bus' = log \o <<Write(micro.phase.addr, micro.phase.data)>>
           /\ st'.a = st.a /\ st'.cc = arch.cc /\ st'.halt = "Running"
           /\ st'.ime = Machine!ImeAfter(o)
           /\ o \notin {"LdHliA", "LdHldA"} => st'.hl = st.hl
           /\ o = "LdHliA" => st'.hl = Plus(st.hl, 1)
           /\ o = "LdHldA" => st'.hl = Minus(st.hl, 1)
           /\ o \in {"Push", "Call", "CallCc", "Rst"} => st'.sp = micro.phase.addr
           /\ o \notin {"Push", "Call", "CallCc", "Rst"} => st'.sp = arch.sp
           /\ o \in {"Call", "CallCc", "Rst"} => st'.pc = micro.temp
           /\ o \notin {"Call", "CallCc", "Rst"} => st'.pc = arch.pc
<1> DEFINE o == micro.decoded
           ad == micro.phase.addr
           ar == [arch EXCEPT
                    !.hl = HlAdjusted,
                    !.sp = IF o \in {"Push", "Call", "CallCc", "Rst"} THEN ad ELSE @,
                    !.pc = IF o \in {"Call", "CallCc", "Rst"} THEN micro.temp ELSE @]
           mi == [micro EXCEPT !.phase = Fetch, !.temp = ad]
<1>1. /\ micro.phase.n = "WriteMem" /\ st.halt # "Halted" /\ st \in ArchState
      /\ o \in WriteHlOps \cup {"LdHlN", "LdhW", "LdNnA", "LdNnSp", "IncMem", "CbRmw",
                                "Push", "Call", "CallCc", "Rst"}
  BY DEF HandleWriteMem, TraceInv, InInstruction, SeqInv, SequencerConsistent,
     LatchMatchesPhase, Continues
<1>2. arch \in ArchState /\ micro \in MicroState /\ ad \in Word /\ micro.temp \in Word
  BY DEF SeqInv, CpuTypeOK, MicroState, Phase
<1>3. arch.hl = st.hl /\ arch.a = st.a /\ arch.ime = st.ime /\ arch.halt = "Running"
  <2>1. CASE o \in WriteHlOps \cup {"LdHlN", "LdhW", "LdNnA", "LdNnSp", "Push"}
    BY <1>1, <2>1 DEF TraceInv, InStore, Ran
  <2>2. CASE o \in {"IncMem", "CbRmw"}
    BY <1>1, <2>2 DEF TraceInv, InStore, Modified, Ran
  <2>3. CASE o = "Rst"
    BY <1>1, <2>3 DEF TraceInv, InRst, Ran
  <2>4. CASE o \in {"Call", "CallCc"}
    BY <1>1, <2>4 DEF TraceInv, InCall, Ran
  <2> QED BY <1>1, <2>1, <2>2, <2>3, <2>4
<1>4. Writes = <<Write(ad, micro.phase.data)>>
  BY <1>1, Requests
<1>5. Commit(ar, mi)
  BY <1>1 DEF HandleWriteMem
<1>6. /\ HlAdjusted \in Word
      /\ o = "LdHliA" => HlAdjusted = Plus(st.hl, 1)
      /\ o = "LdHldA" => HlAdjusted = Minus(st.hl, 1)
      /\ o \notin {"LdHliA", "LdHldA"} => HlAdjusted = st.hl
  BY <1>1, <1>3, HlAdjustedType DEF HlAdjusted, SeqInv, WriteHlOps
<1>7. /\ ar \in ArchState /\ ar.hl = HlAdjusted /\ ar.a = st.a /\ ar.cc = arch.cc
      /\ ar.halt = "Running"
      /\ o \in {"Push", "Call", "CallCc", "Rst"} => ar.sp = ad
      /\ o \notin {"Push", "Call", "CallCc", "Rst"} => ar.sp = arch.sp
      /\ o \in {"Call", "CallCc", "Rst"} => ar.pc = micro.temp
      /\ o \notin {"Call", "CallCc", "Rst"} => ar.pc = arch.pc
  BY <1>2, <1>3, <1>6 DEF ArchState
<1>8. mi.phase.n = "Fetch"
  BY <1>2, PhaseFields DEF MicroState
<1>9. o \notin {"Ei", "Di", "Reti"}
  BY <1>1 DEF WriteHlOps
<1> HIDE DEF ar, mi
<1>10. /\ TraceInv' /\ op' = o /\ bus' = log \o Writes /\ st' \in ArchState
       /\ st'.pc = ar.pc /\ st'.sp = ar.sp /\ st'.hl = ar.hl /\ st'.a = ar.a
       /\ st'.cc = ar.cc /\ st'.halt = ar.halt /\ st'.ime = Machine!ImeAfter(o)
  BY <1>3, <1>5, <1>7, <1>8, <1>9, Ended
<1> QED BY <1>1, <1>4, <1>6, <1>7, <1>10

(* A call leaves the return address on the stack and sp below it.            *)
LEMMA CalledState == \A end, w : Machine!Called(end, w) = SetPcSp(end, w, Minus(st.sp, 2))
BY SameWords DEF Machine!Called, SetPcSp

(* Stores at (hl) and PUSH.                                                  *)
LEMMA StoreTrace ==
    ASSUME SeqInv, TraceInv, SeqInv', HandleWriteMem, Record(Writes, micro.decoded),
           micro.phase.k = "StoreDone",
           micro.decoded \in WriteHlOps \cup {"IncMem", "CbRmw", "Push"}
    PROVE  TraceInv' /\ Machine!Next
<1> DEFINE o == micro.decoded
           wr == <<Write(micro.phase.addr, micro.phase.data)>>
<1>1. /\ micro.phase.n = "WriteMem" /\ st.halt # "Halted" /\ st \in ArchState
      /\ TraceInv' /\ op' = o /\ st' \in ArchState /\ bus' = log \o wr
      /\ st'.a = st.a /\ st'.cc = arch.cc /\ st'.halt = "Running" /\ st'.ime = Machine!ImeAfter(o)
      /\ o \notin {"LdHliA", "LdHldA"} => st'.hl = st.hl
      /\ o = "LdHliA" => st'.hl = Plus(st.hl, 1)
      /\ o = "LdHldA" => st'.hl = Minus(st.hl, 1)
      /\ o = "Push" => st'.sp = micro.phase.addr
      /\ o # "Push" => st'.sp = arch.sp
      /\ st'.pc = arch.pc
  BY StoreEnds DEF WriteHlOps
<1> DEFINE end == Machine!Done(o, 1)
<1>2. end.hl = st.hl /\ end.sp = st.sp
  BY <1>1, DoneState
<1>3. CASE o \in WriteHlOps
  <2>1. /\ arch.pc = Machine!After(1) /\ arch.sp = st.sp /\ arch.cc = st.cc
        /\ log = <<Opcode>> /\ wr = <<Write(st.hl, st.a)>>
    BY <1>1, <1>3 DEF TraceInv, InStore, Ran, Made, Writing
  <2>2. /\ o = "LdHlR" => st' = end
        /\ o # "LdHlR" => st' = SetHl(end, st'.hl)
    BY <1>1, <1>3, <2>1, EndStates DEF WriteHlOps
  <2>3. Machine!MemoryEffect(op', 0, 0) = <<st', wr>>
    <3> DEFINE put == <<Write(st.hl, st.a)>>
               effect == Machine!MemoryEffect(op', 0, 0)
    <3>1. op' = o
      BY <1>1
    <3>2. /\ op' = "LdHlR" => effect = <<end, put>>
          /\ op' = "LdHliA" => effect = <<SetHl(end, Plus(end.hl, 1)), put>>
          /\ op' = "LdHldA" => effect = <<SetHl(end, Minus(end.hl, 1)), put>>
      BY <3>1, SameWords
         DEF Machine!MemoryEffect, Machine!Done, SetHl
    <3>3. wr = put
      BY <2>1
    <3> HIDE DEF end, wr, put, effect
    <3>4. effect = <<st', wr>>
      BY <1>1, <1>2, <1>3, <2>2, <3>1, <3>2, <3>3 DEF WriteHlOps
    <3> QED BY <3>4 DEF effect
  <2>4. op' \in Machine!MemoryOps /\ op' \notin CbOps
    BY <1>1, <1>3, SameClasses DEF Machine!MemoryOps, CbOps, WriteHlOps
  <2> HIDE DEF end, wr
  <2> QED BY <1>1, <2>1, <2>3, <2>4, SmallBytes, MemoryDone
<1>4. CASE o = "Push"
  <2>1. /\ arch.pc = Machine!After(1) /\ arch.cc = st.cc
        /\ log = <<Opcode, Write(Minus(st.sp, 1), Hi(st.hl))>>
        /\ wr = <<Write(Minus(st.sp, 2), Lo(st.hl))>> /\ micro.phase.addr = Minus(st.sp, 2)
    BY <1>1, <1>4 DEF TraceInv, InStore, Ran, Made, Writing
  <2>2. st' = SetSp(end, Minus(st.sp, 2))
    BY <1>1, <1>4, <2>1, EndStates
  <2>3. Machine!MemoryEffect(op', 0, 0) = <<st', Machine!PushWord(st.hl)>>
    <3>1. Machine!MemoryEffect(op', 0, 0)
              = <<SetSp(end, Minus(end.sp, 2)), Machine!PushWord(st.hl)>>
      BY <1>1, <1>4, MemoryEffects
    <3> QED BY <1>2, <2>2, <3>1
  <2>4. "Push" \in Machine!MemoryOps /\ "Push" \notin CbOps
    BY DEF Machine!MemoryOps, CbOps
  <2>5. bus' = <<Opcode>> \o Machine!PushWord(st.hl)
    <3>1. <<Opcode, Write(Minus(st.sp, 1), Hi(st.hl))>> \o <<Write(Minus(st.sp, 2), Lo(st.hl))>>
          = <<Opcode>> \o Machine!PushWord(st.hl)
      <4>1. Machine!PushWord(st.hl) = <<Write(Minus(st.sp, 1), Hi(st.hl)), Write(Minus(st.sp, 2), Lo(st.hl))>>
        BY PushedWord
      <4>2. <<Opcode, Write(Minus(st.sp, 1), Hi(st.hl))>> \o <<Write(Minus(st.sp, 2), Lo(st.hl))>>
            = <<Opcode, Write(Minus(st.sp, 1), Hi(st.hl)), Write(Minus(st.sp, 2), Lo(st.hl))>>
        BY Concatenations
      <4>3. <<Opcode>> \o <<Write(Minus(st.sp, 1), Hi(st.hl)), Write(Minus(st.sp, 2), Lo(st.hl))>>
            = <<Opcode, Write(Minus(st.sp, 1), Hi(st.hl)), Write(Minus(st.sp, 2), Lo(st.hl))>>
        BY Concatenations
      <4> QED BY <4>1, <4>2, <4>3
    <3> QED BY <1>1, <1>4, <2>1, <3>1
  <2> HIDE DEF end
  <2> QED BY <1>1, <1>4, <2>3, <2>4, <2>5, SmallBytes, MemoryDone
<1>5. CASE o \in {"IncMem", "CbRmw"}
  <2> DEFINE n == IF o = "IncMem" THEN 1 ELSE 2
  <2>1. PICK l \in Byte :
           /\ arch.pc = Machine!After(n) /\ arch.sp = st.sp /\ arch.cc = AluFlag(l, l)
           /\ o = "IncMem" => log = <<Opcode, Read(st.hl, l)>>
           /\ o = "CbRmw" => log = <<Opcode, Operand(1, 0), Read(st.hl, l)>>
           /\ wr = <<Write(st.hl, AluVal(l, l))>>
    BY <1>1, <1>5 DEF TraceInv, InStore, Modified, Ran, Made, Writing
  <2> DEFINE get == <<Read(st.hl, l), Write(st.hl, AluVal(l, l))>>
  <2>2. Append(<<Read(st.hl, l)>>, Write(st.hl, AluVal(l, l))) = get
    BY Concatenations
  <2>3. n \in 1 .. 3
    OBVIOUS
  <2>4. st' = SetCc(Machine!Done(o, n), AluFlag(l, l))
    <3> HIDE DEF n
    <3> QED BY <1>1, <1>5, <2>1, <2>3, EndStates
  <2>5. Machine!MemoryEffect(op', l, l) = <<st', get>>
    <3> HIDE DEF get
    <3> QED BY <1>1, <1>5, <2>2, <2>4, MemoryEffects
  <2>6. /\ o \in Machine!MemoryOps
        /\ o \in CbOps <=> o = "CbRmw"
    BY <1>5, SameClasses, OpClasses DEF Machine!MemoryOps, CbOps
  <2>7. /\ o = "IncMem" => bus' = <<Opcode>> \o get
        /\ o = "CbRmw" => bus' = <<Opcode, Operand(1, 0)>> \o get
    <3>1. /\ <<Opcode, Read(st.hl, l)>> \o <<Write(st.hl, AluVal(l, l))>> = <<Opcode>> \o get
          /\ <<Opcode, Operand(1, 0), Read(st.hl, l)>> \o <<Write(st.hl, AluVal(l, l))>>
             = <<Opcode, Operand(1, 0)>> \o get
      BY Concatenations
    <3> HIDE DEF get, wr
    <3> QED BY <1>1, <1>5, <2>1, <3>1
  <2> HIDE DEF end, get
  <2> QED BY <1>1, <1>5, <2>5, <2>6, <2>7, MemoryDone
<1> QED BY <1>3, <1>4, <1>5

(* Stores whose address or datum is an operand.                              *)
LEMMA StoreOperandTrace ==
    ASSUME SeqInv, TraceInv, SeqInv', HandleWriteMem, Record(Writes, micro.decoded),
           micro.phase.k = "StoreDone",
           micro.decoded \in {"LdHlN", "LdhW", "LdNnA", "LdNnSp"}
    PROVE  TraceInv' /\ Machine!Next
<1> DEFINE o == micro.decoded
           wr == <<Write(micro.phase.addr, micro.phase.data)>>
           l == micro.imm_lo
           h == micro.imm_hi
           w == Pair(h, l)
           n == IF o \in {"LdHlN", "LdhW"} THEN 2 ELSE 3
<1>1. /\ micro.phase.n = "WriteMem" /\ st.halt # "Halted" /\ st \in ArchState
      /\ TraceInv' /\ op' = o /\ st' \in ArchState /\ bus' = log \o wr
      /\ st'.a = st.a /\ st'.cc = arch.cc /\ st'.halt = "Running" /\ st'.ime = Machine!ImeAfter(o)
      /\ st'.hl = st.hl /\ st'.sp = arch.sp /\ st'.pc = arch.pc
  BY StoreEnds
<1>2. l \in Byte /\ h \in Byte
  BY DEF SeqInv, CpuTypeOK, MicroState
<1>3. arch.pc = Machine!After(n) /\ arch.sp = st.sp /\ arch.cc = st.cc
  BY <1>1 DEF TraceInv, InStore, Ran
<1>4. n \in 1 .. 3
  OBVIOUS
<1> HIDE DEF n
<1>5. st' = Machine!Done(o, n)
  BY <1>1, <1>3, <1>4, EndStates
<1>6. CASE o \in {"LdHlN", "LdhW"}
  <2>1. /\ log = <<Opcode, Operand(1, l)>>
        /\ o = "LdHlN" => wr = <<Write(st.hl, l)>>
        /\ o = "LdhW" => wr = <<Write(IoAddress(l), st.a)>>
    BY <1>1, <1>6 DEF TraceInv, InStore, Made, Writing
  <2>2. n = 2
    BY <1>6 DEF n
  <2> HIDE DEF wr
  <2>3. Machine!Imm8Effect(op', l, 0) = <<st', wr>>
    BY <1>1, <1>5, <1>6, <2>1, <2>2, Imm8Effects
  <2>4. op' \in Imm8Ops /\ bus' = <<Opcode, Operand(1, l)>> \o wr
    BY <1>1, <1>6, <2>1, OpClasses
  <2> QED BY <1>1, <1>2, <2>3, <2>4, SmallBytes, Imm8Done
<1>7. CASE o = "LdNnA"
  <2>1. log = <<Opcode, Operand(1, l), Operand(2, h)>> /\ wr = <<Write(w, st.a)>>
    BY <1>1, <1>7 DEF TraceInv, InStore, Made, Writing
  <2>2. n = 3
    BY <1>7 DEF n
  <2> HIDE DEF wr
  <2>3. Machine!Imm16Effect(op', w, 0) = <<st', wr>>
    BY <1>1, <1>5, <1>7, <2>1, <2>2, Imm16Effects
  <2>4. op' \in Imm16Ops /\ bus' = <<Opcode, Operand(1, l), Operand(2, h)>> \o wr
    BY <1>1, <1>7, <2>1, OpClasses
  <2> QED BY <1>1, <1>2, <2>3, <2>4, SmallBytes, Imm16Done
<1>8. CASE o = "LdNnSp"
  <2> DEFINE first == Write(w, Lo(st.sp))
             second == Write(Plus(w, 1), Hi(st.sp))
  <2>1. /\ log = <<Opcode, Operand(1, l), Operand(2, h), first>>
        /\ wr = <<second>>
    BY <1>1, <1>8 DEF TraceInv, InStore, Made, Writing
  <2>2. n = 3
    BY <1>8 DEF n
  <2>3. Machine!Imm16Effect(op', w, 0) = <<st', <<first, second>>>>
    BY <1>1, <1>5, <1>8, <2>2, Imm16Effects
  <2> HIDE DEF wr, first, second
  <2>4. op' \in Imm16Ops
    BY <1>1, <1>8, OpClasses
  <2>5. bus' = <<Opcode, Operand(1, l), Operand(2, h)>> \o <<first, second>>
    <3>1. /\ <<Opcode, Operand(1, l), Operand(2, h), first>> \o <<second>>
             = <<Opcode, Operand(1, l), Operand(2, h), first, second>>
          /\ <<Opcode, Operand(1, l), Operand(2, h)>> \o <<first, second>>
             = <<Opcode, Operand(1, l), Operand(2, h), first, second>>
      BY Concatenations
    <3> QED BY <1>1, <2>1, <3>1
  <2> QED BY <1>1, <1>2, <2>3, <2>4, <2>5, SmallBytes, Imm16Done
<1> QED BY <1>6, <1>7, <1>8

(* The end of a call: the return address is on the stack.                    *)
LEMMA CallTrace ==
    ASSUME SeqInv, TraceInv, SeqInv', HandleWriteMem, Record(Writes, micro.decoded),
           micro.phase.k = "StoreDone", micro.decoded \in {"Call", "CallCc", "Rst"}
    PROVE  TraceInv' /\ Machine!Next
<1> DEFINE o == micro.decoded
           wr == <<Write(micro.phase.addr, micro.phase.data)>>
           l == micro.imm_lo
           n == IF o = "Rst" THEN 1 ELSE 3
           high == Write(Minus(st.sp, 1), Hi(Machine!After(n)))
           low == Write(Minus(st.sp, 2), Lo(Machine!After(n)))
<1>1. /\ micro.phase.n = "WriteMem" /\ st.halt # "Halted" /\ st \in ArchState
      /\ TraceInv' /\ op' = o /\ st' \in ArchState /\ bus' = log \o wr
      /\ st'.a = st.a /\ st'.cc = arch.cc /\ st'.halt = "Running" /\ st'.ime = Machine!ImeAfter(o)
      /\ st'.hl = st.hl /\ st'.sp = micro.phase.addr /\ st'.pc = micro.temp
  BY StoreEnds
<1>2. l \in Byte
  BY DEF SeqInv, CpuTypeOK, MicroState
<1>3. n \in 1 .. 3 /\ Machine!Done(o, n).pc = Machine!After(n)
  BY <1>1, DoneState
<1>4. Machine!PushWord(Machine!After(n)) = <<high, low>>
  BY PushedWord
<1>5. CASE o = "Rst"
  <2>1. /\ log = <<Opcode, high>> /\ wr = <<low>> /\ micro.phase.addr = Minus(st.sp, 2)
        /\ arch.cc = st.cc /\ micro.temp = RstVector
    BY <1>1, <1>5 DEF TraceInv, InRst, Made, Writing, Ran
  <2>2. n = 1
    BY <1>5
  <2> HIDE DEF n, high, low
  <2>3. st' = SetPcSp(Machine!Done(o, n), RstVector, Minus(st.sp, 2))
    BY <1>1, <1>3, <2>1, EndStates
  <2>4. Machine!MemoryEffect(op', 0, 0) = <<st', <<high, low>>>>
    <3>1. Machine!MemoryEffect(op', 0, 0)
          = <<Machine!Called(Machine!Done(op', 1), RstVector),
              Machine!PushWord(Machine!Done(op', 1).pc)>>
      BY <1>1, <1>5, MemoryEffects
    <3>2. Machine!Called(Machine!Done(o, n), RstVector) = st'
      BY <2>3, CalledState
    <3> QED BY <1>1, <1>3, <1>4, <2>2, <3>1, <3>2
  <2>5. "Rst" \in Machine!MemoryOps /\ "Rst" \notin CbOps
    BY DEF Machine!MemoryOps, CbOps
  <2>6. bus' = <<Opcode>> \o <<high, low>>
    <3>1. <<Opcode, high>> \o <<low>> = <<Opcode>> \o <<high, low>>
      BY Concatenations
    <3> QED BY <1>1, <2>1, <3>1
  <2> QED BY <1>1, <1>5, <2>4, <2>5, <2>6, SmallBytes, MemoryDone
<1>6. CASE o \in {"Call", "CallCc"}
  <2>1. PICK h \in Byte :
           /\ log = <<Opcode, Operand(1, l), Operand(2, h), high>> /\ wr = <<low>>
           /\ micro.phase.addr = Minus(st.sp, 2) /\ arch.cc = st.cc
           /\ micro.temp = Pair(h, l)
           /\ o = "CallCc" => st.cc
    BY <1>1, <1>6 DEF TraceInv, InCall, Made, Writing, Ran
  <2>2. n = 3
    BY <1>6
  <2> HIDE DEF n, high, low
  <2>3. st' = SetPcSp(Machine!Done(o, n), Pair(h, l), Minus(st.sp, 2))
    BY <1>1, <1>3, <2>1, EndStates
  <2>4. Machine!Imm16Effect(op', Pair(h, l), 0) = <<st', <<high, low>>>>
    <3>1. Machine!Imm16Effect(op', Pair(h, l), 0)
          = <<Machine!Called(Machine!Done(op', 3), Pair(h, l)),
              Machine!PushWord(Machine!Done(op', 3).pc)>>
      BY <1>1, <1>6, <2>1, Imm16Effects
    <3>2. Machine!Called(Machine!Done(o, n), Pair(h, l)) = st'
      BY <2>3, CalledState
    <3> QED BY <1>1, <1>3, <1>4, <2>2, <3>1, <3>2
  <2>5. op' \in Imm16Ops
    BY <1>1, <1>6, OpClasses
  <2>6. bus' = <<Opcode, Operand(1, l), Operand(2, h)>> \o <<high, low>>
    <3>1. /\ <<Opcode, Operand(1, l), Operand(2, h), high>> \o <<low>>
             = <<Opcode, Operand(1, l), Operand(2, h), high, low>>
          /\ <<Opcode, Operand(1, l), Operand(2, h)>> \o <<high, low>>
             = <<Opcode, Operand(1, l), Operand(2, h), high, low>>
      BY Concatenations
    <3> QED BY <1>1, <2>1, <3>1
  <2> QED BY <1>1, <1>2, <2>1, <2>4, <2>5, <2>6, SmallBytes, Imm16Done
<1> QED BY <1>5, <1>6

(* The low byte of sp is stored; its high byte follows.                      *)
LEMMA StoreSpTrace ==
    ASSUME SeqInv, TraceInv, HandleWriteMem, Record(Writes, micro.decoded),
           micro.phase.k = "StoreSpHi"
    PROVE  TraceInv' /\ UNCHANGED <<st, op, bus>>
<1> DEFINE ph == micro.phase
           l == micro.imm_lo
           h == micro.imm_hi
           w == Pair(h, l)
           next == WriteMem(ph.aux, ph.lo, "StoreDone")
           mi == [micro EXCEPT !.phase = next, !.temp = ph.aux]
<1>1. ph.n = "WriteMem" /\ st.halt # "Halted" /\ micro.decoded = "LdNnSp"
  BY DEF HandleWriteMem, TraceInv, InInstruction, SeqInv, SequencerConsistent,
     LatchMatchesPhase, Continues
<1>2. arch \in ArchState /\ micro \in MicroState
  BY DEF SeqInv, CpuTypeOK
<1>3. /\ arch.pc = Machine!After(3) /\ arch.sp = st.sp /\ arch.cc = st.cc
      /\ arch.hl = st.hl /\ arch.a = st.a /\ arch.ime = st.ime /\ arch.halt = "Running"
      /\ log = <<Opcode, Operand(1, l), Operand(2, h)>> /\ cycles = 3
      /\ ph.addr = w /\ ph.data = Lo(st.sp) /\ ph.lo = Hi(st.sp) /\ ph.aux = Plus(w, 1)
  BY <1>1 DEF TraceInv, InStoreSp, Ran, Made, Writing
<1>4. log \o Writes = <<Opcode, Operand(1, l), Operand(2, h), Write(w, Lo(st.sp))>>
  <2>1. Writes = <<Write(w, Lo(st.sp))>>
    BY <1>1, <1>3, Requests
  <2> QED BY <1>3, <2>1, Concatenations
<1>5. Commit(arch, mi)
  BY <1>1 DEF HandleWriteMem
<1>6. mi.phase = next /\ mi.decoded = "LdNnSp" /\ mi.imm_lo = l /\ mi.imm_hi = h
  BY <1>1, <1>2 DEF MicroState
<1>7. /\ next.n = "WriteMem" /\ next.k = "StoreDone"
      /\ next.addr = Plus(w, 1) /\ next.data = Hi(st.sp)
  <2> HIDE DEF w
  <2> QED BY <1>3, PhaseFields
<1> HIDE DEF mi, next
<1>8. /\ StillRunning /\ UNCHANGED <<st, op, bus>>
      /\ log' = log \o Writes /\ cycles' = cycles + 1 /\ micro' = mi
      /\ Ran(3, st.sp, st.cc)'
  BY <1>2, <1>3, <1>5, <1>6, <1>7, GoesOn
<1>9. /\ micro'.phase.n = "WriteMem" /\ micro'.phase.k = "StoreDone" /\ micro'.decoded = "LdNnSp"
      /\ micro'.imm_lo = l /\ micro'.imm_hi = h
      /\ Writing(Plus(Pair(micro.imm_hi, micro.imm_lo), 1), Hi(st.sp))'
  BY <1>6, <1>7, <1>8 DEF Writing
<1>10. Made(<<Opcode, Operand(1, micro.imm_lo), Operand(2, micro.imm_hi),
              Write(Pair(micro.imm_hi, micro.imm_lo), Lo(st.sp))>>, 4)'
  <2>1. /\ cycles' = 4 /\ Opcode' = Opcode /\ st' = st
        /\ \A d : Operand(1, d)' = Operand(1, d) /\ Operand(2, d)' = Operand(2, d)
    BY <1>3, <1>8, AfterKept
  <2> QED BY <1>4, <1>8, <1>9, <2>1 DEF Made
<1>11. InStore' /\ InStoreSp' /\ InPush' /\ InRst' /\ InCall'
  BY <1>8, <1>9, <1>10 DEF InStore, InStoreSp, InPush, InRst, InCall, WriteHlOps
<1> QED BY <1>1, <1>8, <1>9, <1>11, ToWriteMem

(* PUSH has stored the high byte; the low byte follows.                      *)
LEMMA PushTrace ==
    ASSUME SeqInv, TraceInv, HandleWriteMem, Record(Writes, micro.decoded),
           micro.phase.k = "PushLo"
    PROVE  TraceInv' /\ UNCHANGED <<st, op, bus>>
<1> DEFINE ph == micro.phase
           ar == [arch EXCEPT !.sp = ph.addr]
           next == WriteMem(ph.aux, ph.lo, "StoreDone")
           mi == [micro EXCEPT !.phase = next, !.temp = ph.aux]
<1>1. ph.n = "WriteMem" /\ st.halt # "Halted" /\ micro.decoded = "Push"
  BY DEF HandleWriteMem, TraceInv, InInstruction, SeqInv, SequencerConsistent,
     LatchMatchesPhase, Continues
<1>2. arch \in ArchState /\ micro \in MicroState /\ ph.addr \in Word
  BY DEF SeqInv, CpuTypeOK, MicroState, Phase
<1>3. /\ arch.pc = Machine!After(1) /\ arch.sp = st.sp /\ arch.cc = st.cc
      /\ arch.hl = st.hl /\ arch.a = st.a /\ arch.ime = st.ime /\ arch.halt = "Running"
      /\ log = <<Opcode>> /\ cycles = 2
      /\ ph.addr = Minus(st.sp, 1) /\ ph.data = Hi(st.hl)
      /\ ph.lo = Lo(st.hl) /\ ph.aux = Minus(st.sp, 2)
  BY <1>1 DEF TraceInv, InPush, Ran, Made, Writing
<1>4. log \o Writes = <<Opcode, Write(Minus(st.sp, 1), Hi(st.hl))>>
  <2>1. Writes = <<Write(Minus(st.sp, 1), Hi(st.hl))>>
    BY <1>1, <1>3, Requests
  <2> QED BY <1>3, <2>1, Concatenations
<1>5. Commit(ar, mi)
  BY <1>1 DEF HandleWriteMem
<1>6. mi.phase = next /\ mi.decoded = "Push"
  BY <1>1, <1>2 DEF MicroState
<1>7. /\ next.n = "WriteMem" /\ next.k = "StoreDone"
      /\ next.addr = Minus(st.sp, 2) /\ next.data = Lo(st.hl)
  BY <1>3, PhaseFields
<1>8. /\ ar \in ArchState /\ ar.pc = Machine!After(1) /\ ar.sp = ph.addr /\ ar.hl = st.hl
      /\ ar.a = st.a /\ ar.cc = st.cc /\ ar.halt = "Running"
  BY <1>2, <1>3 DEF ArchState
<1> HIDE DEF ar, mi, next
<1>9. /\ StillRunning /\ UNCHANGED <<st, op, bus>>
      /\ log' = log \o Writes /\ cycles' = cycles + 1 /\ micro' = mi
      /\ Ran(1, Minus(st.sp, 1), st.cc)'
  BY <1>2, <1>3, <1>5, <1>6, <1>7, <1>8, GoesOn
<1>10. /\ micro'.phase.n = "WriteMem" /\ micro'.phase.k = "StoreDone" /\ micro'.decoded = "Push"
       /\ Writing(Minus(st.sp, 2), Lo(st.hl))'
  BY <1>6, <1>7, <1>9 DEF Writing
<1>11. Made(<<Opcode, Write(Minus(st.sp, 1), Hi(st.hl))>>, 3)'
  <2>1. cycles' = 3 /\ Opcode' = Opcode /\ st' = st
    BY <1>3, <1>9, AfterKept
  <2> QED BY <1>4, <1>9, <2>1 DEF Made
<1>12. InStore' /\ InStoreSp' /\ InPush' /\ InRst' /\ InCall'
  BY <1>9, <1>10, <1>11 DEF InStore, InStoreSp, InPush, InRst, InCall, WriteHlOps
<1> QED BY <1>1, <1>9, <1>10, <1>12, ToWriteMem

(* A call has stored the high byte of the return address.                    *)
LEMMA PushReturnTrace ==
    ASSUME SeqInv, TraceInv, HandleWriteMem, Record(Writes, micro.decoded),
           micro.phase.k = "PushHi"
    PROVE  TraceInv' /\ UNCHANGED <<st, op, bus>>
<1> DEFINE ph == micro.phase
           o == micro.decoded
           ar == [arch EXCEPT !.sp = ph.addr]
           next == WriteMem(Minus(ph.addr, 1), Lo(ph.aux), "StoreDone")
           mi == [micro EXCEPT !.phase = next, !.temp = micro.temp]
           n == IF o = "Rst" THEN 1 ELSE 3
           high == Write(Minus(st.sp, 1), Hi(Machine!After(n)))
<1>1. ph.n = "WriteMem" /\ st.halt # "Halted" /\ st \in ArchState /\ o \in {"Call", "CallCc", "Rst"}
  BY DEF HandleWriteMem, TraceInv, InInstruction, SeqInv, SequencerConsistent,
     LatchMatchesPhase, Continues
<1>2. arch \in ArchState /\ micro \in MicroState /\ ph.addr \in Word
  BY DEF SeqInv, CpuTypeOK, MicroState, Phase
<1>3. /\ arch.pc = Machine!After(n) /\ arch.sp = st.sp /\ arch.cc = st.cc
      /\ arch.hl = st.hl /\ arch.a = st.a /\ arch.ime = st.ime /\ arch.halt = "Running"
      /\ ph.addr = Minus(st.sp, 1) /\ ph.data = Hi(Machine!After(n)) /\ ph.aux = Machine!After(n)
      /\ o = "Rst" => log = <<Opcode>> /\ cycles = 2 /\ micro.temp = RstVector
  <2>1. CASE o = "Rst"
    BY <1>1, <2>1 DEF TraceInv, InRst, Ran, Made, Writing
  <2>2. CASE o \in {"Call", "CallCc"}
    BY <1>1, <2>2 DEF TraceInv, InCall, Ran, Made, Writing
  <2> QED BY <1>1, <2>1, <2>2
<1>4. Writes = <<high>>
  BY <1>1, <1>3, Requests
<1>5. Commit(ar, mi)
  BY <1>1 DEF HandleWriteMem
<1>6. mi.phase = next /\ mi.decoded = o /\ mi.temp = micro.temp /\ mi.imm_lo = micro.imm_lo
  BY <1>2 DEF MicroState
<1>7. /\ next.n = "WriteMem" /\ next.k = "StoreDone"
      /\ next.addr = Minus(st.sp, 2) /\ next.data = Lo(Machine!After(n))
  <2>1. Minus(ph.addr, 1) = Minus(st.sp, 2)
    BY <1>1, <1>3, Counting DEF ArchState
  <2> HIDE DEF n
  <2> QED BY <1>3, <2>1, PhaseFields
<1>8. /\ ar \in ArchState /\ ar.pc = Machine!After(n) /\ ar.sp = ph.addr /\ ar.hl = st.hl
      /\ ar.a = st.a /\ ar.cc = st.cc /\ ar.halt = "Running"
  <2> HIDE DEF n
  <2> QED BY <1>2, <1>3 DEF ArchState
<1> HIDE DEF ar, mi, next
<1>9. /\ StillRunning /\ UNCHANGED <<st, op, bus>>
      /\ log' = log \o Writes /\ cycles' = cycles + 1 /\ micro' = mi
      /\ \A i, x, y : ar.pc = Machine!After(i) /\ ar.sp = x /\ ar.cc = y => Ran(i, x, y)'
  BY <1>2, <1>3, <1>5, <1>6, <1>7, <1>8, GoesOn
<1>10. /\ micro'.phase.n = "WriteMem" /\ micro'.phase.k = "StoreDone" /\ micro'.decoded = o
       /\ micro'.temp = micro.temp /\ micro'.imm_lo = micro.imm_lo
       /\ micro'.phase.addr = Minus(st.sp, 2) /\ micro'.phase.data = Lo(Machine!After(n))
       /\ st' = st
  BY <1>6, <1>7, <1>9
<1>11. CASE o = "Rst"
  <2>1. n = 1
    BY <1>11
  <2> HIDE DEF n
  <2>2. Ran(1, Minus(st.sp, 1), st.cc)'
    <3>1. ar.sp = Minus(st.sp, 1) /\ ar.pc = Machine!After(1)
      BY <1>3, <1>8, <2>1
    <3> QED BY <1>8, <1>9, <1>10, <3>1
  <2>3. Opcode' = Opcode /\ Machine!After(1)' = Machine!After(1)
    BY <1>10, AfterKept
  <2>4. Made(<<Opcode, Write(Minus(st.sp, 1), Hi(Machine!After(1)))>>, 3)'
    <3>0. log = <<Opcode>> /\ cycles = 2
      BY <1>3, <1>11
    <3>1. log' = <<Opcode>> \o <<high>> /\ cycles' = 3
      BY <1>4, <1>9, <3>0
    <3>2. <<Opcode>> \o <<high>> = <<Opcode, high>>
      BY Concatenations
    <3> QED BY <1>10, <2>1, <2>3, <3>1, <3>2 DEF Made
  <2>5. Writing(Minus(st.sp, 2), Lo(Machine!After(1)))'
    BY <1>10, <2>1, <2>3 DEF Writing
  <2>6. InStore' /\ InStoreSp' /\ InPush' /\ InRst' /\ InCall'
    <3>1. micro'.temp = RstVector
      BY <1>3, <1>10, <1>11
    <3> QED BY <1>10, <1>11, <2>2, <2>4, <2>5, <3>1
            DEF InStore, InStoreSp, InPush, InRst, InCall, WriteHlOps
  <2> QED BY <1>1, <1>9, <1>10, <2>6, ToWriteMem
<1>12. CASE o \in {"Call", "CallCc"}
  <2>1. n = 3
    BY <1>12
  <2> HIDE DEF n
  <2>2. Ran(3, Minus(st.sp, 1), st.cc)'
    <3>1. ar.sp = Minus(st.sp, 1) /\ ar.pc = Machine!After(3)
      BY <1>3, <1>8, <2>1
    <3> QED BY <1>8, <1>9, <1>10, <3>1
  <2>3. /\ Opcode' = Opcode /\ Machine!After(3)' = Machine!After(3)
        /\ \A d : Operand(1, d)' = Operand(1, d) /\ Operand(2, d)' = Operand(2, d)
    BY <1>10, AfterKept
  <2>4. PICK h \in Byte :
           /\ micro.temp = Pair(h, micro.imm_lo) /\ (o = "CallCc" => st.cc)
           /\ log = <<Opcode, Operand(1, micro.imm_lo), Operand(2, h)>> /\ cycles = 4
    BY <1>1, <1>12 DEF TraceInv, InCall, Made
  <2>5. Made(<<Opcode, Operand(1, micro.imm_lo), Operand(2, h),
               Write(Minus(st.sp, 1), Hi(Machine!After(3)))>>, 5)'
    <3>1. log' = <<Opcode, Operand(1, micro.imm_lo), Operand(2, h), high>> /\ cycles' = 5
      BY <1>4, <1>9, <2>4, Concatenations
    <3> QED BY <1>10, <2>1, <2>3, <3>1 DEF Made
  <2>6. Writing(Minus(st.sp, 2), Lo(Machine!After(3)))'
    BY <1>10, <2>1, <2>3 DEF Writing
  <2>7. InCall'
    <3>1. micro'.temp = Pair(h, micro'.imm_lo) /\ (o = "CallCc" => st'.cc)
      BY <1>10, <2>4
    <3> QED BY <1>10, <1>12, <2>2, <2>5, <2>6, <3>1 DEF InCall
  <2>8. InStore' /\ InStoreSp' /\ InPush' /\ InRst'
    BY <1>10, <1>12 DEF InStore, InStoreSp, InPush, InRst, WriteHlOps
  <2> QED BY <1>1, <1>9, <1>10, <2>7, <2>8, ToWriteMem
<1> QED BY <1>1, <1>11, <1>12

(* Every write to memory.                                                    *)
LEMMA WriteTrace ==
    ASSUME SeqInv, TraceInv, SeqInv', WriteStep
    PROVE  TraceInv' /\ (Machine!Next \/ UNCHANGED <<st, op, bus>>)
<1>1. HandleWriteMem /\ Record(Writes, micro.decoded)
  BY DEF WriteStep
<1>2. micro.phase.k \in WriteConts
  BY <1>1 DEF HandleWriteMem, SeqInv, SequencerConsistent, LatchMatchesPhase
<1>3. CASE micro.phase.k = "StoreDone"
  <2>1. micro.decoded \in WriteHlOps \cup {"LdHlN", "LdhW", "LdNnA", "LdNnSp", "IncMem", "CbRmw",
                                           "Push", "Call", "CallCc", "Rst"}
    BY <1>1, <1>3, StoreEnds
  <2> QED BY <1>1, <1>3, <2>1, StoreTrace, StoreOperandTrace, CallTrace
<1>4. CASE micro.phase.k = "StoreSpHi"
  BY <1>1, <1>4, StoreSpTrace
<1>5. CASE micro.phase.k = "PushLo"
  BY <1>1, <1>5, PushTrace
<1>6. CASE micro.phase.k = "PushHi"
  BY <1>1, <1>6, PushReturnTrace
<1> QED BY <1>2, <1>3, <1>4, <1>5, <1>6 DEF WriteConts

(* What an internal cycle finds.                                             *)
LEMMA ExecuteFacts ==
    ASSUME SeqInv, TraceInv, NEW S, Executing(S),
           S \subseteq ExecOps \cup {"AluN", "Jr", "JrCc", "LdHlSp", "AddSp", "Jp", "JpCc",
                                     "Call", "CallCc", "AluHl", "IncMem", "Ret", "Reti"}
    PROVE  /\ micro.decoded \in S /\ micro.phase.n = "Execute" /\ micro.phase.k = micro.decoded
           /\ st.halt # "Halted" /\ st \in ArchState /\ arch \in ArchState /\ micro \in MicroState
           /\ micro.imm_lo \in Byte /\ micro.imm_hi \in Byte /\ micro.temp \in Word
           /\ arch.hl = st.hl /\ arch.a = st.a /\ arch.ime = st.ime /\ arch.halt = "Running"
           /\ st.hl \in Word /\ st.sp \in Word /\ st.a \in Byte /\ st.cc \in BOOLEAN
<1> DEFINE o == micro.decoded
<1>1. /\ o \in S /\ micro.phase.n = "Execute" /\ micro.phase.k = o
      /\ st.halt # "Halted" /\ st \in ArchState
  BY DEF Executing, TraceInv, InInstruction, SeqInv, SequencerConsistent, LatchMatchesPhase
<1>2. arch \in ArchState /\ micro \in MicroState
  BY DEF SeqInv, CpuTypeOK
<1>3. arch.hl = st.hl /\ arch.a = st.a /\ arch.ime = st.ime /\ arch.halt = "Running"
  <2>1. InExecute
    BY DEF TraceInv
  <2>2. CASE o \in ExecOps \ {"LdSpHl", "RetCc"}
    BY <1>1, <2>1, <2>2 DEF InExecute, Ran
  <2>3. CASE o = "LdSpHl"
    BY <1>1, <2>1, <2>3 DEF InExecute, Ran
  <2>4. CASE o = "RetCc"
    BY <1>1, <2>1, <2>4 DEF InExecute, Ran, Popped
  <2>5. CASE o \in {"Ret", "Reti"}
    BY <1>1, <2>1, <2>5 DEF InExecute, Ran, Popped
  <2>6. CASE o \in {"AluN", "Jr", "JrCc", "LdHlSp", "AddSp"}
    BY <1>1, <2>1, <2>6 DEF InExecute, Ran
  <2>7. CASE o \in {"Jp", "JpCc", "Call", "CallCc", "AluHl", "IncMem"}
    BY <1>1, <2>1, <2>7 DEF InExecute, Ran
  <2> QED BY <1>1, <2>2, <2>3, <2>4, <2>5, <2>6, <2>7
<1> QED BY <1>1, <1>2, <1>3 DEF ArchState, MicroState

(* An internal cycle that ends the instruction.                              *)
LEMMA InternalEnds ==
    ASSUME SeqInv, TraceInv, SeqInv', NEW ar \in ArchState, NEW mi, Commit(ar, mi),
           Record(Internal, micro.decoded), arch.ime = st.ime, mi.phase.n = "Fetch",
           micro.decoded \notin {"Ei", "Di", "Reti"}
    PROVE  /\ TraceInv' /\ op' = micro.decoded /\ st' \in ArchState
           /\ st'.pc = ar.pc /\ st'.sp = ar.sp /\ st'.hl = ar.hl /\ st'.a = ar.a
           /\ st'.cc = ar.cc /\ st'.halt = ar.halt /\ st'.ime = Machine!ImeAfter(micro.decoded)
           /\ bus' = log \o <<>>
BY Ended DEF Internal

(* The phase after the last internal cycle.                                  *)
LEMMA BackToFetch ==
    ASSUME micro \in MicroState
    PROVE  \A t : ToFetch(t).phase.n = "Fetch" /\ [micro EXCEPT !.phase = Fetch].phase.n = "Fetch"
BY PhaseFields DEF ToFetch, MicroState

(* The arithmetic unit writes a and the condition.                           *)
LEMMA AluEnds ==
    ASSUME SeqInv, TraceInv, SeqInv', NEW x \in Byte, NEW y \in Byte, Alu(x, y),
           Record(Internal, micro.decoded), arch.ime = st.ime,
           micro.decoded \in {"AluR", "AluN", "AluHl"}, arch.halt = "Running"
    PROVE  /\ TraceInv' /\ op' = micro.decoded /\ st' \in ArchState
           /\ st'.pc = arch.pc /\ st'.sp = arch.sp /\ st'.hl = arch.hl /\ st'.a = AluVal(x, y)
           /\ st'.cc = AluFlag(x, y) /\ st'.halt = "Running"
           /\ st'.ime = Machine!ImeAfter(micro.decoded) /\ bus' = log \o <<>>
<1> DEFINE v == AluVal(x, y)
           f == AluFlag(x, y)
           ar == [arch EXCEPT !.a = v, !.cc = f]
           mi == [micro EXCEPT !.phase = Fetch, !.temp = v]
<1>1. arch \in ArchState /\ micro \in MicroState
  BY DEF SeqInv, CpuTypeOK
<1>2. v \in Byte /\ f \in BOOLEAN
  BY AluAssumption
<1>3. Commit(ar, mi)
  BY DEF Alu
<1>4. mi.phase.n = "Fetch"
  BY <1>1, PhaseFields DEF MicroState
<1>5. /\ ar \in ArchState /\ ar.pc = arch.pc /\ ar.sp = arch.sp /\ ar.hl = arch.hl
      /\ ar.a = v /\ ar.cc = f /\ ar.halt = "Running"
  <2> HIDE DEF v, f
  <2> QED BY <1>1, <1>2 DEF ArchState
<1> HIDE DEF ar, mi
<1> QED BY <1>3, <1>4, <1>5, InternalEnds

(* execute_alu: the operand is a register, the operand byte or the byte      *)
(* read.                                                                     *)
LEMMA AluTrace ==
    ASSUME SeqInv, TraceInv, SeqInv', ExecuteAlu, Record(Internal, micro.decoded)
    PROVE  TraceInv' /\ Machine!Next
<1> DEFINE o == micro.decoded
<1>1. CASE Executing({"AluR"}) /\ Alu(arch.a, Lo(arch.hl))
  <2>1. /\ o = "AluR" /\ micro.phase.n = "Execute" /\ st.halt # "Halted" /\ st \in ArchState
        /\ arch.hl = st.hl /\ arch.a = st.a /\ arch.ime = st.ime /\ arch.halt = "Running"
        /\ st.hl \in Word /\ st.a \in Byte
    BY <1>1, ExecuteFacts DEF ExecOps
  <2>2. arch.pc = Machine!After(1) /\ arch.sp = st.sp /\ log = <<Opcode>>
    BY <2>1 DEF TraceInv, InExecute, ExecOps, Ran, Made
  <2>3. Lo(st.hl) \in Byte
    BY <2>1, LoByte, WordNat
  <2>4. /\ TraceInv' /\ op' = o /\ st' \in ArchState
        /\ st'.pc = arch.pc /\ st'.sp = arch.sp /\ st'.hl = arch.hl
        /\ st'.a = AluVal(st.a, Lo(st.hl)) /\ st'.cc = AluFlag(st.a, Lo(st.hl))
        /\ st'.halt = "Running" /\ st'.ime = Machine!ImeAfter(o) /\ bus' = log \o <<>>
    BY <1>1, <2>1, <2>3, AluEnds
  <2>5. st' = SetACc(Machine!Done(o, 1), AluVal(st.a, Lo(st.hl)), AluFlag(st.a, Lo(st.hl)))
    BY <2>1, <2>2, <2>4, EndStates
  <2>6. st' = Machine!RegisterEffect(op') /\ "AluR" \in Machine!RegisterOps
    BY <2>1, <2>4, <2>5, RegisterEffects DEF SetACc, Machine!RegisterOps
  <2>7. bus' = <<Opcode>>
    BY <2>2, <2>4, Concatenations
  <2> QED BY <2>1, <2>4, <2>6, <2>7, RegisterDone
<1>2. CASE Executing({"AluN"}) /\ Alu(arch.a, micro.imm_lo)
  <2> DEFINE l == micro.imm_lo
  <2>1. /\ o = "AluN" /\ micro.phase.n = "Execute" /\ st.halt # "Halted" /\ st \in ArchState
        /\ arch.hl = st.hl /\ arch.a = st.a /\ arch.ime = st.ime /\ arch.halt = "Running"
        /\ l \in Byte /\ st.a \in Byte
    BY <1>2, ExecuteFacts
  <2>2. arch.pc = Machine!After(2) /\ arch.sp = st.sp /\ log = <<Opcode, Operand(1, l)>>
    BY <2>1 DEF TraceInv, InExecute, ExecOps, Ran, Made
  <2>4. /\ TraceInv' /\ op' = o /\ st' \in ArchState
        /\ st'.pc = arch.pc /\ st'.sp = arch.sp /\ st'.hl = arch.hl
        /\ st'.a = AluVal(st.a, l) /\ st'.cc = AluFlag(st.a, l)
        /\ st'.halt = "Running" /\ st'.ime = Machine!ImeAfter(o) /\ bus' = log \o <<>>
    BY <1>2, <2>1, AluEnds
  <2>5. st' = SetACc(Machine!Done(o, 2), AluVal(st.a, l), AluFlag(st.a, l))
    BY <2>1, <2>2, <2>4, EndStates
  <2>6. Machine!Imm8Effect(op', l, 0) = <<st', <<>>>>
    BY <2>1, <2>4, <2>5, Imm8Effects
  <2>7. bus' = <<Opcode, Operand(1, l)>> \o <<>>
    BY <2>2, <2>4
  <2> QED BY <2>1, <2>4, <2>6, <2>7, SmallBytes, OpClasses, Imm8Done
<1>3. CASE Executing({"AluHl"}) /\ Alu(arch.a, Lo(micro.temp))
  <2> DEFINE v == micro.temp
  <2>1. /\ o = "AluHl" /\ micro.phase.n = "Execute" /\ st.halt # "Halted" /\ st \in ArchState
        /\ arch.hl = st.hl /\ arch.a = st.a /\ arch.ime = st.ime /\ arch.halt = "Running"
        /\ st.a \in Byte
    BY <1>3, ExecuteFacts
  <2>2. /\ arch.pc = Machine!After(1) /\ arch.sp = st.sp /\ log = <<Opcode, Read(st.hl, v)>>
        /\ v \in Byte
    BY <2>1 DEF TraceInv, InExecute, ExecOps, Ran, Made
  <2>3. Lo(v) = v
    BY <2>2, LoOfByte
  <2>4. /\ TraceInv' /\ op' = o /\ st' \in ArchState
        /\ st'.pc = arch.pc /\ st'.sp = arch.sp /\ st'.hl = arch.hl
        /\ st'.a = AluVal(st.a, v) /\ st'.cc = AluFlag(st.a, v)
        /\ st'.halt = "Running" /\ st'.ime = Machine!ImeAfter(o) /\ bus' = log \o <<>>
    BY <1>3, <2>1, <2>2, <2>3, AluEnds
  <2>5. st' = SetACc(Machine!Done(o, 1), AluVal(st.a, v), AluFlag(st.a, v))
    BY <2>1, <2>2, <2>4, EndStates
  <2>6. Machine!MemoryEffect(op', v, v) = <<st', <<Read(st.hl, v)>>>>
    BY <2>1, <2>4, <2>5, MemoryEffects
  <2>7. bus' = <<Opcode>> \o <<Read(st.hl, v)>>
    BY <2>2, <2>4, Concatenations
  <2>8. "AluHl" \in Machine!MemoryOps /\ "AluHl" \notin CbOps
    BY SameClasses, OpClasses DEF Machine!MemoryOps, CbOps
  <2> QED BY <2>1, <2>2, <2>4, <2>6, <2>7, <2>8, MemoryDone
<1> QED BY <1>1, <1>2, <1>3 DEF ExecuteAlu

(* INC and DEC on memory write their result back.                            *)
LEMMA IncMemTrace ==
    ASSUME SeqInv, TraceInv, ExecuteIncMem, Record(Internal, micro.decoded)
    PROVE  TraceInv' /\ UNCHANGED <<st, op, bus>>
<1> DEFINE x == Lo(micro.temp)
           v == micro.temp
           r == AluVal(x, x)
           f == AluFlag(x, x)
           next == WriteMem(arch.hl, r, "StoreDone")
           ar == [arch EXCEPT !.cc = f]
           mi == [micro EXCEPT !.phase = next, !.temp = r]
<1>1. /\ micro.decoded = "IncMem" /\ micro.phase.n = "Execute" /\ st.halt # "Halted"
      /\ st \in ArchState /\ arch \in ArchState /\ micro \in MicroState
      /\ arch.hl = st.hl /\ arch.a = st.a /\ arch.ime = st.ime /\ arch.halt = "Running"
  BY ExecuteFacts DEF ExecuteIncMem
<1>2. /\ arch.pc = Machine!After(1) /\ arch.sp = st.sp
      /\ log = <<Opcode, Read(st.hl, v)>> /\ cycles = 2 /\ v \in Byte
  BY <1>1 DEF TraceInv, InExecute, ExecOps, Ran, Made
<1>3. x = v /\ f \in BOOLEAN
  BY <1>2, LoOfByte, AluAssumption
<1>4. Commit(ar, mi)
  BY DEF ExecuteIncMem
<1>5. /\ ar \in ArchState /\ ar.pc = Machine!After(1) /\ ar.sp = st.sp /\ ar.hl = st.hl
      /\ ar.a = st.a /\ ar.cc = f /\ ar.halt = "Running"
  <2> HIDE DEF f
  <2> QED BY <1>1, <1>2, <1>3 DEF ArchState
<1>6. mi.phase = next /\ mi.decoded = "IncMem"
  BY <1>1 DEF MicroState
<1>7. /\ next.n = "WriteMem" /\ next.k = "StoreDone" /\ next.addr = st.hl /\ next.data = r
  BY <1>1, PhaseFields
<1>8. r = AluVal(v, v) /\ f = AluFlag(v, v)
  BY <1>3
<1> HIDE DEF ar, mi, next, r, f, x
<1>9. /\ StillRunning /\ UNCHANGED <<st, op, bus>>
      /\ log' = log \o Internal /\ cycles' = cycles + 1 /\ micro' = mi
  BY <1>1, <1>4, <1>5, <1>6, <1>7, GoesOn
<1>11. PICK l \in Byte : l = v
  BY <1>2
<1>10. Ran(1, st.sp, AluFlag(l, l))'
  <2>1. ar.cc = AluFlag(l, l)
    BY <1>5, <1>8, <1>11
  <2> QED BY <1>1, <1>4, <1>5, <1>6, <1>7, <1>9, <2>1, GoesOn
<1>12. Made(<<Opcode, Read(st.hl, l)>>, 3)'
  <2>1. log' = log
    BY <1>2, <1>9, Concatenations DEF Internal
  <2>2. cycles' = 3 /\ Opcode' = Opcode /\ st' = st
    BY <1>2, <1>9, AfterKept
  <2> QED BY <1>2, <1>11, <2>1, <2>2 DEF Made
<1>13. /\ micro'.phase.n = "WriteMem" /\ micro'.phase.k = "StoreDone" /\ micro'.decoded = "IncMem"
       /\ Writing(st.hl, AluVal(l, l))'
  BY <1>6, <1>7, <1>8, <1>9, <1>11 DEF Writing
<1>14. Modified(1)'
  BY <1>10, <1>11, <1>12, <1>13 DEF Modified
<1>15. InStore' /\ InStoreSp' /\ InPush' /\ InRst' /\ InCall'
  BY <1>13, <1>14 DEF InStore, InStoreSp, InPush, InRst, InCall, WriteHlOps
<1> QED BY <1>1, <1>9, <1>13, <1>15, ToWriteMem

(* Word increments and additions to hl complete in their one internal cycle. *)
LEMMA WordTrace ==
    ASSUME SeqInv, TraceInv, SeqInv', ExecuteWordAlu, Record(Internal, micro.decoded),
           micro.decoded \in {"AddHl", "IncHl", "DecHl", "IncSp", "DecSp"}
    PROVE  TraceInv' /\ Machine!Next
<1> DEFINE o == micro.decoded
           end == Machine!Done(o, 1)
<1>1. /\ micro.phase.n = "Execute" /\ micro.phase.k = o /\ st.halt # "Halted"
      /\ st \in ArchState /\ arch \in ArchState /\ micro \in MicroState
      /\ arch.hl = st.hl /\ arch.a = st.a /\ arch.ime = st.ime /\ arch.halt = "Running"
      /\ st.hl \in Word /\ st.sp \in Word
  <2>1. Executing({o})
    BY DEF ExecuteWordAlu, Executing, SeqInv, SequencerConsistent, LatchMatchesPhase
  <2> QED BY <2>1, ExecuteFacts DEF ExecOps
<1>2. arch.pc = Machine!After(1) /\ arch.sp = st.sp /\ arch.cc = st.cc /\ log = <<Opcode>>
  BY <1>1 DEF TraceInv, InExecute, ExecOps, Ran, Made
<1>3. o \notin {"Ei", "Di", "Reti"} /\ o \in Machine!RegisterOps
  BY DEF Machine!RegisterOps
<1>4. ASSUME NEW ar \in ArchState, NEW t, Commit(ar, ToFetch(t))
      PROVE  /\ TraceInv' /\ op' = o /\ st' \in ArchState
             /\ st'.pc = ar.pc /\ st'.sp = ar.sp /\ st'.hl = ar.hl /\ st'.a = ar.a
             /\ st'.cc = ar.cc /\ st'.halt = ar.halt /\ st'.ime = Machine!ImeAfter(o)
             /\ bus' = <<Opcode>>
  BY <1>1, <1>2, <1>3, <1>4, BackToFetch, InternalEnds, Concatenations
<1>5. CASE o = "AddHl"
  <2> DEFINE v == Plus(st.hl, st.hl)
             f == AluFlag(Hi(st.hl), Hi(st.hl))
             ar == [arch EXCEPT !.hl = v, !.cc = f]
  <2>1. Commit(ar, ToFetch(v))
    BY <1>1, <1>5 DEF ExecuteWordAlu, Executing
  <2>2. v \in Word /\ f \in BOOLEAN
    BY <1>1, PlusWord, HiByte, WordNat, AluAssumption
  <2>3. /\ ar \in ArchState /\ ar.pc = Machine!After(1) /\ ar.sp = st.sp /\ ar.hl = v
        /\ ar.a = st.a /\ ar.cc = f /\ ar.halt = "Running"
    <3> HIDE DEF v, f
    <3> QED BY <1>1, <1>2, <2>2 DEF ArchState
  <2> HIDE DEF ar
  <2>4. /\ TraceInv' /\ op' = o /\ st' \in ArchState
        /\ st'.pc = ar.pc /\ st'.sp = ar.sp /\ st'.hl = ar.hl /\ st'.a = ar.a
        /\ st'.cc = ar.cc /\ st'.halt = ar.halt /\ st'.ime = Machine!ImeAfter(o)
        /\ bus' = <<Opcode>>
    BY <1>4, <2>1, <2>3
  <2>5. st' = SetHlCc(end, v, f)
    BY <1>1, <2>3, <2>4, EndStates
  <2>6. st' = Machine!RegisterEffect(op')
    BY <1>5, <2>4, <2>5, RegisterEffects DEF SetHlCc
  <2> QED BY <1>1, <1>3, <2>4, <2>6, RegisterDone
<1>6. CASE o \in {"IncHl", "DecHl"}
  <2> DEFINE v == IF o = "IncHl" THEN Plus(st.hl, 1) ELSE Minus(st.hl, 1)
             ar == [arch EXCEPT !.hl = v]
  <2>1. Commit(ar, ToFetch(v))
    BY <1>1, <1>6 DEF ExecuteWordAlu, Executing
  <2>2. v \in Word
    BY <1>1, PlusWord, MinusWord, WordNat
  <2>7. /\ o = "IncHl" => v = Plus(st.hl, 1)
        /\ o = "DecHl" => v = Minus(st.hl, 1)
    OBVIOUS
  <2> HIDE DEF v
  <2>3. /\ ar \in ArchState /\ ar.pc = Machine!After(1) /\ ar.sp = st.sp /\ ar.hl = v
        /\ ar.a = st.a /\ ar.cc = st.cc /\ ar.halt = "Running"
    BY <1>1, <1>2, <2>2 DEF ArchState
  <2> HIDE DEF ar
  <2>4. /\ TraceInv' /\ op' = o /\ st' \in ArchState
        /\ st'.pc = ar.pc /\ st'.sp = ar.sp /\ st'.hl = ar.hl /\ st'.a = ar.a
        /\ st'.cc = ar.cc /\ st'.halt = ar.halt /\ st'.ime = Machine!ImeAfter(o)
        /\ bus' = <<Opcode>>
    BY <1>4, <2>1, <2>3
  <2>5. st' = SetHl(end, v)
    BY <1>1, <2>3, <2>4, EndStates
  <2>6. st' = Machine!RegisterEffect(op')
    BY <1>6, <2>4, <2>5, <2>7, RegisterEffects DEF SetHl
  <2> QED BY <1>1, <1>3, <2>4, <2>6, RegisterDone
<1>7. CASE o \in {"IncSp", "DecSp"}
  <2> DEFINE v == IF o = "IncSp" THEN Plus(st.sp, 1) ELSE Minus(st.sp, 1)
             ar == [arch EXCEPT !.sp = v]
  <2>1. Commit(ar, ToFetch(v))
    BY <1>1, <1>2, <1>7 DEF ExecuteWordAlu, Executing
  <2>2. v \in Word
    BY <1>1, PlusWord, MinusWord, WordNat
  <2>7. /\ o = "IncSp" => v = Plus(st.sp, 1)
        /\ o = "DecSp" => v = Minus(st.sp, 1)
    OBVIOUS
  <2> HIDE DEF v
  <2>3. /\ ar \in ArchState /\ ar.pc = Machine!After(1) /\ ar.sp = v /\ ar.hl = st.hl
        /\ ar.a = st.a /\ ar.cc = st.cc /\ ar.halt = "Running"
    BY <1>1, <1>2, <2>2 DEF ArchState
  <2> HIDE DEF ar
  <2>4. /\ TraceInv' /\ op' = o /\ st' \in ArchState
        /\ st'.pc = ar.pc /\ st'.sp = ar.sp /\ st'.hl = ar.hl /\ st'.a = ar.a
        /\ st'.cc = ar.cc /\ st'.halt = ar.halt /\ st'.ime = Machine!ImeAfter(o)
        /\ bus' = <<Opcode>>
    BY <1>4, <2>1, <2>3
  <2>5. st' = SetSp(end, v)
    BY <1>1, <2>3, <2>4, EndStates
  <2>6. st' = Machine!RegisterEffect(op')
    BY <1>7, <2>4, <2>5, <2>7, RegisterEffects DEF SetSp
  <2> QED BY <1>1, <1>3, <2>4, <2>6, RegisterDone
<1> QED BY <1>5, <1>6, <1>7

(* ADD SP computes in its first internal cycle.                              *)
LEMMA AddSpTrace ==
    ASSUME SeqInv, TraceInv, Executing({"AddSp"}), micro.imm_hi = 0, ExecuteWordAlu,
           Record(Internal, micro.decoded)
    PROVE  TraceInv' /\ UNCHANGED <<st, op, bus>>
<1> DEFINE l == micro.imm_lo
           sum == Plus(arch.sp, SignExtend(l))
           f == AluFlag(Lo(arch.sp), l)
           ar == [arch EXCEPT !.cc = f]
           mi == [micro EXCEPT !.phase = Execute(micro.decoded), !.imm_hi = 1, !.temp = sum]
<1>1. /\ micro.decoded = "AddSp" /\ micro.phase.n = "Execute" /\ st.halt # "Halted"
      /\ st \in ArchState /\ arch \in ArchState /\ micro \in MicroState /\ l \in Byte
      /\ arch.hl = st.hl /\ arch.a = st.a /\ arch.ime = st.ime /\ arch.halt = "Running"
      /\ st.sp \in Word
  BY ExecuteFacts
<1>2. /\ arch.pc = Machine!After(2) /\ arch.sp = st.sp
      /\ log = <<Opcode, Operand(1, l)>> /\ cycles = 2
  BY <1>1 DEF TraceInv, InExecute, ExecOps, Ran, Made
<1>3. f \in BOOLEAN /\ f = AluFlag(Lo(st.sp), l) /\ sum = Plus(st.sp, SignExtend(l))
  BY <1>1, <1>2, LoByte, WordNat, AluAssumption
<1>4. Commit(ar, mi)
  BY <1>1 DEF ExecuteWordAlu, Executing
<1>5. /\ ar \in ArchState /\ ar.pc = Machine!After(2) /\ ar.sp = st.sp /\ ar.hl = st.hl
      /\ ar.a = st.a /\ ar.cc = f /\ ar.halt = "Running"
  <2> HIDE DEF f
  <2> QED BY <1>1, <1>2, <1>3 DEF ArchState
<1>6. /\ mi.phase.n = "Execute" /\ mi.decoded = "AddSp" /\ mi.imm_lo = l /\ mi.imm_hi = 1
      /\ mi.temp = sum
  BY <1>1, PhaseFields DEF MicroState
<1> HIDE DEF ar, mi, sum, f
<1>7. /\ StillRunning /\ UNCHANGED <<st, op, bus>>
      /\ log' = log \o Internal /\ cycles' = cycles + 1 /\ micro' = mi
  BY <1>1, <1>4, <1>5, <1>6, GoesOn
<1>8. /\ micro'.phase.n = "Execute" /\ micro'.decoded = "AddSp" /\ micro'.imm_lo = l
      /\ micro'.imm_hi = 1 /\ micro'.temp = Plus(st.sp, SignExtend(l)) /\ st' = st
  BY <1>3, <1>6, <1>7
<1>9. Ran(2, st.sp, AluFlag(Lo(st.sp), micro.imm_lo))'
  <2>1. PICK x \in Byte : x = l
    BY <1>1
  <2>2. ar.cc = AluFlag(Lo(st.sp), x)
    BY <1>3, <1>5, <2>1
  <2>3. Ran(2, st.sp, AluFlag(Lo(st.sp), x))'
    BY <1>1, <1>4, <1>5, <1>6, <1>7, <2>2, GoesOn
  <2> QED BY <1>8, <2>1, <2>3
<1>10. Made(<<Opcode, Operand(1, micro.imm_lo)>>, 3)'
  <2>1. log' = log
    BY <1>2, <1>7, Concatenations DEF Internal
  <2>2. /\ cycles' = 3 /\ Opcode' = Opcode /\ \A d : Operand(1, d)' = Operand(1, d)
    BY <1>2, <1>7, AfterKept
  <2> QED BY <1>2, <1>8, <2>1, <2>2 DEF Made
<1>11. InExecute'
  BY <1>8, <1>9, <1>10 DEF InExecute, ExecOps, CondOps
<1> QED BY <1>1, <1>7, <1>8, <1>11, ToExecute

(* The instructions that add a signed byte to sp complete.                   *)
LEMMA SpOffsetTrace ==
    ASSUME SeqInv, TraceInv, SeqInv', ExecuteWordAlu, Record(Internal, micro.decoded),
           (Executing({"AddSp"}) /\ micro.imm_hi # 0) \/ Executing({"LdHlSp"})
    PROVE  TraceInv' /\ Machine!Next
<1> DEFINE o == micro.decoded
           l == micro.imm_lo
           sum == Plus(st.sp, SignExtend(l))
           f == AluFlag(Lo(st.sp), l)
           end == Machine!Done(o, 2)
<1>1. /\ micro.phase.n = "Execute" /\ micro.phase.k = o /\ st.halt # "Halted"
      /\ st \in ArchState /\ arch \in ArchState /\ micro \in MicroState /\ l \in Byte
      /\ arch.hl = st.hl /\ arch.a = st.a /\ arch.ime = st.ime /\ arch.halt = "Running"
      /\ st.hl \in Word /\ st.sp \in Word /\ o \in {"AddSp", "LdHlSp"}
      /\ o = "AddSp" => micro.imm_hi # 0
  <2>1. Executing({"AddSp", "LdHlSp"})
    BY DEF Executing
  <2> QED BY <2>1, ExecuteFacts DEF Executing
<1>2. /\ arch.pc = Machine!After(2) /\ arch.sp = st.sp /\ log = <<Opcode, Operand(1, l)>>
      /\ o = "AddSp" => arch.cc = f /\ micro.temp = sum
  BY <1>1 DEF TraceInv, InExecute, ExecOps, Ran, Made
<1>3. f \in BOOLEAN /\ sum \in Word
  BY <1>1, LoByte, WordNat, AluAssumption, PlusWord, SignExtendNat
<1>4. ASSUME NEW ar \in ArchState, NEW t, Commit(ar, ToFetch(t))
      PROVE  /\ TraceInv' /\ op' = o /\ st' \in ArchState
             /\ st'.pc = ar.pc /\ st'.sp = ar.sp /\ st'.hl = ar.hl /\ st'.a = ar.a
             /\ st'.cc = ar.cc /\ st'.halt = ar.halt /\ st'.ime = Machine!ImeAfter(o)
             /\ bus' = <<Opcode, Operand(1, l)>> \o <<>>
  BY <1>1, <1>2, <1>4, BackToFetch, InternalEnds
<1>5. CASE o = "AddSp"
  <2> DEFINE ar == [arch EXCEPT !.sp = sum]
  <2>1. Commit(ar, ToFetch(sum))
    BY <1>1, <1>2, <1>5 DEF ExecuteWordAlu, Executing
  <2>3. /\ ar \in ArchState /\ ar.pc = Machine!After(2) /\ ar.sp = sum /\ ar.hl = st.hl
        /\ ar.a = st.a /\ ar.cc = f /\ ar.halt = "Running"
    <3> HIDE DEF sum, f
    <3> QED BY <1>1, <1>2, <1>3, <1>5 DEF ArchState
  <2> HIDE DEF ar
  <2>4. /\ TraceInv' /\ op' = o /\ st' \in ArchState
        /\ st'.pc = ar.pc /\ st'.sp = ar.sp /\ st'.hl = ar.hl /\ st'.a = ar.a
        /\ st'.cc = ar.cc /\ st'.halt = ar.halt /\ st'.ime = Machine!ImeAfter(o)
        /\ bus' = <<Opcode, Operand(1, l)>> \o <<>>
    BY <1>4, <2>1, <2>3
  <2>5. st' = SetSpCc(end, sum, f)
    BY <1>1, <2>3, <2>4, EndStates
  <2>6. Machine!Imm8Effect(op', l, 0) = <<st', <<>>>>
    BY <1>5, <2>4, <2>5, Imm8Effects
  <2> QED BY <1>1, <1>5, <2>4, <2>6, SmallBytes, OpClasses, Imm8Done
<1>6. CASE o = "LdHlSp"
  <2> DEFINE ar == [arch EXCEPT !.hl = sum, !.cc = f]
  <2>1. Commit(ar, ToFetch(sum))
    BY <1>1, <1>2, <1>6 DEF ExecuteWordAlu, Executing
  <2>3. /\ ar \in ArchState /\ ar.pc = Machine!After(2) /\ ar.sp = st.sp /\ ar.hl = sum
        /\ ar.a = st.a /\ ar.cc = f /\ ar.halt = "Running"
    <3> HIDE DEF sum, f
    <3> QED BY <1>1, <1>2, <1>3 DEF ArchState
  <2> HIDE DEF ar
  <2>4. /\ TraceInv' /\ op' = o /\ st' \in ArchState
        /\ st'.pc = ar.pc /\ st'.sp = ar.sp /\ st'.hl = ar.hl /\ st'.a = ar.a
        /\ st'.cc = ar.cc /\ st'.halt = ar.halt /\ st'.ime = Machine!ImeAfter(o)
        /\ bus' = <<Opcode, Operand(1, l)>> \o <<>>
    BY <1>4, <2>1, <2>3
  <2>5. st' = SetHlCc(end, sum, f)
    BY <1>1, <2>3, <2>4, EndStates
  <2>6. Machine!Imm8Effect(op', l, 0) = <<st', <<>>>>
    BY <1>6, <2>4, <2>5, Imm8Effects
  <2> QED BY <1>1, <1>6, <2>4, <2>6, SmallBytes, OpClasses, Imm8Done
<1> QED BY <1>1, <1>5, <1>6

(* The word arithmetic and everything on sp.                                 *)
LEMMA WordAluTrace ==
    ASSUME SeqInv, TraceInv, SeqInv', ExecuteWordAlu, Record(Internal, micro.decoded)
    PROVE  TraceInv' /\ (Machine!Next \/ UNCHANGED <<st, op, bus>>)
<1>1. CASE Executing({"AddHl", "IncHl", "DecHl", "IncSp", "DecSp"})
  <2>1. micro.decoded \in {"AddHl", "IncHl", "DecHl", "IncSp", "DecSp"}
    BY <1>1, ExecuteFacts DEF ExecOps
  <2> QED BY <2>1, WordTrace
<1>2. CASE Executing({"AddSp"}) /\ micro.imm_hi = 0
  BY <1>2, AddSpTrace
<1>3. CASE (Executing({"AddSp"}) /\ micro.imm_hi # 0) \/ Executing({"LdHlSp"})
  BY <1>3, SpOffsetTrace
<1> QED BY <1>1, <1>2, <1>3 DEF ExecuteWordAlu, Executing

(* Jumps complete.                                                           *)
LEMMA JumpTrace ==
    ASSUME SeqInv, TraceInv, SeqInv', ExecuteJump, Record(Internal, micro.decoded),
           Executing({"Jp", "JpCc", "Jr", "JrCc"})
    PROVE  TraceInv' /\ Machine!Next
<1> DEFINE o == micro.decoded
           l == micro.imm_lo
           h == micro.imm_hi
           n == IF o \in {"Jp", "JpCc"} THEN 3 ELSE 2
           to == IF o \in {"Jp", "JpCc"} THEN Pair(h, l) ELSE Plus(Machine!After(2), SignExtend(l))
           ar == [arch EXCEPT !.pc = to]
           end == Machine!Done(o, n)
<1>1. /\ micro.phase.n = "Execute" /\ micro.phase.k = o /\ st.halt # "Halted"
      /\ st \in ArchState /\ arch \in ArchState /\ micro \in MicroState /\ l \in Byte /\ h \in Byte
      /\ arch.hl = st.hl /\ arch.a = st.a /\ arch.ime = st.ime /\ arch.halt = "Running"
      /\ st.cc \in BOOLEAN /\ o \in {"Jp", "JpCc", "Jr", "JrCc"}
  BY ExecuteFacts
<1>2. /\ arch.pc = Machine!After(n) /\ arch.sp = st.sp /\ arch.cc = st.cc
      /\ o \in {"JpCc", "JrCc"} => st.cc
      /\ o \in {"Jp", "JpCc"} => /\ micro.temp = Pair(h, l)
                                 /\ log = <<Opcode, Operand(1, l), Operand(2, h)>>
      /\ o \in {"Jr", "JrCc"} => log = <<Opcode, Operand(1, l)>>
  BY <1>1 DEF TraceInv, InExecute, ExecOps, CondOps, Ran, Made
<1>3. /\ to \in Word
      /\ o \in {"Jp", "JpCc"} => to = Pair(h, l) /\ n = 3
      /\ o \in {"Jr", "JrCc"} => to = Plus(Machine!After(2), SignExtend(l)) /\ n = 2
      /\ n \in 1 .. 3 /\ end.pc = Machine!After(n)
  <2>1. Pair(h, l) \in Word
    BY <1>1, PairWord
  <2>2. Plus(Machine!After(2), SignExtend(l)) \in Word
    <3>1. Machine!After(2) \in Word
      BY <1>1, Following
    <3> QED BY <1>1, <3>1, PlusWord, SignExtendNat, WordNat
  <2>3. n \in 1 .. 3
    OBVIOUS
  <2>4. end.pc = Machine!After(n)
    <3> HIDE DEF n
    <3> QED BY <1>1, <2>3, DoneState
  <2> QED BY <1>1, <2>1, <2>2, <2>3, <2>4
<1>4. CondMatches(o)
  BY <1>1, <1>2 DEF CondMatches, CondOps
<1>5. Commit(ar, ToFetch(to))
  BY <1>1, <1>2, <1>3, <1>4 DEF ExecuteJump, Executing
<1> HIDE DEF to, n
<1>6. /\ ar \in ArchState /\ ar.pc = to /\ ar.sp = st.sp /\ ar.hl = st.hl
      /\ ar.a = st.a /\ ar.cc = st.cc /\ ar.halt = "Running"
  BY <1>1, <1>2, <1>3 DEF ArchState
<1> HIDE DEF ar
<1>7. /\ TraceInv' /\ op' = o /\ st' \in ArchState
      /\ st'.pc = ar.pc /\ st'.sp = ar.sp /\ st'.hl = ar.hl /\ st'.a = ar.a
      /\ st'.cc = ar.cc /\ st'.halt = ar.halt /\ st'.ime = Machine!ImeAfter(o)
      /\ bus' = log \o <<>>
  BY <1>1, <1>5, <1>6, BackToFetch, InternalEnds
<1>8. st' = SetPc(end, to)
  BY <1>1, <1>3, <1>6, <1>7, EndStates
<1>9. CASE o \in {"Jp", "JpCc"}
  <2>1. Machine!Imm16Effect(op', Pair(h, l), 0) = <<st', <<>>>>
    BY <1>2, <1>3, <1>7, <1>8, <1>9, Imm16Effects
  <2>2. bus' = <<Opcode, Operand(1, l), Operand(2, h)>> \o <<>> /\ op' \in Imm16Ops
    BY <1>2, <1>7, <1>9, OpClasses
  <2> QED BY <1>1, <1>7, <2>1, <2>2, SmallBytes, Imm16Done
<1>10. CASE o \in {"Jr", "JrCc"}
  <2>1. st' = SetPc(end, Plus(end.pc, SignExtend(l)))
    BY <1>3, <1>8, <1>10
  <2>2. Machine!Imm8Effect(op', l, 0) = <<st', <<>>>>
    BY <1>2, <1>3, <1>7, <1>10, <2>1, Imm8Effects
  <2>3. bus' = <<Opcode, Operand(1, l)>> \o <<>> /\ op' \in Imm8Ops
    BY <1>2, <1>7, <1>10, OpClasses
  <2> QED BY <1>1, <1>7, <2>2, <2>3, SmallBytes, Imm8Done
<1> QED BY <1>1, <1>9, <1>10

(* A call goes on with the high byte of the return address.                  *)
LEMMA PushingReturn ==
    ASSUME SeqInv, TraceInv, NEW t, Commit(arch, PushReturn(t)), NEW S, Executing(S),
           S \subseteq {"Call", "CallCc", "Rst"}, Record(Internal, micro.decoded)
    PROVE  /\ StillRunning /\ UNCHANGED <<st, op, bus, arch>> /\ log' = log /\ cycles' = cycles + 1
           /\ micro'.phase.n = "WriteMem" /\ micro'.phase.k = "PushHi"
           /\ micro'.decoded = micro.decoded /\ micro'.imm_lo = micro.imm_lo /\ micro'.temp = t
           /\ micro'.phase.addr = Minus(arch.sp, 1) /\ micro'.phase.data = Hi(arch.pc)
           /\ micro'.phase.aux = arch.pc
<1> DEFINE ph == [WriteMem(Minus(arch.sp, 1), Hi(arch.pc), "PushHi") EXCEPT !.aux = arch.pc]
           mi == PushReturn(t)
<1>1. /\ st \in ArchState /\ arch \in ArchState /\ micro \in MicroState
      /\ arch.hl = st.hl /\ arch.a = st.a /\ arch.ime = st.ime /\ arch.halt = "Running"
  BY ExecuteFacts DEF ExecOps
<1>2. /\ ph.n = "WriteMem" /\ ph.k = "PushHi" /\ ph.addr = Minus(arch.sp, 1)
      /\ ph.data = Hi(arch.pc) /\ ph.aux = arch.pc
  BY DEF WriteMem, MkPhase
<1>3. mi.phase = ph /\ mi.decoded = micro.decoded /\ mi.imm_lo = micro.imm_lo /\ mi.temp = t
  <2> HIDE DEF ph
  <2>1. mi = [micro EXCEPT !.phase = ph, !.imm_hi = 0, !.temp = t]
    BY DEF PushReturn, ph
  <2> QED BY <1>1, <2>1 DEF MicroState
<1> HIDE DEF ph, mi
<1>4. /\ StillRunning /\ UNCHANGED <<st, op, bus>>
      /\ log' = log \o Internal /\ cycles' = cycles + 1 /\ micro' = mi
  BY <1>1, <1>2, <1>3, GoesOn DEF mi
<1>5. log \o Internal = log
  <2>1. CASE micro.decoded = "Rst"
    <3>1. log = <<Opcode>>
      BY <2>1 DEF TraceInv, InExecute, Executing, SeqInv, SequencerConsistent, LatchMatchesPhase,
         ExecOps, Made
    <3> QED BY <3>1, Concatenations DEF Internal
  <2>2. CASE micro.decoded \in {"Call", "CallCc"}
    <3>1. log = <<Opcode, Operand(1, micro.imm_lo), Operand(2, micro.imm_hi)>>
      BY <2>2 DEF TraceInv, InExecute, Executing, SeqInv, SequencerConsistent, LatchMatchesPhase,
         ExecOps, Made
    <3> QED BY <3>1, Concatenations DEF Internal
  <2>3. micro.decoded \in {"Call", "CallCc", "Rst"}
    BY ExecuteFacts DEF ExecOps
  <2> QED BY <2>1, <2>2, <2>3
<1>6. arch' = arch
  <2>1. ~ InstructionComplete(mi.phase)
    BY <1>2, <1>3 DEF InstructionComplete
  <2>2. arch' = [arch EXCEPT !.ime = arch.ime]
    BY <2>1 DEF Commit, CommitIme, ResolvedIme, mi
  <2> QED BY <1>1, <2>2 DEF ArchState
<1> QED BY <1>2, <1>3, <1>4, <1>5, <1>6

(* Calls and restarts go on; their jumps are not untaken here.               *)
LEMMA CallStartTrace ==
    ASSUME SeqInv, TraceInv, ExecuteJump, Record(Internal, micro.decoded),
           Executing({"Call", "CallCc", "Rst"})
    PROVE  TraceInv' /\ UNCHANGED <<st, op, bus>>
<1> DEFINE o == micro.decoded
           l == micro.imm_lo
           h == micro.imm_hi
           t == IF o = "Rst" THEN RstVector ELSE micro.temp
           n == IF o = "Rst" THEN 1 ELSE 3
<1>1. /\ micro.phase.n = "Execute" /\ micro.phase.k = o /\ st.halt # "Halted"
      /\ h \in Byte /\ l \in Byte /\ o \in {"Call", "CallCc", "Rst"}
      /\ arch.hl = st.hl /\ arch.a = st.a /\ arch.ime = st.ime /\ arch.halt = "Running"
  BY ExecuteFacts DEF ExecOps
<1>2. /\ arch.pc = Machine!After(n) /\ arch.sp = st.sp /\ arch.cc = st.cc
      /\ o = "CallCc" => st.cc
      /\ o \in {"Call", "CallCc"} => /\ micro.temp = Pair(h, l) /\ cycles = 3
                                     /\ log = <<Opcode, Operand(1, l), Operand(2, h)>>
      /\ o = "Rst" => log = <<Opcode>> /\ cycles = 1
  BY <1>1 DEF TraceInv, InExecute, ExecOps, CondOps, Ran, Made
<1>3. CondMatches(o)
  BY <1>1, <1>2 DEF CondMatches, CondOps
<1>4. Commit(arch, PushReturn(t))
  BY <1>1, <1>3 DEF ExecuteJump, Executing
<1> HIDE DEF t
<1>5. /\ StillRunning /\ UNCHANGED <<st, op, bus, arch>> /\ log' = log /\ cycles' = cycles + 1
      /\ micro'.phase.n = "WriteMem" /\ micro'.phase.k = "PushHi"
      /\ micro'.decoded = o /\ micro'.imm_lo = l /\ micro'.temp = t
      /\ micro'.phase.addr = Minus(arch.sp, 1) /\ micro'.phase.data = Hi(arch.pc)
      /\ micro'.phase.aux = arch.pc
  BY <1>4, PushingReturn
<1>6. /\ Opcode' = Opcode /\ Machine!After(1)' = Machine!After(1) /\ Machine!After(3)' = Machine!After(3)
      /\ \A d : Operand(1, d)' = Operand(1, d) /\ Operand(2, d)' = Operand(2, d)
  BY <1>5, AfterKept
<1>7. CASE o = "Rst"
  <2>1. /\ Ran(1, st.sp, st.cc)' /\ Made(<<Opcode>>, 2)' /\ micro'.temp = RstVector
        /\ Writing(Minus(st.sp, 1), Hi(Machine!After(1)))'
        /\ micro'.phase.aux = Machine!After(1)'
    BY <1>1, <1>2, <1>5, <1>6, <1>7 DEF Ran, Made, Writing, t
  <2>2. InStore' /\ InStoreSp' /\ InPush' /\ InRst' /\ InCall'
    BY <1>5, <1>7, <2>1 DEF InStore, InStoreSp, InPush, InRst, InCall, WriteHlOps
  <2> QED BY <1>1, <1>5, <2>2, ToWriteMem
<1>8. CASE o \in {"Call", "CallCc"}
  <2>1. PICK x \in Byte : x = h
    BY <1>1
  <2>2. /\ Ran(3, st.sp, st.cc)' /\ Made(<<Opcode, Operand(1, micro.imm_lo), Operand(2, x)>>, 4)'
        /\ micro'.temp = Pair(x, micro'.imm_lo)
        /\ Writing(Minus(st.sp, 1), Hi(Machine!After(3)))'
        /\ micro'.phase.aux = Machine!After(3)'
        /\ micro'.decoded = "CallCc" => st'.cc
    BY <1>1, <1>2, <1>5, <1>6, <1>8, <2>1 DEF Ran, Made, Writing, t
  <2>3. InCall'
    BY <1>5, <1>8, <2>2 DEF InCall
  <2>4. InStore' /\ InStoreSp' /\ InPush' /\ InRst'
    BY <1>5, <1>8 DEF InStore, InStoreSp, InPush, InRst, WriteHlOps
  <2> QED BY <1>1, <1>5, <2>3, <2>4, ToWriteMem
<1> QED BY <1>1, <1>7, <1>8

(* A return that has its address completes; RETI also enables interrupts.    *)
LEMMA ReturnTrace ==
    ASSUME SeqInv, TraceInv, SeqInv', ExecuteReturn, Record(Internal, micro.decoded),
           micro.decoded = "RetCc" => micro.imm_hi # 1
    PROVE  TraceInv' /\ Machine!Next
<1> DEFINE o == micro.decoded
           ar == [arch EXCEPT !.pc = micro.temp]
           mi == ToFetch(micro.temp)
           end == Machine!Done(o, 1)
<1>1. /\ micro.phase.n = "Execute" /\ micro.phase.k = o /\ st.halt # "Halted"
      /\ st \in ArchState /\ arch \in ArchState /\ micro \in MicroState /\ micro.temp \in Word
      /\ arch.hl = st.hl /\ arch.a = st.a /\ arch.ime = st.ime /\ arch.halt = "Running"
      /\ o \in {"Ret", "Reti", "RetCc"} /\ st.cc \in BOOLEAN
  <2>1. Executing({"Ret", "Reti", "RetCc"})
    BY DEF ExecuteReturn, Executing
  <2> QED BY <2>1, ExecuteFacts DEF ExecOps
<1>2. PICK l \in Byte, v \in Byte :
         /\ arch.pc = Machine!After(1) /\ arch.sp = Plus(st.sp, 2) /\ arch.cc = st.cc
         /\ log = <<Opcode, Read(st.sp, l), Read(Plus(st.sp, 1), v)>>
         /\ micro.temp = Pair(v, l)
         /\ (o = "RetCc" => st.cc)
  BY <1>1 DEF TraceInv, InExecute, ExecOps, CondOps, Popped, Ran, Made
<1>3. /\ o # "Reti" => Commit(ar, mi)
      /\ o = "Reti" => CommitIme(ar, "Enabled", mi)
  BY <1>1 DEF ExecuteReturn, Executing
<1>4. /\ ar \in ArchState /\ ar.pc = Pair(v, l) /\ ar.sp = Plus(st.sp, 2) /\ ar.hl = st.hl
      /\ ar.a = st.a /\ ar.cc = st.cc /\ ar.halt = "Running"
  BY <1>1, <1>2 DEF ArchState
<1>5. mi.phase.n = "Fetch"
  BY <1>1, BackToFetch
<1> HIDE DEF ar, mi
<1>6. /\ TraceInv' /\ op' = o /\ st' \in ArchState
      /\ st'.pc = ar.pc /\ st'.sp = ar.sp /\ st'.hl = ar.hl /\ st'.a = ar.a
      /\ st'.cc = ar.cc /\ st'.halt = ar.halt /\ st'.ime = Machine!ImeAfter(o)
      /\ bus' = log \o <<>>
  <2>1. CASE o # "Reti"
    BY <1>1, <1>3, <1>4, <1>5, <2>1, InternalEnds
  <2>2. CASE o = "Reti"
    <3>1. micro' = mi /\ arch' = [ar EXCEPT !.ime = "Enabled"]
      BY <1>3, <2>2 DEF CommitIme
    <3>2. InstructionComplete(micro'.phase)
      BY <1>5, <3>1 DEF InstructionComplete
    <3>3. TraceInv' /\ st' = arch' /\ op' = o /\ bus' = log \o <<>> /\ st' \in ArchState
      BY <3>2, Completed DEF Internal
    <3>4. Machine!ImeAfter(o) = "Enabled"
      BY <2>2 DEF Machine!ImeAfter
    <3> QED BY <1>4, <3>1, <3>3, <3>4 DEF ArchState
  <2> QED BY <2>1, <2>2
<1>7. st' = SetPc(SetSp(end, Plus(st.sp, 2)), Pair(v, l))
  BY <1>1, <1>4, <1>6, EndStates
<1> DEFINE pop == <<Read(st.sp, l), Read(Plus(st.sp, 1), v)>>
<1>8. Machine!MemoryEffect(op', l, v) = <<st', pop>>
  <2>1. op' \in {"Ret", "Reti"} \/ (op' = "RetCc" /\ st.cc)
    BY <1>1, <1>2, <1>6
  <2>2. Machine!MemoryEffect(op', l, v)
        = <<SetPc(SetSp(Machine!Done(op', 1), Plus(st.sp, 2)), Pair(v, l)), pop>>
    BY <2>1, MemoryEffects
  <2> QED BY <1>6, <1>7, <2>2
<1>9. bus' = <<Opcode>> \o pop
  BY <1>2, <1>6, Concatenations
<1>10. o \in Machine!MemoryOps /\ o \notin CbOps
  BY <1>1, SameClasses, OpClasses DEF Machine!MemoryOps, CbOps
<1> HIDE DEF pop
<1> QED BY <1>1, <1>6, <1>8, <1>9, <1>10, MemoryDone

(* A conditional return spends a cycle on its condition.                     *)
LEMMA RetCcTrace ==
    ASSUME SeqInv, TraceInv, SeqInv', ExecuteReturn, Record(Internal, micro.decoded),
           micro.decoded = "RetCc", micro.imm_hi = 1
    PROVE  TraceInv' /\ (Machine!Next \/ UNCHANGED <<st, op, bus>>)
<1> DEFINE o == micro.decoded
           end == Machine!Done(o, 1)
<1>1. /\ micro.phase.n = "Execute" /\ micro.phase.k = o /\ st.halt # "Halted"
      /\ st \in ArchState /\ arch \in ArchState /\ micro \in MicroState
      /\ arch.hl = st.hl /\ arch.a = st.a /\ arch.ime = st.ime /\ arch.halt = "Running"
      /\ st.cc \in BOOLEAN
  <2>1. Executing({"Ret", "Reti", "RetCc"})
    BY DEF ExecuteReturn, Executing
  <2> QED BY <2>1, ExecuteFacts DEF ExecOps
<1>2. /\ arch.pc = Machine!After(1) /\ arch.sp = st.sp /\ arch.cc = st.cc
      /\ log = <<Opcode>> /\ cycles = 1
  BY <1>1 DEF TraceInv, InExecute, ExecOps, Ran, Made
<1>3. CASE st.cc
  <2> DEFINE mi == [micro EXCEPT !.phase = ReadMem(arch.sp, "RetLo"), !.imm_hi = 0]
  <2>1. Commit(arch, mi)
    BY <1>1, <1>2, <1>3 DEF ExecuteReturn, Executing, CondMatches
  <2>2. /\ mi.phase.n = "ReadMem" /\ mi.phase.k = "RetLo" /\ mi.phase.addr = st.sp
        /\ mi.decoded = "RetCc"
    BY <1>1, <1>2, PhaseFields DEF MicroState
  <2> HIDE DEF mi
  <2>3. /\ StillRunning /\ UNCHANGED <<st, op, bus>>
        /\ log' = log \o Internal /\ cycles' = cycles + 1 /\ micro' = mi
        /\ Ran(1, st.sp, st.cc)'
    BY <1>1, <1>2, <2>1, <2>2, GoesOn
  <2>4. log' = <<Opcode>>' /\ cycles' = 2 /\ st' = st
    BY <1>2, <2>3, AfterKept, Concatenations DEF Internal
  <2>5. InRead'
    BY <1>3, <2>2, <2>3, <2>4 DEF InRead
  <2> QED BY <1>1, <2>2, <2>3, <2>5, ToReadMem
<1>4. CASE ~ st.cc
  <2> DEFINE mi == [micro EXCEPT !.phase = Fetch, !.imm_hi = 0]
  <2>1. Commit(arch, mi)
    BY <1>1, <1>2, <1>4 DEF ExecuteReturn, Executing, CondMatches, CondOps, NotTaken
  <2>2. mi.phase.n = "Fetch"
    BY <1>1, PhaseFields DEF MicroState
  <2> HIDE DEF mi
  <2>3. /\ TraceInv' /\ op' = o /\ st' \in ArchState
        /\ st'.pc = arch.pc /\ st'.sp = arch.sp /\ st'.hl = arch.hl /\ st'.a = arch.a
        /\ st'.cc = arch.cc /\ st'.halt = arch.halt /\ st'.ime = Machine!ImeAfter(o)
        /\ bus' = log \o <<>>
    BY <1>1, <2>1, <2>2, InternalEnds
  <2>4. st' = end
    BY <1>1, <1>2, <2>3, EndStates
  <2>5. Machine!MemoryEffect(op', 0, 0) = <<st', <<>>>>
    BY <1>4, <2>3, <2>4, MemoryEffects
  <2>6. bus' = <<Opcode>> \o <<>>
    BY <1>2, <2>3
  <2>7. "RetCc" \in Machine!MemoryOps /\ "RetCc" \notin CbOps
    BY DEF Machine!MemoryOps, CbOps
  <2> QED BY <1>1, <2>3, <2>5, <2>6, <2>7, SmallBytes, MemoryDone
<1> QED BY <1>1, <1>3, <1>4

(* PUSH goes on with the high byte, LD SP,HL is done.                        *)
LEMMA StackTrace ==
    ASSUME SeqInv, TraceInv, SeqInv', ExecuteStackAndLoad, Record(Internal, micro.decoded)
    PROVE  TraceInv' /\ (Machine!Next \/ UNCHANGED <<st, op, bus>>)
<1> DEFINE o == micro.decoded
<1>1. /\ micro.phase.n = "Execute" /\ micro.phase.k = o /\ st.halt # "Halted"
      /\ st \in ArchState /\ arch \in ArchState /\ micro \in MicroState
      /\ arch.hl = st.hl /\ arch.a = st.a /\ arch.ime = st.ime /\ arch.halt = "Running"
      /\ o \in {"Push", "LdSpHl"} /\ st.hl \in Word
  <2>1. Executing({"Push", "LdSpHl"})
    BY DEF ExecuteStackAndLoad, Executing
  <2> QED BY <2>1, ExecuteFacts DEF ExecOps
<1>2. CASE o = "Push"
  <2> DEFINE ph == [WriteMem(Minus(arch.sp, 1), Hi(arch.hl), "PushLo")
                      EXCEPT !.lo = Lo(arch.hl), !.aux = Minus(arch.sp, 2)]
             mi == [micro EXCEPT !.phase = ph, !.temp = arch.hl]
  <2>1. /\ arch.pc = Machine!After(1) /\ arch.sp = st.sp /\ arch.cc = st.cc
        /\ log = <<Opcode>> /\ cycles = 1
    BY <1>1, <1>2 DEF TraceInv, InExecute, ExecOps, Ran, Made
  <2>2. Commit(arch, mi)
    BY <1>1, <1>2 DEF ExecuteStackAndLoad, Executing
  <2>3. /\ ph.n = "WriteMem" /\ ph.k = "PushLo" /\ ph.addr = Minus(arch.sp, 1)
        /\ ph.data = Hi(arch.hl) /\ ph.lo = Lo(arch.hl) /\ ph.aux = Minus(arch.sp, 2)
    BY DEF WriteMem, MkPhase
  <2> HIDE DEF ph
  <2>4. mi.phase = ph /\ mi.decoded = "Push"
    BY <1>1, <1>2 DEF MicroState
  <2> HIDE DEF mi
  <2>5. /\ StillRunning /\ UNCHANGED <<st, op, bus>>
        /\ log' = log \o Internal /\ cycles' = cycles + 1 /\ micro' = mi
        /\ Ran(1, st.sp, st.cc)'
    BY <1>1, <2>1, <2>2, <2>3, <2>4, GoesOn
  <2>6. Made(<<Opcode>>, 2)'
    BY <2>1, <2>5, AfterKept, Concatenations DEF Internal, Made
  <2>7. /\ micro'.phase.n = "WriteMem" /\ micro'.phase.k = "PushLo" /\ micro'.decoded = "Push"
        /\ Writing(Minus(st.sp, 1), Hi(st.hl))'
        /\ micro'.phase.lo = Lo(st.hl)' /\ micro'.phase.aux = Minus(st.sp, 2)'
    BY <1>1, <2>1, <2>3, <2>4, <2>5 DEF Writing
  <2>8. InStore' /\ InStoreSp' /\ InPush' /\ InRst' /\ InCall'
    BY <2>5, <2>6, <2>7 DEF InStore, InStoreSp, InPush, InRst, InCall, WriteHlOps
  <2> QED BY <1>1, <2>5, <2>7, <2>8, ToWriteMem
<1>3. CASE o = "LdSpHl"
  <2> DEFINE ar == [arch EXCEPT !.sp = arch.hl]
             mi == [micro EXCEPT !.phase = Fetch]
  <2>1. arch.pc = Machine!After(1) /\ arch.cc = st.cc /\ log = <<Opcode>>
    BY <1>1, <1>3 DEF TraceInv, InExecute, ExecOps, Ran, Made
  <2>2. Commit(ar, mi)
    BY <1>1, <1>3 DEF ExecuteStackAndLoad, Executing
  <2>3. mi.phase.n = "Fetch"
    BY <1>1, PhaseFields DEF MicroState
  <2>4. /\ ar \in ArchState /\ ar.pc = Machine!After(1) /\ ar.sp = st.hl /\ ar.hl = st.hl
        /\ ar.a = st.a /\ ar.cc = st.cc /\ ar.halt = "Running"
    BY <1>1, <2>1 DEF ArchState
  <2> HIDE DEF ar, mi
  <2>5. /\ TraceInv' /\ op' = o /\ st' \in ArchState
        /\ st'.pc = ar.pc /\ st'.sp = ar.sp /\ st'.hl = ar.hl /\ st'.a = ar.a
        /\ st'.cc = ar.cc /\ st'.halt = ar.halt /\ st'.ime = Machine!ImeAfter(o)
        /\ bus' = log \o <<>>
    BY <1>1, <2>2, <2>3, <2>4, InternalEnds
  <2>6. st' = SetSp(Machine!Done(o, 1), st.hl)
    BY <1>1, <2>4, <2>5, EndStates
  <2>7. st' = Machine!RegisterEffect(op') /\ "LdSpHl" \in Machine!RegisterOps
    BY <1>3, <2>5, <2>6, RegisterEffects DEF SetSp, Machine!RegisterOps
  <2>8. bus' = <<Opcode>>
    BY <2>1, <2>5, Concatenations
  <2> QED BY <1>1, <1>3, <2>5, <2>7, <2>8, RegisterDone
<1> QED BY <1>1, <1>2, <1>3

(* Every internal cycle.                                                     *)
LEMMA InternalTrace ==
    ASSUME SeqInv, TraceInv, SeqInv', InternalStep
    PROVE  TraceInv' /\ (Machine!Next \/ UNCHANGED <<st, op, bus>>)
<1>1. ExecuteInternal /\ Record(Internal, micro.decoded)
  BY DEF InternalStep
<1>2. CASE ExecuteAlu
  BY <1>1, <1>2, AluTrace
<1>3. CASE ExecuteIncMem
  BY <1>1, <1>3, IncMemTrace
<1>4. CASE ExecuteWordAlu
  BY <1>1, <1>4, WordAluTrace
<1>5. CASE ExecuteJump
  <2>1. Executing({"Jp", "JpCc", "Jr", "JrCc"}) \/ Executing({"Call", "CallCc", "Rst"})
    BY <1>5 DEF ExecuteJump, Executing
  <2> QED BY <1>1, <1>5, <2>1, JumpTrace, CallStartTrace
<1>6. CASE ExecuteReturn
  BY <1>1, <1>6, ReturnTrace, RetCcTrace
<1>7. CASE ExecuteStackAndLoad
  BY <1>1, <1>7, StackTrace
<1> QED BY <1>1, <1>2, <1>3, <1>4, <1>5, <1>6, <1>7 DEF ExecuteInternal

(* HALT stops the core or arms the HALT bug.                                 *)
LEMMA HaltTrace ==
    ASSUME SeqInv, TraceInv, SeqInv', HaltStep
    PROVE  TraceInv' /\ Machine!Next
<1>1. PICK pending \in Pendings : ExecuteHalt(pending) /\ Record(Internal, "Halt")
  BY DEF HaltStep
<1>2. /\ micro.phase.n = "Execute" /\ micro.decoded = "Halt" /\ st.halt # "Halted"
      /\ st \in ArchState /\ arch \in ArchState /\ micro \in MicroState
      /\ arch.hl = st.hl /\ arch.a = st.a /\ arch.ime = st.ime /\ arch.halt = "Running"
  <2>1. Executing({"Halt"})
    BY <1>1 DEF ExecuteHalt
  <2> QED BY <2>1, ExecuteFacts DEF ExecOps
<1>3. /\ arch.pc = Machine!After(1) /\ arch.sp = st.sp /\ arch.cc = st.cc /\ log = <<Opcode>>
  BY <1>2 DEF TraceInv, InExecute, ExecOps, Ran, Made
<1>4. PICK h \in HaltState :
         /\ h = "Halted" \/ (h = "HaltBugPending" /\ st.ime = "Disabled")
         /\ \E mi : /\ Commit([arch EXCEPT !.halt = h], mi)
                    /\ mi.phase.n \in {"Fetch", "Halted"}
  <2> DEFINE m1 == [micro EXCEPT !.phase = Fetch]
             m2 == [micro EXCEPT !.phase = MkPhase("Halted", "-")]
  <2>1. m1.phase.n = "Fetch" /\ m2.phase.n = "Halted"
    BY <1>2, PhaseFields DEF MicroState
  <2>2. CASE arch.ime = "Disabled" /\ pending # {}
    <3>1. Commit([arch EXCEPT !.halt = "HaltBugPending"], m1)
      BY <1>1, <2>2 DEF ExecuteHalt
    <3> HIDE DEF m1
    <3> QED BY <1>2, <2>1, <2>2, <3>1 DEF HaltState
  <2>3. CASE ~ (arch.ime = "Disabled" /\ pending # {})
    <3>1. Commit([arch EXCEPT !.halt = "Halted"], m2)
      BY <1>1, <2>3 DEF ExecuteHalt
    <3> HIDE DEF m2
    <3> QED BY <2>1, <3>1 DEF HaltState
  <2> QED BY <2>2, <2>3
<1>5. PICK mi : Commit([arch EXCEPT !.halt = h], mi) /\ mi.phase.n \in {"Fetch", "Halted"}
  BY <1>4
<1> DEFINE ar == [arch EXCEPT !.halt = h]
           end == Machine!Done("Halt", 1)
           x == [end EXCEPT !.halt = h]
<1>6. /\ ar \in ArchState /\ ar.pc = Machine!After(1) /\ ar.sp = st.sp /\ ar.hl = st.hl
      /\ ar.a = st.a /\ ar.cc = st.cc /\ ar.halt = h
  BY <1>2, <1>3, <1>4 DEF ArchState
<1>7. /\ x \in ArchState /\ x.pc = Machine!After(1) /\ x.sp = st.sp /\ x.hl = st.hl
      /\ x.a = st.a /\ x.cc = st.cc /\ x.halt = h /\ x.ime = Machine!ImeAfter("Halt")
  <2>1. /\ end \in ArchState
        /\ end.pc = Machine!After(1) /\ end.sp = st.sp /\ end.hl = st.hl /\ end.a = st.a
        /\ end.cc = st.cc /\ end.ime = Machine!ImeAfter("Halt")
    BY <1>2, DoneState
  <2> HIDE DEF end
  <2> QED BY <1>4, <2>1 DEF ArchState
<1>8. Commit(ar, mi)
  BY <1>5
<1> HIDE DEF ar, x
<1>9. /\ micro' = mi
      /\ arch'.pc = ar.pc /\ arch'.sp = ar.sp /\ arch'.hl = ar.hl /\ arch'.a = ar.a
      /\ arch'.cc = ar.cc /\ arch'.halt = ar.halt
      /\ InstructionComplete(micro'.phase) =>
            \A i : i \notin {"Ei", "Di", "Reti"} => arch'.ime = Machine!ImeAfter(i)
  <2>1. arch.ime = st.ime
    BY <1>2
  <2> QED BY <1>6, <1>8, <2>1, CommitFields
<1>10. InstructionComplete(micro'.phase)
  BY <1>5, <1>9 DEF InstructionComplete
<1>11. TraceInv' /\ st' = arch' /\ op' = "Halt" /\ bus' = log \o <<>> /\ st' \in ArchState
  BY <1>1, <1>10, Completed DEF Internal
<1>12. st' = x
  BY <1>6, <1>7, <1>9, <1>10, <1>11, SameArch
<1>13. bus' = <<Opcode>> \o <<>> \o <<>>
  BY <1>3, <1>11, Concatenations
<1>14. Machine!OpcodeReads(op') = <<Opcode>>
  BY <1>11, SameWords, SameClasses DEF Machine!OpcodeReads, Opcode, CbOps
<1>15. Machine!Makes(<<x, <<>>>>, <<>>)
  BY <1>12, <1>13, <1>14 DEF Machine!Makes
<1>16. Machine!Halt
  BY <1>4, <1>11, <1>15 DEF Machine!Halt, x
<1> QED BY <1>2, <1>11, <1>16 DEF Machine!Next

(* A commit with the IME as it is already resolved only changes what it names. *)
LEMMA ResolvedCommit ==
    ASSUME NEW ar \in ArchState, NEW mi, Commit(ar, mi), ar.ime = arch.ime,
           arch.ime # "PendingEnable"
    PROVE  arch' = ar /\ micro' = mi
<1>1. micro' = mi /\ arch' = [ar EXCEPT !.ime = arch.ime]
  BY DEF Commit, CommitIme, ResolvedIme
<1> QED BY <1>1 DEF ArchState

(* Entering a dispatch: the interrupt is chosen, nothing is transferred yet. *)
LEMMA EntryTrace ==
    ASSUME SeqInv, TraceInv, SeqInv', EntryStep
    PROVE  TraceInv' /\ UNCHANGED <<st, op, bus>>
<1>1. PICK pending \in Pendings : HandleInterrupt(pending) /\ Record(Internal, "-")
  BY DEF EntryStep
<1> DEFINE ph == Service(IrqSelected(pending), "Delay1")
<1>2. arch \in ArchState /\ micro \in MicroState
  BY DEF SeqInv, CpuTypeOK
<1>3. /\ arch.ime = "Enabled" /\ micro.phase.n \in {"Fetch", "Halted"}
      /\ arch' = [[arch EXCEPT !.halt = "Running"] EXCEPT !.ime = "Disabled"]
      /\ micro' = [micro EXCEPT !.phase = ph]
  BY <1>1 DEF HandleInterrupt, TakesInterrupt, ServiceEntry, CommitIme, AtFetch
<1>4. arch = st /\ log = <<>> /\ st \in ArchState
  BY <1>3 DEF TraceInv, AtBoundary, InstructionComplete, Made
<1>5. st.halt # "HaltBugPending"
  BY <1>3, <1>4 DEF SeqInv, SequencerConsistent, InterruptStateConsistent
<1>6. ph.n = "ServiceInterrupt" /\ ph.k = "Delay1"
  BY DEF Service, MkPhase
<1> HIDE DEF ph
<1>7. micro'.phase = ph
  BY <1>2, <1>3 DEF MicroState
<1>8. /\ UNCHANGED <<st, op, bus>> /\ retired' = retired
      /\ log' = log \o Internal /\ cycles' = cycles + 1 /\ cycles' \in Nat
  <2>1. ~ InstructionComplete(micro'.phase)
    BY <1>6, <1>7 DEF InstructionComplete
  <2> QED BY <1>1, <2>1, Recorded
<1>9. log' = <<>>
  BY <1>4, <1>8, Concatenations DEF Internal
<1>10. /\ arch'.pc = st.pc /\ arch'.hl = st.hl /\ arch'.a = st.a /\ arch'.cc = st.cc
       /\ arch'.ime = "Disabled" /\ arch'.halt = "Running" /\ arch'.sp = st.sp
  BY <1>3, <1>4 DEF ArchState
<1>11. InDispatch'
  BY <1>3, <1>4, <1>5, <1>6, <1>7, <1>8, <1>9, <1>10 DEF InDispatch
<1> QED BY <1>6, <1>7, <1>8, <1>11, ToService DEF StillRunning

(* A dispatch under way: two idle cycles, the return address, the vector.    *)
LEMMA ServiceTrace ==
    ASSUME SeqInv, TraceInv, SeqInv', ServiceStep
    PROVE  TraceInv' /\ (Machine!Next \/ UNCHANGED <<st, op, bus>>)
<1> DEFINE i == micro.phase.aux
           k == micro.phase.k
           name == Machine!IrqName[i + 1]
           hi == Write(Minus(st.sp, 1), Hi(st.pc))
           lo == Write(Minus(st.sp, 2), Lo(st.pc))
           pushed == [arch EXCEPT !.sp = Minus(arch.sp, 1)]
           Going(sub) == [micro EXCEPT !.phase = Service(i, sub)]
<1>1. /\ HandleServiceInterrupt /\ Record(Writes, name)
      /\ micro.phase.n = "ServiceInterrupt" /\ k \in IrqPhases /\ i \in Irq
  BY DEF ServiceStep, HandleServiceInterrupt, SeqInv, SequencerConsistent, LatchMatchesPhase
<1>2. /\ arch \in ArchState /\ micro \in MicroState /\ st \in ArchState
      /\ st.sp \in Word /\ arch.sp \in Word
  BY DEF SeqInv, CpuTypeOK, TraceInv, ArchState
<1>3. /\ st.ime = "Enabled" /\ st.halt # "HaltBugPending"
      /\ arch.pc = st.pc /\ arch.hl = st.hl /\ arch.a = st.a /\ arch.cc = st.cc
      /\ arch.ime = "Disabled" /\ arch.halt = "Running"
      /\ k \in {"Delay1", "Delay2", "PushPcHi"} => arch.sp = st.sp /\ log = <<>>
      /\ k = "PushPcLo" => arch.sp = Minus(st.sp, 1) /\ log = <<hi>>
      /\ k = "Jump" => arch.sp = Minus(st.sp, 2) /\ log = <<hi, lo>>
  BY <1>1 DEF TraceInv, InDispatch
<1>4. /\ k \notin {"PushPcHi", "PushPcLo"} => Writes = <<>>
      /\ k = "PushPcHi" => Writes = <<hi>>
      /\ k = "PushPcLo" => Writes = <<lo>>
  <2>1. Minus(Minus(st.sp, 1), 1) = Minus(st.sp, 2)
    BY <1>2, Counting
  <2>2. CASE k \notin {"PushPcHi", "PushPcLo"}
    <3>1. BusReq({}) = [kind |-> "Idle", addr |-> 0, data |-> 0]
      BY <1>1, <2>2 DEF BusReq
    <3> QED BY <2>2, <3>1 DEF Writes
  <2>3. CASE k = "PushPcHi"
    <3>1. BusReq({}) = Write(Minus(arch.sp, 1), Hi(arch.pc))
      BY <1>1, <2>3 DEF BusReq
    <3>2. BusReq({}) = hi /\ BusReq({}).kind = "Write"
      BY <1>3, <2>3, <3>1 DEF Write
    <3> QED BY <2>3, <3>2 DEF Writes
  <2>4. CASE k = "PushPcLo"
    <3>1. BusReq({}) = Write(Minus(arch.sp, 1), Lo(arch.pc))
      BY <1>1, <2>4 DEF BusReq
    <3>2. BusReq({}) = lo /\ BusReq({}).kind = "Write"
      BY <1>3, <2>1, <2>4, <3>1 DEF Write
    <3> QED BY <2>4, <3>2 DEF Writes
  <2> QED BY <2>2, <2>3, <2>4
<1>5. /\ pushed \in ArchState /\ pushed.sp = Minus(arch.sp, 1) /\ pushed.pc = arch.pc
      /\ pushed.hl = arch.hl /\ pushed.a = arch.a /\ pushed.cc = arch.cc
      /\ pushed.ime = arch.ime /\ pushed.halt = arch.halt
  <2>1. Minus(arch.sp, 1) \in Word
    BY <1>2, MinusWord, WordNat
  <2> QED BY <1>2, <2>1 DEF ArchState
<1>6. \A sub : /\ Going(sub).phase.n = "ServiceInterrupt" /\ Going(sub).phase.k = sub
               /\ Going(sub).phase.aux = i
  <2> TAKE sub
  <2> DEFINE ph == Service(i, sub)
  <2>1. ph.n = "ServiceInterrupt" /\ ph.k = sub /\ ph.aux = i
    BY DEF Service, MkPhase
  <2> HIDE DEF ph
  <2>2. [micro EXCEPT !.phase = ph].phase = ph
    BY <1>2 DEF MicroState
  <2> QED BY <2>1, <2>2 DEF ph
<1> HIDE DEF hi, lo, name
<1>7. ASSUME NEW ar \in ArchState, NEW sub, sub # "-", Commit(ar, Going(sub)),
             ar.pc = arch.pc, ar.hl = arch.hl, ar.a = arch.a, ar.cc = arch.cc,
             ar.ime = arch.ime, ar.halt = arch.halt
      PROVE  /\ StillRunning /\ UNCHANGED <<st, op, bus>> /\ log' = log \o Writes
             /\ micro'.phase.n = "ServiceInterrupt" /\ micro'.phase.k = sub
             /\ arch'.pc = st'.pc /\ arch'.hl = st'.hl /\ arch'.a = st'.a /\ arch'.cc = st'.cc
             /\ arch'.ime = "Disabled" /\ arch'.halt = "Running" /\ arch'.sp = ar.sp
             /\ st'.ime = "Enabled" /\ st'.halt # "HaltBugPending"
  <2>1. arch' = ar /\ micro' = Going(sub)
    BY <1>3, <1>7, ResolvedCommit
  <2>2. ~ InstructionComplete(micro'.phase)
    BY <1>6, <2>1 DEF InstructionComplete
  <2>3. /\ UNCHANGED <<st, op, bus>> /\ retired' = retired
        /\ log' = log \o Writes /\ cycles' = cycles + 1 /\ cycles' \in Nat
    BY <1>1, <2>2, Recorded
  <2> QED BY <1>3, <1>6, <1>7, <2>1, <2>3 DEF StillRunning
<1> DEFINE Sent(trs, sp) == log' = trs /\ arch'.sp = sp
<1>8. ASSUME NEW ar \in ArchState, NEW sub, sub # "-", Commit(ar, Going(sub)),
             ar.pc = arch.pc, ar.hl = arch.hl, ar.a = arch.a, ar.cc = arch.cc,
             ar.ime = arch.ime, ar.halt = arch.halt,
             \/ sub \in {"Delay2", "PushPcHi"} /\ ar.sp = st.sp /\ log \o Writes = <<>>
             \/ sub = "PushPcLo" /\ ar.sp = Minus(st.sp, 1) /\ log \o Writes = <<hi>>
             \/ sub = "Jump" /\ ar.sp = Minus(st.sp, 2) /\ log \o Writes = <<hi, lo>>
      PROVE  TraceInv' /\ UNCHANGED <<st, op, bus>>
  <2>1. /\ StillRunning /\ UNCHANGED <<st, op, bus>> /\ log' = log \o Writes
        /\ micro'.phase.n = "ServiceInterrupt" /\ micro'.phase.k = sub
        /\ arch'.pc = st'.pc /\ arch'.hl = st'.hl /\ arch'.a = st'.a /\ arch'.cc = st'.cc
        /\ arch'.ime = "Disabled" /\ arch'.halt = "Running" /\ arch'.sp = ar.sp
        /\ st'.ime = "Enabled" /\ st'.halt # "HaltBugPending"
    BY <1>7, <1>8
  <2>2. /\ sub \in {"Delay1", "Delay2", "PushPcHi"} => ar.sp = st.sp /\ log' = <<>>
        /\ sub = "PushPcLo" => ar.sp = Minus(st.sp, 1) /\ log' = <<hi>>
        /\ sub = "Jump" => ar.sp = Minus(st.sp, 2) /\ log' = <<hi, lo>>
    BY <1>8, <2>1
  <2>3. st' = st /\ hi' = hi /\ lo' = lo
    BY <2>1 DEF hi, lo
  <2>4. InDispatch'
    BY <2>1, <2>2, <2>3 DEF InDispatch, hi, lo
  <2> QED BY <2>1, <2>4, ToService
<1>9. CASE k \in {"Delay1", "Delay2"}
  <2>1. Commit(arch, Going("Delay2")) \/ Commit(arch, Going("PushPcHi"))
    BY <1>1, <1>9 DEF HandleServiceInterrupt
  <2>2. arch.sp = st.sp /\ log \o Writes = <<>>
    BY <1>3, <1>4, <1>9, Concatenations
  <2> HIDE DEF Going
  <2> QED BY <1>2, <1>8, <2>1, <2>2
<1>10. CASE k = "PushPcHi"
  <2>1. Commit(pushed, Going("PushPcLo"))
    BY <1>1, <1>10 DEF HandleServiceInterrupt
  <2>2. pushed.sp = Minus(st.sp, 1) /\ log \o Writes = <<hi>>
    BY <1>3, <1>4, <1>5, <1>10, Concatenations
  <2> HIDE DEF Going, pushed
  <2> QED BY <1>5, <1>8, <2>1, <2>2
<1>11. CASE k = "PushPcLo"
  <2>1. Commit(pushed, Going("Jump"))
    BY <1>1, <1>11 DEF HandleServiceInterrupt
  <2>2. pushed.sp = Minus(st.sp, 2) /\ log \o Writes = <<hi, lo>>
    <3>1. pushed.sp = Minus(st.sp, 2)
      <4>1. Minus(Minus(st.sp, 1), 1) = Minus(st.sp, 2)
        BY <1>2, Counting
      <4> QED BY <1>3, <1>5, <1>11, <4>1
    <3>2. <<hi>> \o <<lo>> = <<hi, lo>>
      BY Concatenations
    <3>3. log = <<hi>> /\ Writes = <<lo>>
      BY <1>3, <1>4, <1>11
    <3> QED BY <3>1, <3>2, <3>3
  <2> HIDE DEF Going, pushed
  <2> QED BY <1>5, <1>8, <2>1, <2>2
<1>12. CASE k = "Jump"
  <2> DEFINE ar == [arch EXCEPT !.pc = Vector(i)]
             mi == [micro EXCEPT !.phase = Fetch]
             end == [Machine!Called(st, Vector(i)) EXCEPT !.ime = "Disabled", !.halt = "Running"]
  <2>1. Commit(ar, mi)
    BY <1>1, <1>12 DEF HandleServiceInterrupt
  <2>2. Vector(i) \in Word /\ Minus(st.sp, 2) \in Word
    BY <1>1, <1>2, VectorWord, MinusWord, WordNat
  <2>3. /\ ar \in ArchState /\ ar.pc = Vector(i) /\ ar.sp = Minus(st.sp, 2) /\ ar.hl = st.hl
        /\ ar.a = st.a /\ ar.cc = st.cc /\ ar.ime = "Disabled" /\ ar.halt = "Running"
    BY <1>2, <1>3, <1>12, <2>2 DEF ArchState
  <2>4. /\ end \in ArchState /\ end.pc = Vector(i) /\ end.sp = Minus(st.sp, 2) /\ end.hl = st.hl
        /\ end.a = st.a /\ end.cc = st.cc /\ end.ime = "Disabled" /\ end.halt = "Running"
    <3>1. Machine!Called(st, Vector(i)) = [st EXCEPT !.pc = Vector(i), !.sp = Minus(st.sp, 2)]
      BY SameWords DEF Machine!Called
    <3> QED BY <1>2, <2>2, <3>1 DEF ArchState, ImeState, HaltState
  <2>5. mi.phase.n = "Fetch"
    BY <1>2, PhaseFields DEF MicroState
  <2> HIDE DEF ar, mi
  <2>6. arch' = ar /\ micro' = mi
    BY <1>3, <2>1, <2>3, ResolvedCommit
  <2>7. InstructionComplete(micro'.phase)
    BY <2>5, <2>6 DEF InstructionComplete
  <2>8. TraceInv' /\ st' = arch' /\ op' = name /\ bus' = log \o Writes
    BY <1>1, <2>7, Completed
  <2>9. st' = end
    <3> HIDE DEF end
    <3> QED BY <2>3, <2>4, <2>6, <2>8, SameArch
  <2>10. bus' = Machine!PushWord(st.pc)
    <3>1. bus' = <<hi, lo>>
      <4>1. <<hi, lo>> \o <<>> = <<hi, lo>>
        BY Concatenations
      <4>2. log = <<hi, lo>> /\ Writes = <<>>
        BY <1>3, <1>4, <1>12
      <4> QED BY <2>8, <4>1, <4>2
    <3> QED BY <3>1, SameWords DEF Machine!PushWord, hi, lo
  <2>11. Machine!Dispatch(i)
    BY <1>3, <2>8, <2>9, <2>10, SameWords DEF Machine!Dispatch, Machine!HaltBug, name
  <2> QED BY <1>1, <2>8, <2>11, SameWords DEF Machine!Next
<1> QED BY <1>1, <1>9, <1>10, <1>11, <1>12 DEF IrqPhases

(* In HALT nothing happens until something is pending; then HALT ends.       *)
LEMMA HaltedTrace ==
    ASSUME SeqInv, TraceInv, SeqInv', HaltedStep
    PROVE  TraceInv' /\ (Machine!Next \/ UNCHANGED <<st, op, bus>>)
<1>1. PICK pending \in Pendings :
         /\ HandleHalted(pending)
         /\ IF pending = {} THEN UNCHANGED <<st, op, bus, log, cycles, retired>>
            ELSE Record(Internal, "Wake")
  BY DEF HaltedStep
<1>2. arch \in ArchState /\ micro \in MicroState /\ micro.phase.n = "Halted"
  BY <1>1 DEF SeqInv, CpuTypeOK, HandleHalted
<1>3. arch.halt = "Halted" /\ arch.ime # "PendingEnable"
  BY <1>2 DEF SeqInv, SequencerConsistent, InterruptStateConsistent
<1>4. arch = st /\ log = <<>> /\ st \in ArchState
  BY <1>2 DEF TraceInv, AtBoundary, InstructionComplete, Made
<1>5. CASE pending = {}
  <2>1. Commit(arch, micro)
    BY <1>1, <1>5 DEF HandleHalted
  <2>2. arch' = arch /\ micro' = micro
    BY <1>2, <1>3, <2>1, ResolvedCommit
  <2>3. UNCHANGED <<st, op, bus, log, cycles, retired>>
    BY <1>1, <1>5
  <2>4. AtBoundary'
    BY <2>2, <2>3 DEF TraceInv, AtBoundary, Made
  <2>5. micro'.phase.n = "Halted"
    BY <1>2, <2>2
  <2>6. InInstruction' /\ AfterPrefix' /\ InImmediate' /\ InRead' /\ InExecute'
    BY <2>5 DEF InInstruction, AfterPrefix, InImmediate, InRead, InExecute
  <2>7. InStore' /\ InStoreSp' /\ InPush' /\ InRst' /\ InCall' /\ InDispatch'
    BY <2>5 DEF InStore, InStoreSp, InPush, InRst, InCall, InDispatch
  <2> QED BY <2>3, <2>4, <2>6, <2>7 DEF TraceInv
<1>6. CASE pending # {}
  <2> DEFINE ar == [arch EXCEPT !.halt = "Running"]
             mi == [micro EXCEPT !.phase = Fetch]
  <2>1. Commit(ar, mi) /\ ~ TakesInterrupt(pending)
    BY <1>1, <1>6 DEF HandleHalted
  <2>2. arch.ime # "Enabled"
    BY <1>2, <1>6, <2>1 DEF TakesInterrupt
  <2>3. ar \in ArchState /\ ar.ime = arch.ime /\ ar = [st EXCEPT !.halt = "Running"]
    BY <1>2, <1>4 DEF ArchState, HaltState
  <2>4. mi.phase.n = "Fetch"
    BY <1>2, PhaseFields DEF MicroState
  <2> HIDE DEF ar, mi
  <2>5. arch' = ar /\ micro' = mi
    BY <1>3, <2>1, <2>3, ResolvedCommit
  <2>6. InstructionComplete(micro'.phase)
    BY <2>4, <2>5 DEF InstructionComplete
  <2>7. TraceInv' /\ st' = arch' /\ op' = "Wake" /\ bus' = log \o Internal
    BY <1>1, <1>6, <2>6, Completed
  <2>8. bus' = <<>>
    BY <1>4, <2>7, Concatenations DEF Internal
  <2>9. Machine!Wake
    BY <1>3, <1>4, <2>2, <2>3, <2>5, <2>7, <2>8 DEF Machine!Wake
  <2> QED BY <2>7, <2>9 DEF Machine!Next
<1> QED BY <1>5, <1>6

(* At an instruction boundary nothing is under way.                          *)
LEMMA BoundaryInv ==
    ASSUME st \in ArchState, arch = st, micro.phase.n = "Fetch",
           log = <<>>, cycles = 0, retired \in Nat
    PROVE  TraceInv
<1>1. AtBoundary /\ cycles \in Nat
  BY DEF AtBoundary, Made
<1>2. InInstruction /\ AfterPrefix /\ InImmediate /\ InRead /\ InExecute
  BY DEF InInstruction, AfterPrefix, InImmediate, InRead, InExecute
<1>3. InStore /\ InStoreSp /\ InPush /\ InRst /\ InCall /\ InDispatch
  BY DEF InStore, InStoreSp, InPush, InRst, InCall, InDispatch
<1> QED BY <1>1, <1>2, <1>3 DEF TraceInv

(* The core and the machine start, and are reset to, the same state.         *)
LEMMA StartTrace ==
    /\ Init => SeqInv /\ TraceInv /\ Machine!Init
    /\ ResetStep => TraceInv' /\ Machine!Next
<1>1. /\ ResetArch = Machine!StartState /\ ResetArch \in ArchState
      /\ ResetMicro.phase.n = "Fetch" /\ 0 \in Nat
  <2>1. ResetArch = Machine!StartState
    BY SameWords DEF ResetArch, Machine!StartState
  <2> QED BY <2>1, ResetTypes, PhaseFields DEF ResetMicro
<1>2. ASSUME Init PROVE SeqInv /\ TraceInv /\ Machine!Init
  <2>1. /\ arch = ResetArch /\ micro = ResetMicro /\ st = arch /\ op = "Reset" /\ bus = <<>>
        /\ log = <<>> /\ cycles = 0 /\ retired = 0 /\ CpuInit
    BY <1>2 DEF Init, CpuInit
  <2> QED BY <1>1, <2>1, SeqInvInit, BoundaryInv DEF Machine!Init
<1>3. ASSUME ResetStep PROVE TraceInv' /\ Machine!Next
  <2>1. /\ arch' = ResetArch /\ micro' = ResetMicro /\ st' = arch' /\ op' = "Reset" /\ bus' = <<>>
        /\ log' = <<>> /\ cycles' = 0 /\ retired' = 0
    BY <1>3 DEF ResetStep, Reset
  <2>2. AtBoundary' /\ cycles' \in Nat
    BY <2>1 DEF AtBoundary, Made
  <2>3. micro'.phase.n = "Fetch" /\ st' \in ArchState /\ retired' \in Nat
    BY <1>1, <2>1
  <2>4. InInstruction' /\ AfterPrefix' /\ InImmediate' /\ InRead' /\ InExecute'
    BY <2>3 DEF InInstruction, AfterPrefix, InImmediate, InRead, InExecute
  <2>5. InStore' /\ InStoreSp' /\ InPush' /\ InRst' /\ InCall' /\ InDispatch'
    BY <2>3 DEF InStore, InStoreSp, InPush, InRst, InCall, InDispatch
  <2>6. TraceInv'
    BY <2>2, <2>3, <2>4, <2>5 DEF TraceInv
  <2> QED BY <1>1, <2>1, <2>6 DEF Machine!Next, Machine!ResetCore
<1> QED BY <1>2, <1>3

(* Every step recorded is a step of the core.                                *)
LEMMA StepOfCore == Next => CpuNext
<1>1. Pendings \subseteq SUBSET Irq
  BY TraceAssumption
<1> QED
  BY <1>1 DEF Next, Step, FetchStep, PrefixStep, Imm8Step, Imm16LoStep, Imm16HiStep, ReadStep,
     WriteStep, InternalStep, HaltStep, EntryStep, ServiceStep, HaltedStep, ResetStep, CpuNext

(* A step keeps the invariant and is a step of the machine or shows nothing. *)
LEMMA RefinedStep ==
    SeqInv /\ TraceInv /\ [Next]_traceVars
        => SeqInv' /\ TraceInv' /\ [Machine!Next]_Machine!isaVars
<1> SUFFICES ASSUME SeqInv, TraceInv, [Next]_traceVars
             PROVE  SeqInv' /\ TraceInv' /\ [Machine!Next]_Machine!isaVars
  OBVIOUS
<1>1. CASE UNCHANGED traceVars
  <2>1. UNCHANGED <<arch, micro, st, op, bus, log, cycles, retired>>
    BY <1>1 DEF traceVars
  <2>2. SeqInv'
    BY <2>1, SeqInvStep DEF cpuVars
  <2>3. (AtBoundary /\ InInstruction /\ AfterPrefix /\ InImmediate)'
    BY <2>1 DEF TraceInv, AtBoundary, InInstruction, AfterPrefix, InImmediate, Made, Ran,
       Opcode, Operand, Machine!After, Machine!HaltBug
  <2>4. (InRead /\ InExecute)'
    BY <2>1 DEF TraceInv, InRead, InExecute, Popped, Made, Ran, Opcode, Operand,
       Machine!After, Machine!HaltBug
  <2>5. (InStore /\ InStoreSp /\ InPush /\ InRst /\ InCall /\ InDispatch)'
    BY <2>1 DEF TraceInv, InStore, InStoreSp, InPush, InRst, InCall, InDispatch, Modified,
       Made, Ran, Writing, Opcode, Operand, Machine!After, Machine!HaltBug
  <2> QED BY <2>1, <2>2, <2>3, <2>4, <2>5 DEF TraceInv, Machine!isaVars
<1>2. CASE Next
  <2>1. SeqInv'
    BY <1>2, StepOfCore, SeqInvStep
  <2>2. TraceInv' /\ (Machine!Next \/ UNCHANGED <<st, op, bus>>)
    BY <1>2, <2>1, FetchTrace, PrefixTrace, Imm8Trace, Imm16LoTrace, Imm16HiTrace, ReadTrace,
       WriteTrace, InternalTrace, HaltTrace, EntryTrace, ServiceTrace, HaltedTrace, StartTrace
       DEF Next, Step
  <2> QED BY <2>1, <2>2 DEF Machine!isaVars
<1> QED BY <1>1, <1>2

(* The sequencer implements the instruction set, for every width of a byte   *)
(* and every ALU: whatever the latches hold from the instructions before,    *)
(* the path through the phases (step_mcycle, apply_delta) makes exactly the  *)
(* transactions of the instruction decoded and leaves exactly its state;     *)
(* HALT and its bug, EI's delay and the dispatch of interrupts               *)
(* (handle_service_interrupt) included.                                      *)
THEOREM Refinement == Spec => ImplementsIsa
<1>1. Init => SeqInv /\ TraceInv /\ Machine!Init
  BY StartTrace
<1> QED
  BY <1>1, RefinedStep, PTL DEF Spec, ImplementsIsa, Machine!Spec

(* The M-cycles of an instruction, extra cycle included.                     *)
Total(o, taken) == TableCycles(o, taken) + (IF o \in ExtraCycleOps THEN 1 ELSE 0)

(* The instruction that completes now has taken the cycles it should.        *)
InTime == cycles + 1 = Total(op', st.cc)

(* The opcode table with the extra cycle added, by number of cycles.         *)
LEMMA TimeTable ==
    ASSUME NEW b \in BOOLEAN
    PROVE  /\ \A o \in FetchOps : Total(o, b) = 1
           /\ \A o \in {"LdSpHl", "AddHl", "IncHl", "DecHl", "IncSp", "DecSp", "LdRN",
                        "LdRHl", "LdAHli", "LdAHld", "LdAPp", "CbR", "AluR", "Halt"}
                         \cup WriteHlOps : Total(o, b) = 2
           /\ \A o \in {"LdHlN", "LdhR", "LdhW", "Jr", "LdHlSp", "LdRrNn", "LdSpNn", "Pop",
                        "CbBit", "AluN", "AluHl"} : Total(o, b) = 3
           /\ \A o \in {"Push", "Rst", "AddSp", "Jp", "LdANn", "LdNnA", "Ret", "Reti",
                        "CbRmw", "IncMem"} : Total(o, b) = 4
           /\ Total("LdNnSp", b) = 5 /\ Total("Call", b) = 6
           /\ b => /\ Total("JrCc", b) = 3 /\ Total("JpCc", b) = 4
                   /\ Total("CallCc", b) = 6 /\ Total("RetCc", b) = 5
           /\ ~ b => /\ Total("JrCc", b) = 2 /\ Total("JpCc", b) = 3
                     /\ Total("CallCc", b) = 3 /\ Total("RetCc", b) = 2
<1>1. \A o \in FetchOps : Total(o, b) = 1
  BY DEF Total, TableCycles, ExtraCycleOps, FetchOps
<1>2. \A o \in {"LdSpHl", "AddHl", "IncHl", "DecHl", "IncSp", "DecSp", "LdRN",
                "LdRHl", "LdAHli", "LdAHld", "LdAPp", "CbR", "AluR", "Halt"}
                 \cup WriteHlOps : Total(o, b) = 2
  BY DEF Total, TableCycles, ExtraCycleOps, WriteHlOps
<1>3. \A o \in {"LdHlN", "LdhR", "LdhW", "Jr", "LdHlSp", "LdRrNn", "LdSpNn", "Pop",
                "CbBit", "AluN", "AluHl"} : Total(o, b) = 3
  BY DEF Total, TableCycles, ExtraCycleOps
<1>4. \A o \in {"Push", "Rst", "AddSp", "Jp", "LdANn", "LdNnA", "Ret", "Reti",
                "CbRmw", "IncMem"} : Total(o, b) = 4
  BY DEF Total, TableCycles, ExtraCycleOps
<1>5. Total("LdNnSp", b) = 5 /\ Total("Call", b) = 6
  BY DEF Total, TableCycles, ExtraCycleOps
<1>6. /\ Total("JrCc", b) = IF b THEN 3 ELSE 2
      /\ Total("JpCc", b) = IF b THEN 4 ELSE 3
      /\ Total("CallCc", b) = IF b THEN 6 ELSE 3
      /\ Total("RetCc", b) = IF b THEN 5 ELSE 2
  BY DEF Total, TableCycles, ExtraCycleOps
<1> QED BY <1>1, <1>2, <1>3, <1>4, <1>5, <1>6

(* The fetch and the second opcode byte.                                     *)
LEMMA FetchTime ==
    ASSUME SeqInv, TraceInv, FetchStep \/ PrefixStep, InstructionComplete(micro'.phase)
    PROVE  InTime
<1>1. micro \in MicroState /\ st.cc \in BOOLEAN
  BY DEF SeqInv, CpuTypeOK, TraceInv, ArchState
<1>2. CASE FetchStep
  <2>1. PICK o \in Ops, pending \in Pendings :
           (HandleFetchHaltBug(o) \/ HandleFetch(o, pending)) /\ Record(Reads(0), o)
    BY <1>2 DEF FetchStep
  <2>2. op' = o /\ cycles = 0
    BY <2>1 DEF Record, HandleFetchHaltBug, HandleFetch, TraceInv, AtBoundary, AtFetch,
       InstructionComplete, Made
  <2>3. micro'.phase = PhaseAfterFetch(o)
    BY <1>1, <2>1 DEF HandleFetchHaltBug, HandleFetch, FetchOpcode, Commit, CommitIme, MicroState
  <2>4. o \in FetchOps
    BY <2>3, AfterFetch, PhaseFields DEF InstructionComplete, Ops
  <2>5. Total(o, st.cc) = 1
    BY <1>1, <2>4, TimeTable
  <2> QED BY <2>2, <2>5 DEF InTime
<1>3. CASE PrefixStep
  <2>1. PICK o \in CbOps : HandleFetchPrefix(o) /\ Record(Reads(0), o)
    BY <1>3 DEF PrefixStep
  <2>2. op' = o /\ cycles = 1
    BY <2>1 DEF Record, HandleFetchPrefix, TraceInv, AfterPrefix, Made
  <2>3. o # "CbR" => micro'.phase = ReadMem(arch.hl, "BitOpFromMem")
    BY <1>1, <2>1 DEF HandleFetchPrefix, Commit, CommitIme, MicroState
  <2>4. o = "CbR"
    BY <2>3, PhaseFields DEF InstructionComplete
  <2>5. Total(o, st.cc) = 2
    BY <1>1, <2>4, TimeTable
  <2> QED BY <2>2, <2>5 DEF InTime
<1> QED BY <1>2, <1>3

(* Immediate operands.                                                       *)
LEMMA ImmediateTime ==
    ASSUME SeqInv, TraceInv, Imm8Step \/ Imm16LoStep \/ Imm16HiStep,
           InstructionComplete(micro'.phase)
    PROVE  InTime
<1> DEFINE o == micro.decoded
           k == micro.phase.k
<1>1. micro \in MicroState /\ st.cc \in BOOLEAN
  BY DEF SeqInv, CpuTypeOK, TraceInv, ArchState
<1>2. CASE Imm8Step
  <2>1. PICK d \in Byte : HandleReadImm8(d) /\ Record(Reads(d), o)
    BY <1>2 DEF Imm8Step
  <2>2. /\ op' = o /\ cycles = 1 /\ arch.cc = st.cc
        /\ o \in Imm8Ops /\ k = Imm8Cont[o]
    BY <2>1 DEF Record, HandleReadImm8, TraceInv, InImmediate, Made, Ran, SeqInv,
       SequencerConsistent, LatchMatchesPhase
  <2>3. /\ k = "StoreToHl" => micro'.phase = WriteMem(arch.hl, d, "StoreDone")
        /\ k = "IoOffsetReadA" => micro'.phase = ReadMem(IoAddress(d), "LoadAFromAddr")
        /\ k = "IoOffsetWriteA" => micro'.phase = WriteMem(IoAddress(d), arch.a, "StoreDone")
        /\ k = "RelativeJump" /\ CondMatches(o) => micro'.phase = Execute(o)
        /\ k \in {"AluImm8", "AddSpDisp", "LoadHlSpDisp"} => micro'.phase = Execute(o)
    BY <1>1, <2>1 DEF HandleReadImm8, Commit, CommitIme, MicroState
  <2>4. k = "LoadReg8" \/ (k = "RelativeJump" /\ ~ CondMatches(o))
    BY <2>2, <2>3, PhaseFields, OpClasses DEF InstructionComplete, Imm8Cont
  <2>5. o = "LdRN" \/ (o = "JrCc" /\ ~ st.cc)
    BY <2>2, <2>4, OpClasses DEF Imm8Cont, CondMatches, CondOps
  <2>6. Total(o, st.cc) = 2
    BY <1>1, <2>5, TimeTable
  <2> QED BY <2>2, <2>6 DEF InTime
<1>3. CASE Imm16LoStep
  <2>1. PICK d \in Byte : HandleReadImm16Lo(d)
    BY <1>3 DEF Imm16LoStep
  <2>2. micro'.phase.n = "ReadImm16Hi"
    BY <1>1, <2>1 DEF HandleReadImm16Lo, Commit, CommitIme, MicroState, MkPhase
  <2> QED BY <2>2 DEF InstructionComplete
<1>4. CASE Imm16HiStep
  <2>1. PICK d \in Byte : HandleReadImm16Hi(d) /\ Record(Reads(d), o)
    BY <1>4 DEF Imm16HiStep
  <2> DEFINE w == Pair(d, micro.phase.lo)
             far == [WriteMem(w, Lo(arch.sp), "StoreSpHi") EXCEPT !.lo = Hi(arch.sp), !.aux = Plus(w, 1)]
  <2>2. /\ op' = o /\ cycles = 2 /\ arch.cc = st.cc
        /\ o \in Imm16Ops /\ k = Imm16Cont[o]
    BY <2>1 DEF Record, HandleReadImm16Hi, TraceInv, InImmediate, Made, Ran, SeqInv,
       SequencerConsistent, LatchMatchesPhase
  <2>3. /\ k \in {"JumpAbs", "CallTarget"} /\ CondMatches(o) => micro'.phase = Execute(o)
        /\ k = "ReadAddrToA" => micro'.phase = ReadMem(w, "LoadAFromAddr")
        /\ k = "WriteAToAddr" => micro'.phase = WriteMem(w, arch.a, "StoreDone")
        /\ k = "StoreSpToAddr" => micro'.phase = far
    BY <1>1, <2>1 DEF HandleReadImm16Hi, Commit, CommitIme, MicroState
  <2>4. far.n = "WriteMem"
    BY WritePhaseFields
  <2> HIDE DEF w, far
  <2>5. k = "LoadRegPair" \/ (k \in {"JumpAbs", "CallTarget"} /\ ~ CondMatches(o))
    BY <2>2, <2>3, <2>4, PhaseFields, OpClasses DEF InstructionComplete, Imm16Cont
  <2>6. o \in {"LdRrNn", "LdSpNn"} \/ (o \in {"JpCc", "CallCc"} /\ ~ st.cc)
    BY <2>2, <2>5, OpClasses DEF Imm16Cont, CondMatches, CondOps
  <2>7. Total(o, st.cc) = 3
    BY <1>1, <2>6, TimeTable
  <2> QED BY <2>2, <2>7 DEF InTime
<1> QED BY <1>2, <1>3, <1>4

(* Memory cycles.                                                            *)
LEMMA ReadTime ==
    ASSUME SeqInv, TraceInv, ReadStep, InstructionComplete(micro'.phase)
    PROVE  InTime
<1> DEFINE o == micro.decoded
           k == micro.phase.k
<1>1. PICK v \in Byte : HandleReadMem(v) /\ Record(Reads(v), o)
  BY DEF ReadStep
<1>2. /\ micro \in MicroState /\ st.cc \in BOOLEAN /\ op' = o
      /\ micro.phase.n = "ReadMem" /\ k \in ReadConts
  BY <1>1 DEF SeqInv, CpuTypeOK, TraceInv, ArchState, Record, HandleReadMem,
     SequencerConsistent, LatchMatchesPhase
<1> DEFINE next == [ReadMem(Plus(arch.sp, 1), IF k = "PopLo" THEN "PopHi" ELSE "RetHi") EXCEPT !.lo = v]
<1>3. /\ k = "LoadReg8" => o \in {"LdRHl", "LdAHli", "LdAHld"}
      /\ k = "LoadAFromAddr" => o \in {"LdAPp", "LdhR", "LdANn"}
      /\ k = "BitOpFromMem" => o \in {"CbBit", "CbRmw"}
      /\ k \in {"PopLo", "PopHi"} => o = "Pop"
      /\ k \in {"RetLo", "RetHi"} => o \in {"Ret", "Reti", "RetCc"}
  BY <1>2 DEF SeqInv, SequencerConsistent, LatchMatchesPhase, Continues
<1>4. /\ k \in {"PopLo", "RetLo"} => micro'.phase = next
      /\ k = "AluFromMem" => micro'.phase = Execute(o)
      /\ k = "RetHi" => micro'.phase = Execute(o)
      /\ k = "BitOpFromMem" /\ o # "CbBit" => \E d : micro'.phase = WriteMem(micro.phase.addr, d, "StoreDone")
  <2>1. CASE k \in {"PopLo", "RetLo"}
    BY <1>1, <1>2, <2>1 DEF HandleReadMem, Commit, CommitIme, MicroState
  <2>2. CASE k = "AluFromMem"
    BY <1>1, <1>2, <2>2 DEF HandleReadMem, Commit, CommitIme, MicroState
  <2>3. CASE k = "RetHi"
    BY <1>1, <1>2, <1>3, <2>3 DEF HandleReadMem, Commit, CommitIme, MicroState
  <2>4. CASE k = "BitOpFromMem" /\ o # "CbBit"
    BY <1>1, <1>2, <2>4 DEF HandleReadMem, Commit, CommitIme, MicroState
  <2> QED BY <2>1, <2>2, <2>3, <2>4
<1>5. next.n = "ReadMem"
  BY PhaseFields
<1> HIDE DEF next
<1>6. \/ k = "LoadReg8" /\ o \in {"LdRHl", "LdAHli", "LdAHld"}
      \/ k = "LoadAFromAddr" /\ o \in {"LdAPp", "LdhR", "LdANn"}
      \/ k = "BitOpFromMem" /\ o = "CbBit"
      \/ k = "PopHi" /\ o = "Pop"
  BY <1>2, <1>3, <1>4, <1>5, PhaseFields DEF InstructionComplete, ReadConts
<1>7. CASE o \in {"LdRHl", "LdAHli", "LdAHld", "LdAPp"}
  <2>1. cycles = 1
    BY <1>2, <1>6, <1>7 DEF TraceInv, InRead, Made
  <2>2. Total(o, st.cc) = 2
    BY <1>2, <1>7, TimeTable
  <2> QED BY <1>2, <2>1, <2>2 DEF InTime
<1>8. CASE o \in {"LdhR", "CbBit", "Pop"}
  <2>1. cycles = 2
    BY <1>2, <1>6, <1>8 DEF TraceInv, InRead, Made
  <2>2. Total(o, st.cc) = 3
    BY <1>2, <1>8, TimeTable
  <2> QED BY <1>2, <2>1, <2>2 DEF InTime
<1>9. CASE o = "LdANn"
  <2>1. cycles = 3
    BY <1>2, <1>9 DEF TraceInv, InRead, Made
  <2>2. Total(o, st.cc) = 4
    BY <1>2, <1>9, TimeTable
  <2> QED BY <1>2, <2>1, <2>2 DEF InTime
<1> QED BY <1>6, <1>7, <1>8, <1>9

(* handle_write_mem: instructions that end with a write.                     *)
LEMMA WriteTime ==
    ASSUME SeqInv, TraceInv, WriteStep, InstructionComplete(micro'.phase)
    PROVE  InTime
<1> DEFINE o == micro.decoded
           k == micro.phase.k
<1>1. HandleWriteMem /\ Record(Writes, o)
  BY DEF WriteStep
<1>2. /\ micro \in MicroState /\ st.cc \in BOOLEAN /\ op' = o
      /\ micro.phase.n = "WriteMem" /\ k \in WriteConts
  BY <1>1 DEF SeqInv, CpuTypeOK, TraceInv, ArchState, Record, HandleWriteMem,
     SequencerConsistent, LatchMatchesPhase
<1> DEFINE Then(ad, d) == WriteMem(ad, d, "StoreDone")
<1>3. /\ k = "StoreSpHi" => micro'.phase = Then(micro.phase.aux, micro.phase.lo)
      /\ k = "PushHi" => micro'.phase = Then(Minus(micro.phase.addr, 1), Lo(micro.phase.aux))
      /\ k = "PushLo" => micro'.phase = Then(micro.phase.aux, micro.phase.lo)
  <2>1. CASE k = "StoreSpHi"
    BY <1>1, <1>2, <2>1 DEF HandleWriteMem, Commit, CommitIme, MicroState
  <2>2. CASE k = "PushHi"
    BY <1>1, <1>2, <2>2 DEF HandleWriteMem, Commit, CommitIme, MicroState
  <2>3. CASE k = "PushLo"
    BY <1>1, <1>2, <2>3 DEF HandleWriteMem, Commit, CommitIme, MicroState
  <2> QED BY <2>1, <2>2, <2>3
<1>4. k = "StoreDone"
  BY <1>2, <1>3, PhaseFields DEF InstructionComplete, WriteConts
<1>5. o \in WriteHlOps \cup {"LdHlN", "LdhW", "LdNnA", "LdNnSp", "IncMem", "CbRmw",
                             "Push", "Call", "CallCc", "Rst"}
  BY <1>2, <1>4 DEF SeqInv, SequencerConsistent, LatchMatchesPhase, Continues
<1>6. CASE o \in WriteHlOps
  <2>1. cycles = 1
    BY <1>2, <1>4, <1>6 DEF TraceInv, InStore, Made
  <2>2. Total(o, st.cc) = 2
    BY <1>2, <1>6, TimeTable
  <2> QED BY <1>2, <2>1, <2>2 DEF InTime
<1>7. CASE o \in {"LdHlN", "LdhW"}
  <2>1. cycles = 2
    BY <1>2, <1>4, <1>7 DEF TraceInv, InStore, Made
  <2>2. Total(o, st.cc) = 3
    BY <1>2, <1>7, TimeTable
  <2> QED BY <1>2, <2>1, <2>2 DEF InTime
<1>8. CASE o \in {"LdNnA", "IncMem", "CbRmw", "Push", "Rst"}
  <2>1. cycles = 3
    <3>1. CASE o \in {"LdNnA", "Push"}
      BY <1>2, <1>4, <3>1 DEF TraceInv, InStore, Made
    <3>2. CASE o \in {"IncMem", "CbRmw"}
      BY <1>2, <1>4, <3>2 DEF TraceInv, InStore, Modified, Made
    <3>3. CASE o = "Rst"
      BY <1>2, <1>4, <3>3 DEF TraceInv, InRst, Made
    <3> QED BY <1>8, <3>1, <3>2, <3>3
  <2>2. Total(o, st.cc) = 4
    BY <1>2, <1>8, TimeTable
  <2> QED BY <1>2, <2>1, <2>2 DEF InTime
<1>9. CASE o = "LdNnSp"
  <2>1. cycles = 4
    BY <1>2, <1>4, <1>9 DEF TraceInv, InStore, Made
  <2>2. Total(o, st.cc) = 5
    BY <1>2, <1>9, TimeTable
  <2> QED BY <1>2, <2>1, <2>2 DEF InTime
<1>10. CASE o \in {"Call", "CallCc"}
  <2>1. cycles = 5 /\ (o = "CallCc" => st.cc)
    BY <1>2, <1>4, <1>10 DEF TraceInv, InCall, Made
  <2>2. Total(o, st.cc) = 6
    BY <1>2, <1>10, <2>1, TimeTable
  <2> QED BY <1>2, <2>1, <2>2 DEF InTime
<1> QED BY <1>5, <1>6, <1>7, <1>8, <1>9, <1>10

(* Internal cycles.                                                          *)
LEMMA InternalTime ==
    ASSUME SeqInv, TraceInv, InternalStep \/ HaltStep, InstructionComplete(micro'.phase)
    PROVE  InTime
<1> DEFINE o == micro.decoded
<1>1. micro \in MicroState /\ st.cc \in BOOLEAN
  BY DEF SeqInv, CpuTypeOK, TraceInv, ArchState
<1>2. \A S : Executing(S) => micro.phase.n = "Execute" /\ o \in S /\ micro.phase.k = o
  BY DEF Executing, SeqInv, SequencerConsistent, LatchMatchesPhase
<1>3. CASE HaltStep
  <2>1. op' = "Halt" /\ Executing({"Halt"})
    BY <1>3 DEF HaltStep, Record, ExecuteHalt
  <2>2. o = "Halt" /\ micro.phase.n = "Execute"
    BY <1>2, <2>1
  <2>3. cycles = 1
    BY <2>2 DEF TraceInv, InExecute, ExecOps, Made
  <2>4. Total("Halt", st.cc) = 2
    BY <1>1, TimeTable
  <2> QED BY <2>1, <2>3, <2>4 DEF InTime
<1>4. CASE InternalStep
  <2>1. ExecuteInternal /\ op' = o /\ InExecute
    BY <1>4 DEF InternalStep, Record, TraceInv
  <2>3. CASE ExecuteAlu
    <3>1. micro.phase.n = "Execute" /\ o \in {"AluR", "AluN", "AluHl"}
      BY <1>2, <2>3 DEF ExecuteAlu
    <3>2. /\ o = "AluR" => cycles = 1
          /\ o \in {"AluN", "AluHl"} => cycles = 2
      BY <2>1, <3>1 DEF InExecute, ExecOps, Made
    <3>3. /\ o = "AluR" => Total(o, st.cc) = 2
          /\ o \in {"AluN", "AluHl"} => Total(o, st.cc) = 3
      BY <1>1, TimeTable
    <3> QED BY <2>1, <3>1, <3>2, <3>3 DEF InTime
  <2>4. CASE ExecuteIncMem
    <3>1. \E d : micro'.phase = WriteMem(arch.hl, d, "StoreDone")
      BY <1>1, <2>4 DEF ExecuteIncMem, Commit, CommitIme, MicroState
    <3> QED BY <3>1, PhaseFields DEF InstructionComplete
  <2>5. CASE ExecuteWordAlu
    <3>1. /\ micro.phase.n = "Execute"
          /\ o \in {"AddHl", "IncHl", "DecHl", "IncSp", "DecSp", "AddSp", "LdHlSp"}
      BY <1>2, <2>5 DEF ExecuteWordAlu
    <3>2. CASE o = "AddSp" /\ micro.imm_hi = 0
      <4>1. micro'.phase = Execute(o)
        BY <1>1, <2>5, <3>1, <3>2 DEF ExecuteWordAlu, Executing, Commit, CommitIme, MicroState,
           SeqInv, SequencerConsistent, LatchMatchesPhase
      <4> QED BY <4>1, PhaseFields DEF InstructionComplete
    <3>3. CASE o = "AddSp" /\ micro.imm_hi # 0
      <4>1. cycles = 3
        BY <2>1, <3>1, <3>3 DEF InExecute, Made
      <4>2. Total(o, st.cc) = 4
        BY <1>1, <3>3, TimeTable
      <4> QED BY <2>1, <4>1, <4>2 DEF InTime
    <3>4. CASE o = "LdHlSp"
      <4>1. cycles = 2
        BY <2>1, <3>1, <3>4 DEF InExecute, Made
      <4>2. Total(o, st.cc) = 3
        BY <1>1, <3>4, TimeTable
      <4> QED BY <2>1, <4>1, <4>2 DEF InTime
    <3>5. CASE o \in {"AddHl", "IncHl", "DecHl", "IncSp", "DecSp"}
      <4>1. cycles = 1
        BY <2>1, <3>1, <3>5 DEF InExecute, ExecOps, Made
      <4>2. Total(o, st.cc) = 2
        BY <1>1, <3>5, TimeTable
      <4> QED BY <2>1, <4>1, <4>2 DEF InTime
    <3> QED BY <3>1, <3>2, <3>3, <3>4, <3>5
  <2>6. CASE ExecuteJump
    <3>1. /\ micro.phase.n = "Execute"
          /\ o \in {"Jp", "JpCc", "Jr", "JrCc", "Call", "CallCc", "Rst"} /\ micro.phase.k = o
      BY <1>2, <2>6 DEF ExecuteJump
    <3>2. /\ o \in {"Jp", "JpCc", "Call", "CallCc"} => cycles = 3
          /\ o \in {"Jr", "JrCc"} => cycles = 2
          /\ o \in CondOps => st.cc /\ arch.cc = st.cc
      BY <2>1, <3>1 DEF InExecute, CondOps, Made, Ran
    <3>3. CASE o \in {"Jp", "JpCc", "Jr", "JrCc"}
      <4>1. /\ o \in {"Jp", "JpCc"} => Total(o, st.cc) = 4
            /\ o \in {"Jr", "JrCc"} => Total(o, st.cc) = 3
        BY <1>1, <3>2, TimeTable DEF CondOps
      <4> QED BY <2>1, <3>2, <3>3, <4>1 DEF InTime
    <3>4. CASE o \in {"Call", "CallCc", "Rst"}
      <4> DEFINE ph == [WriteMem(Minus(arch.sp, 1), Hi(arch.pc), "PushHi") EXCEPT !.aux = arch.pc]
      <4>1. CondMatches(o)
        BY <3>2 DEF CondMatches
      <4>2. \E t : Commit(arch, PushReturn(t))
        BY <2>6, <3>1, <3>4, <4>1 DEF ExecuteJump, Executing
      <4>3. micro'.phase = ph
        BY <1>1, <4>2 DEF PushReturn, Commit, CommitIme, MicroState
      <4>4. ph.n = "WriteMem"
        BY PhaseFields
      <4> QED BY <4>3, <4>4 DEF InstructionComplete
    <3> QED BY <3>1, <3>3, <3>4
  <2>7. CASE ExecuteReturn
    <3>1. micro.phase.n = "Execute" /\ o \in {"RetCc", "Ret", "Reti"} /\ micro.phase.k = o
      BY <1>2, <2>7 DEF ExecuteReturn
    <3>2. CASE o \in {"Ret", "Reti"}
      <4>1. cycles = 3
        BY <2>1, <3>1, <3>2 DEF InExecute, Popped, Made
      <4>2. Total(o, st.cc) = 4
        BY <1>1, <3>2, TimeTable
      <4> QED BY <2>1, <4>1, <4>2 DEF InTime
    <3>3. CASE o = "RetCc" /\ micro.imm_hi # 1
      <4>1. cycles = 4 /\ st.cc
        BY <2>1, <3>1, <3>3 DEF InExecute, Popped, Made
      <4>2. Total(o, st.cc) = 5
        <5>1. Total("RetCc", st.cc) = 5
          BY <1>1, <4>1, TimeTable
        <5> QED BY <3>3, <5>1
      <4>3. cycles = 4
        BY <4>1
      <4> QED BY <2>1, <4>2, <4>3 DEF InTime
    <3>4. CASE o = "RetCc" /\ micro.imm_hi = 1
      <4>1. cycles = 1 /\ arch.cc = st.cc
        BY <2>1, <3>1, <3>4 DEF InExecute, Made, Ran
      <4>2. CASE CondMatches("RetCc")
        <5>1. Commit(arch, [micro EXCEPT !.phase = ReadMem(arch.sp, "RetLo"), !.imm_hi = 0])
          BY <2>7, <3>1, <3>4, <4>2 DEF ExecuteReturn, Executing
        <5>2. micro'.phase = ReadMem(arch.sp, "RetLo")
          BY <1>1, <5>1 DEF Commit, CommitIme, MicroState
        <5> QED BY <5>2, PhaseFields DEF InstructionComplete
      <4>3. CASE ~ CondMatches("RetCc")
        <5>1. ~ st.cc
          BY <4>1, <4>3 DEF CondMatches
        <5>2. Total(o, st.cc) = 2
          BY <1>1, <3>4, <5>1, TimeTable
        <5> QED BY <2>1, <4>1, <5>2 DEF InTime
      <4> QED BY <4>2, <4>3
    <3> QED BY <3>1, <3>2, <3>3, <3>4
  <2>8. CASE ExecuteStackAndLoad
    <3>1. micro.phase.n = "Execute" /\ o \in {"Push", "LdSpHl"} /\ micro.phase.k = o
      BY <1>2, <2>8 DEF ExecuteStackAndLoad
    <3>2. CASE o = "Push"
      <4> DEFINE ph == [WriteMem(Minus(arch.sp, 1), Hi(arch.hl), "PushLo")
                          EXCEPT !.lo = Lo(arch.hl), !.aux = Minus(arch.sp, 2)]
      <4>1. Commit(arch, [micro EXCEPT !.phase = ph, !.temp = arch.hl])
        BY <2>8, <3>1, <3>2 DEF ExecuteStackAndLoad, Executing
      <4>2. ph.n = "WriteMem"
        BY PhaseFields
      <4> HIDE DEF ph
      <4>3. micro'.phase = ph
        BY <1>1, <4>1 DEF Commit, CommitIme, MicroState
      <4> QED BY <4>2, <4>3 DEF InstructionComplete
    <3>3. CASE o = "LdSpHl"
      <4>1. cycles = 1
        BY <2>1, <3>1, <3>3 DEF InExecute, Made
      <4>2. Total(o, st.cc) = 2
        BY <1>1, <3>3, TimeTable
      <4> QED BY <2>1, <4>1, <4>2 DEF InTime
    <3> QED BY <3>1, <3>2, <3>3
  <2> QED BY <2>1, <2>3, <2>4, <2>5, <2>6, <2>7, <2>8 DEF ExecuteInternal
<1> QED BY <1>3, <1>4

(* The events are not instructions.                                          *)
LEMMA EventNames ==
    /\ "Wake" \notin AllOps /\ "Reset" \notin AllOps /\ "-" \notin AllOps
    /\ \A i \in Irq : Machine!IrqName[i + 1] \notin AllOps
<1>1. AllOps = FetchOps \cup ExecOps \cup Imm8Ops \cup Imm16Ops \cup ReadHlOps
                 \cup WriteHlOps \cup PopOps \cup {"Cb"} \cup CbOps
  BY DEF AllOps, Ops
<1>2. \A i \in Irq : Machine!IrqName[i + 1] \in {"VBlank", "LcdStat", "Timer", "Serial", "Joypad"}
  BY DEF Irq, Machine!IrqName
<1>3. \A x \in {"Wake", "Reset", "-", "VBlank", "LcdStat", "Timer", "Serial", "Joypad"} :
         x \notin AllOps
  BY <1>1, OpClasses DEF FetchOps, ExecOps, WriteHlOps, CbOps
<1> QED BY <1>2, <1>3

(* A step that retires an instruction retires it in time.                    *)
LEMMA TimedStep ==
    ASSUME SeqInv, TraceInv, Next, NEW o \in AllOps, Retires(o)
    PROVE  cycles + 1 = Total(o, st.cc)
<1>1. retired \in Nat /\ retired' = retired + 1 /\ op' = o /\ ~ (retired' = retired) /\ retired' # 0
  BY DEF TraceInv, Retires
<1>2. \A tr, x : Record(tr, x) => InstructionComplete(micro'.phase)
  BY <1>1 DEF Record
<1>3. CASE FetchStep \/ PrefixStep
  <2>1. InstructionComplete(micro'.phase)
    BY <1>2, <1>3 DEF FetchStep, PrefixStep
  <2> QED BY <1>1, <1>3, <2>1, FetchTime DEF InTime
<1>4. CASE Imm8Step \/ Imm16LoStep \/ Imm16HiStep
  <2>1. InstructionComplete(micro'.phase)
    BY <1>2, <1>4 DEF Imm8Step, Imm16LoStep, Imm16HiStep
  <2> QED BY <1>1, <1>4, <2>1, ImmediateTime DEF InTime
<1>5. CASE ReadStep
  <2>1. InstructionComplete(micro'.phase)
    BY <1>2, <1>5 DEF ReadStep
  <2> QED BY <1>1, <1>5, <2>1, ReadTime DEF InTime
<1>6. CASE WriteStep
  <2>1. InstructionComplete(micro'.phase)
    BY <1>2, <1>6 DEF WriteStep
  <2> QED BY <1>1, <1>6, <2>1, WriteTime DEF InTime
<1>7. CASE InternalStep \/ HaltStep
  <2>1. InstructionComplete(micro'.phase)
    BY <1>2, <1>7 DEF InternalStep, HaltStep
  <2> QED BY <1>1, <1>7, <2>1, InternalTime DEF InTime
<1>8. ~ EntryStep
  <2> SUFFICES ASSUME EntryStep PROVE FALSE
    OBVIOUS
  <2>1. op' = "-"
    BY <1>1 DEF EntryStep, Record
  <2> QED BY <1>1, <2>1, EventNames
<1>9. ~ ServiceStep
  <2> SUFFICES ASSUME ServiceStep PROVE FALSE
    OBVIOUS
  <2>1. op' = Machine!IrqName[micro.phase.aux + 1]
    BY <1>1 DEF ServiceStep, Record
  <2>2. micro.phase.aux \in Irq
    BY DEF ServiceStep, HandleServiceInterrupt, SeqInv, SequencerConsistent, LatchMatchesPhase
  <2> QED BY <1>1, <2>1, <2>2, EventNames
<1>10. ~ HaltedStep
  <2> SUFFICES ASSUME HaltedStep PROVE FALSE
    OBVIOUS
  <2>1. op' = "Wake"
    BY <1>1 DEF HaltedStep, Record
  <2> QED BY <1>1, <2>1, EventNames
<1>11. ~ ResetStep
  BY <1>1 DEF ResetStep
<1> QED BY <1>3, <1>4, <1>5, <1>6, <1>7, <1>8, <1>9, <1>10, <1>11 DEF Next, Step

(* Every instruction takes the number of M-cycles the opcode table gives it, *)
(* whether its condition held or not, and one more where the 8-bit result    *)
(* has an Execute cycle of its own (execute_alu) and for HALT.               *)
THEOREM Timing == Spec => InstructionTiming
<1> DEFINE Timed == \A o \in AllOps \ {"Cb"} : Retires(o) =>
              cycles + 1 = TableCycles(o, st.cc) + (IF o \in ExtraCycleOps THEN 1 ELSE 0)
<1>1. SeqInv /\ TraceInv /\ [Next]_traceVars => [Timed]_traceVars
  BY TimedStep DEF Total
<1>2. Init => SeqInv /\ TraceInv
  BY StartTrace
<1> QED
  BY <1>1, <1>2, RefinedStep, PTL DEF Spec, InstructionTiming

(* No instruction is away from the interrupts for more than five cycles      *)
(* after its fetch.                                                          *)
LEMMA BusyCycles ==
    SeqInv /\ TraceInv /\ micro.phase.n \notin {"Fetch", "Halted", "ServiceInterrupt"}
        => cycles \in 1 .. 5
<1> SUFFICES ASSUME SeqInv, TraceInv, micro.phase.n \notin {"Fetch", "Halted", "ServiceInterrupt"}
             PROVE  cycles \in 1 .. 5
  OBVIOUS
<1> DEFINE o == micro.decoded
           k == micro.phase.k
<1>1. micro.phase.n \in PhaseName /\ LatchMatchesPhase
  BY DEF SeqInv, CpuTypeOK, MicroState, Phase, SequencerConsistent
<1>2. CASE micro.phase.n \in {"FetchPrefix", "ReadImm8", "ReadImm16Lo", "ReadImm16Hi"}
  BY <1>2 DEF TraceInv, AfterPrefix, InImmediate, Made
<1>3. CASE micro.phase.n = "ReadMem"
  <2>1. /\ k \in ReadConts
        /\ k = "LoadAFromAddr" => o \in {"LdAPp", "LdhR", "LdANn"}
    BY <1>1, <1>3 DEF LatchMatchesPhase, Continues
  <2>2. CASE k \in {"LoadReg8", "AluFromMem", "BitOpFromMem", "LoadAFromAddr"}
    BY <1>3, <2>1, <2>2 DEF TraceInv, InRead, Made
  <2>3. CASE k \in {"PopLo", "RetLo", "PopHi", "RetHi"}
    BY <1>3, <2>3 DEF TraceInv, InRead
  <2> QED BY <2>1, <2>2, <2>3 DEF ReadConts
<1>4. CASE micro.phase.n = "WriteMem"
  <2>1. /\ k \in WriteConts
        /\ k = "StoreDone" => o \in WriteHlOps \cup {"LdHlN", "LdhW", "LdNnA", "LdNnSp", "IncMem",
                                                     "CbRmw", "Push", "Call", "CallCc", "Rst"}
        /\ k = "PushHi" => o \in {"Call", "CallCc", "Rst"}
    BY <1>1, <1>4 DEF LatchMatchesPhase, Continues
  <2>2. CASE k = "StoreSpHi"
    BY <1>4, <2>2 DEF TraceInv, InStoreSp, Made
  <2>3. CASE k = "PushLo"
    BY <1>4, <2>3 DEF TraceInv, InPush, Made
  <2>4. CASE k = "StoreDone" /\ o \in WriteHlOps \cup {"LdHlN", "LdhW", "LdNnA", "LdNnSp", "Push"}
    BY <1>4, <2>4 DEF TraceInv, InStore, Made
  <2>5. CASE k = "StoreDone" /\ o \in {"IncMem", "CbRmw"}
    BY <1>4, <2>5 DEF TraceInv, InStore, Modified, Made
  <2>6. CASE k \in {"StoreDone", "PushHi"} /\ o = "Rst"
    BY <1>4, <2>6 DEF TraceInv, InRst, Made
  <2>7. CASE k \in {"StoreDone", "PushHi"} /\ o \in {"Call", "CallCc"}
    BY <1>4, <2>7 DEF TraceInv, InCall, Made
  <2> QED BY <2>1, <2>2, <2>3, <2>4, <2>5, <2>6, <2>7 DEF WriteConts
<1>5. CASE micro.phase.n = "Execute"
  <2>1. /\ InExecute
        /\ o \in ExecOps \cup {"AluN", "Jr", "JrCc", "AddSp", "LdHlSp", "Jp", "JpCc", "Call",
                               "CallCc", "AluHl", "IncMem", "Ret", "Reti"}
        /\ CycleLatchValid
    BY <1>5 DEF TraceInv, SeqInv, SequencerConsistent, LatchMatchesPhase
  <2>2. CASE o \in ExecOps \ {"RetCc"}
    BY <1>5, <2>1, <2>2 DEF InExecute, ExecOps, Made
  <2>3. CASE o \in {"RetCc", "Ret", "Reti"}
    BY <1>5, <2>1, <2>3 DEF InExecute, Made, Popped
  <2>4. CASE o \in {"AluN", "Jr", "JrCc", "AddSp", "LdHlSp", "AluHl", "IncMem"}
    BY <1>5, <2>1, <2>4 DEF InExecute, Made
  <2>5. CASE o \in {"Jp", "JpCc", "Call", "CallCc"}
    BY <1>5, <2>1, <2>5 DEF InExecute, Made
  <2> QED BY <2>1, <2>2, <2>3, <2>4, <2>5
<1> QED BY <1>1, <1>2, <1>3, <1>4, <1>5 DEF PhaseName

(* The same after a step.                                                    *)
LEMMA BusyCyclesThen ==
    (SeqInv /\ TraceInv /\ micro.phase.n \notin {"Fetch", "Halted", "ServiceInterrupt"}
        => cycles \in 1 .. 5)'
BY BusyCycles, PTL

(* A cycle in the middle of an instruction as the interrupt logic sees it:   *)
(* the halt state and the class stay, and IME changes only at the end.       *)
Quiet ==
    /\ IrqClass(micro'.decoded) = IrqClass(micro.decoded) /\ arch'.halt = arch.halt
    /\ micro'.phase.n \notin {"Halted", "ServiceInterrupt"}
    /\ micro'.phase.n = "Execute" => micro'.phase.k # "Halt"
    /\ micro'.phase.n # "Fetch" => arch'.ime = arch.ime
    /\ micro'.phase.n = "Fetch" =>
          arch'.ime = IF micro.decoded = "Reti" THEN "Enabled"
                      ELSE IF arch.ime = "PendingEnable" THEN "Enabled" ELSE arch.ime

(* A commit in the middle of an instruction is quiet.                        *)
LEMMA QuietCommit ==
    ASSUME NEW ar \in ArchState, NEW mi, Commit(ar, mi), ar.halt = arch.halt,
           mi.phase.n \in {"Fetch", "ReadMem", "WriteMem", "ReadImm16Hi"}
              \/ (mi.phase.n = "Execute" /\ mi.phase.k # "Halt"),
           IrqClass(mi.decoded) = IrqClass(micro.decoded),
           mi.phase.n = "Fetch" => micro.decoded # "Reti"
    PROVE  Quiet
<1>1. micro' = mi /\ arch' = [ar EXCEPT !.ime = ResolvedIme(mi)]
  BY DEF Commit, CommitIme
<1>2. arch'.ime = ResolvedIme(mi) /\ arch'.halt = ar.halt
  BY <1>1 DEF ArchState
<1>3. ResolvedIme(mi) = IF mi.phase.n = "Fetch" /\ arch.ime = "PendingEnable"
                        THEN "Enabled" ELSE arch.ime
  BY DEF ResolvedIme, InstructionComplete
<1> QED BY <1>1, <1>2, <1>3 DEF Quiet

(* Operand cycles are quiet.                                                 *)
LEMMA OperandQuiet ==
    ASSUME SeqInv, PrefixStep \/ Imm8Step \/ Imm16LoStep \/ Imm16HiStep,
           TraceInv
    PROVE  Quiet
<1> DEFINE o == micro.decoded
           k == micro.phase.k
           pc == Plus(arch.pc, 1)
<1>1. /\ arch \in ArchState /\ micro \in MicroState /\ LatchMatchesPhase /\ arch.pc \in Nat
      /\ pc \in Word
  BY PlusWord, WordNat DEF SeqInv, CpuTypeOK, SequencerConsistent, ArchState
<1>2. CASE PrefixStep
  <2>1. PICK c \in CbOps : HandleFetchPrefix(c)
    BY <1>2 DEF PrefixStep
  <2>2. o = "Cb"
    BY <2>1 DEF HandleFetchPrefix, TraceInv, AfterPrefix
  <2>3. IrqClass(c) = IrqClass(o) /\ o # "Reti"
    BY <2>2 DEF CbOps, IrqClass
  <2>4. CASE c = "CbR"
    <3> DEFINE v == AluVal(arch.a, arch.a)
               f == AluFlag(arch.a, arch.a)
               ar == [[arch EXCEPT !.pc = pc] EXCEPT !.a = v, !.cc = f]
               mi == [micro EXCEPT !.phase = Fetch, !.decoded = c, !.temp = v]
    <3>1. Commit(ar, mi)
      BY <2>1, <2>4 DEF HandleFetchPrefix
    <3>2. v \in Byte /\ f \in BOOLEAN
      BY <1>1, AluAssumption DEF ArchState
    <3>3. ar \in ArchState /\ ar.halt = arch.halt
      <4> HIDE DEF v, f, pc
      <4> QED BY <1>1, <3>2 DEF ArchState
    <3>4. mi.phase.n = "Fetch" /\ mi.decoded = c
      BY <1>1, PhaseFields DEF MicroState
    <3> HIDE DEF ar, mi
    <3> QED BY <2>3, <3>1, <3>3, <3>4, QuietCommit
  <2>5. CASE c # "CbR"
    <3> DEFINE ar == [arch EXCEPT !.pc = pc]
               mi == [micro EXCEPT !.phase = ReadMem(arch.hl, "BitOpFromMem"), !.decoded = c]
    <3>1. Commit(ar, mi)
      BY <2>1, <2>5 DEF HandleFetchPrefix
    <3>3. ar \in ArchState /\ ar.halt = arch.halt
      <4> HIDE DEF pc
      <4> QED BY <1>1 DEF ArchState
    <3>4. mi.phase.n = "ReadMem" /\ mi.decoded = c
      BY <1>1, PhaseFields DEF MicroState
    <3> HIDE DEF ar, mi
    <3> QED BY <2>3, <3>1, <3>3, <3>4, QuietCommit
  <2> QED BY <2>4, <2>5
<1>3. CASE Imm8Step
  <2>1. PICK d \in Byte : HandleReadImm8(d)
    BY <1>3 DEF Imm8Step
  <2>2. o \in Imm8Ops /\ k = Imm8Cont[o] /\ micro.phase.n = "ReadImm8"
    BY <1>1, <2>1 DEF HandleReadImm8, LatchMatchesPhase
  <2>3. o \notin {"Reti", "Halt"}
    BY <2>2, OpClasses
  <2> DEFINE ar == [arch EXCEPT !.pc = pc, !.a = IF k = "LoadReg8" THEN d ELSE @]
             next ==
                CASE k = "LoadReg8" -> Fetch
                  [] k = "StoreToHl" -> WriteMem(arch.hl, d, "StoreDone")
                  [] k = "IoOffsetReadA" -> ReadMem(IoAddress(d), "LoadAFromAddr")
                  [] k = "IoOffsetWriteA" -> WriteMem(IoAddress(d), arch.a, "StoreDone")
                  [] k = "RelativeJump" -> IF CondMatches(o) THEN Execute(o) ELSE Fetch
                  [] k \in {"AluImm8", "AddSpDisp", "LoadHlSpDisp"} -> Execute(o)
             h == IF k \in {"AddSpDisp", "RelativeJump"} THEN 0 ELSE micro.imm_hi
             mi == [micro EXCEPT !.phase = next, !.imm_lo = d, !.imm_hi = h]
  <2>4. Commit(ar, mi)
    BY <2>1 DEF HandleReadImm8
  <2>5. ar \in ArchState /\ ar.halt = arch.halt
    <3> HIDE DEF pc
    <3> QED BY <1>1 DEF ArchState
  <2>6. \/ next.n \in {"Fetch", "ReadMem", "WriteMem"}
        \/ next.n = "Execute" /\ next.k # "Halt"
    <3>1. k \in {"LoadReg8", "StoreToHl", "IoOffsetReadA", "IoOffsetWriteA", "RelativeJump",
                 "AluImm8", "AddSpDisp", "LoadHlSpDisp"}
      BY <2>2, OpClasses DEF Imm8Cont
    <3> QED BY <2>3, <3>1, PhaseFields
  <2> HIDE DEF next, h
  <2>7. mi.phase = next /\ mi.decoded = o
    BY <1>1 DEF MicroState
  <2> HIDE DEF ar, mi
  <2> QED BY <2>3, <2>4, <2>5, <2>6, <2>7, QuietCommit
<1>4. CASE Imm16LoStep
  <2>1. PICK d \in Byte : HandleReadImm16Lo(d)
    BY <1>4 DEF Imm16LoStep
  <2> DEFINE ar == [arch EXCEPT !.pc = pc]
             ph == [MkPhase("ReadImm16Hi", k) EXCEPT !.lo = d]
             mi == [micro EXCEPT !.phase = ph, !.imm_lo = d]
  <2>2. Commit(ar, mi)
    BY <2>1 DEF HandleReadImm16Lo
  <2>3. ar \in ArchState /\ ar.halt = arch.halt
    <3> HIDE DEF pc
    <3> QED BY <1>1 DEF ArchState
  <2>4. ph.n = "ReadImm16Hi"
    BY DEF MkPhase
  <2> HIDE DEF ph
  <2>5. mi.phase = ph /\ mi.decoded = o
    BY <1>1 DEF MicroState
  <2> HIDE DEF ar, mi
  <2> QED BY <2>2, <2>3, <2>4, <2>5, QuietCommit
<1>5. CASE Imm16HiStep
  <2>1. PICK d \in Byte : HandleReadImm16Hi(d)
    BY <1>5 DEF Imm16HiStep
  <2>2. o \in Imm16Ops /\ k = Imm16Cont[o] /\ micro.phase.n = "ReadImm16Hi"
    BY <1>1, <2>1 DEF HandleReadImm16Hi, LatchMatchesPhase
  <2>3. o \notin {"Reti", "Halt"}
    BY <2>2, OpClasses
  <2> DEFINE w == Pair(d, micro.phase.lo)
             ar == [arch EXCEPT !.pc = pc, !.sp = IF o = "LdSpNn" THEN w ELSE @,
                                !.hl = IF o = "LdRrNn" THEN w ELSE @]
             next ==
                CASE k = "LoadRegPair" -> Fetch
                  [] k \in {"JumpAbs", "CallTarget"} -> IF CondMatches(o) THEN Execute(o) ELSE Fetch
                  [] k = "ReadAddrToA" -> ReadMem(w, "LoadAFromAddr")
                  [] k = "WriteAToAddr" -> WriteMem(w, arch.a, "StoreDone")
                  [] k = "StoreSpToAddr" ->
                       [WriteMem(w, Lo(arch.sp), "StoreSpHi")
                          EXCEPT !.lo = Hi(arch.sp), !.aux = Plus(w, 1)]
             t == IF k = "LoadRegPair" THEN micro.temp ELSE w
             mi == [micro EXCEPT !.phase = next, !.imm_lo = micro.phase.lo, !.imm_hi = d, !.temp = t]
  <2>4. Commit(ar, mi)
    BY <2>1 DEF HandleReadImm16Hi
  <2>5. ar \in ArchState /\ ar.halt = arch.halt
    <3>1. w \in Word
      BY <1>1, PairWord DEF MicroState, Phase
    <3> HIDE DEF pc, w
    <3> QED BY <1>1, <3>1 DEF ArchState
  <2>6. \/ next.n \in {"Fetch", "ReadMem", "WriteMem"}
        \/ next.n = "Execute" /\ next.k # "Halt"
    <3>1. k \in {"LoadRegPair", "JumpAbs", "CallTarget", "ReadAddrToA", "WriteAToAddr",
                 "StoreSpToAddr"}
      BY <2>2, OpClasses DEF Imm16Cont
    <3> HIDE DEF w
    <3> QED BY <2>3, <3>1, PhaseFields
  <2> HIDE DEF next, t
  <2>7. mi.phase = next /\ mi.decoded = o
    BY <1>1 DEF MicroState
  <2> HIDE DEF ar, mi
  <2> QED BY <2>3, <2>4, <2>5, <2>6, <2>7, QuietCommit
<1> QED BY <1>2, <1>3, <1>4, <1>5

(* So are the memory cycles.                                                 *)
LEMMA MemoryQuiet ==
    ASSUME SeqInv, ReadStep \/ WriteStep
    PROVE  Quiet
<1> DEFINE o == micro.decoded
           k == micro.phase.k
           ad == micro.phase.addr
<1>1. /\ arch \in ArchState /\ micro \in MicroState /\ LatchMatchesPhase /\ arch.sp \in Word
      /\ arch.hl \in Word /\ arch.pc \in Word /\ ad \in Word /\ micro.temp \in Word
  BY DEF SeqInv, CpuTypeOK, SequencerConsistent, ArchState, MicroState, Phase
<1> DEFINE To(ph, t) == [micro EXCEPT !.phase = ph, !.temp = t]
<1>2. \A ph, t : To(ph, t).phase = ph /\ To(ph, t).decoded = o
  BY <1>1 DEF MicroState
<1>3. CASE ReadStep
  <2>1. PICK v \in Byte : HandleReadMem(v)
    BY <1>3 DEF ReadStep
  <2>2. micro.phase.n = "ReadMem" /\ k \in ReadConts
    BY <1>1, <2>1 DEF HandleReadMem, LatchMatchesPhase
  <2>3. /\ k \in {"LoadReg8", "LoadAFromAddr", "BitOpFromMem", "PopLo", "PopHi", "AluFromMem"}
              => o \notin {"Reti", "Halt"}
        /\ k \in {"RetLo", "RetHi"} => o \in {"Ret", "Reti", "RetCc"}
    BY <1>1, <2>2 DEF LatchMatchesPhase, Continues
  <2> DEFINE up == Plus(arch.sp, 1)
             w == Pair(v, micro.phase.lo)
             r == AluVal(v, v)
             f == AluFlag(v, v)
  <2>4. up \in Word /\ w \in Word /\ f \in BOOLEAN /\ HlAdjusted \in Word
    BY <1>1, PlusWord, WordNat, PairWord, AluAssumption, HlAdjustedType
       DEF MicroState, Phase, SeqInv
  <2>5. CASE k \in {"LoadReg8", "LoadAFromAddr"}
    <3> DEFINE ar == [arch EXCEPT !.a = v, !.hl = HlAdjusted]
    <3>1. Commit(ar, To(Fetch, ad))
      BY <2>1, <2>5 DEF HandleReadMem
    <3>2. ar \in ArchState /\ ar.halt = arch.halt
      BY <1>1, <2>4 DEF ArchState
    <3> HIDE DEF ar, To
    <3> QED BY <1>2, <2>3, <2>5, <3>1, <3>2, PhaseFields, QuietCommit
  <2>6. CASE k \in {"PopLo", "RetLo"}
    <3> DEFINE ar == [arch EXCEPT !.sp = up]
               ph == [ReadMem(up, IF k = "PopLo" THEN "PopHi" ELSE "RetHi") EXCEPT !.lo = v]
    <3>1. Commit(ar, To(ph, ad))
      BY <2>1, <2>6 DEF HandleReadMem
    <3>2. ar \in ArchState /\ ar.halt = arch.halt
      <4> HIDE DEF up
      <4> QED BY <1>1, <2>4 DEF ArchState
    <3>3. ph.n = "ReadMem"
      BY PhaseFields
    <3> HIDE DEF ar, To, ph
    <3> QED BY <1>2, <3>1, <3>2, <3>3, QuietCommit
  <2>7. CASE k = "PopHi"
    <3> DEFINE ar == [arch EXCEPT !.sp = up, !.hl = w]
               mi == [To(Fetch, w) EXCEPT !.imm_hi = 0]
    <3>1. Commit(ar, mi)
      BY <2>1, <2>7 DEF HandleReadMem
    <3>2. ar \in ArchState /\ ar.halt = arch.halt
      <4> HIDE DEF up, w
      <4> QED BY <1>1, <2>4 DEF ArchState
    <3>3. mi.phase.n = "Fetch" /\ mi.decoded = o
      BY <1>1, PhaseFields DEF MicroState
    <3> HIDE DEF ar, mi
    <3> QED BY <2>3, <2>7, <3>1, <3>2, <3>3, QuietCommit
  <2>8. CASE k = "RetHi"
    <3> DEFINE ar == [arch EXCEPT !.sp = up]
               mi == [To(Execute(o), w) EXCEPT !.imm_hi = 2]
    <3>1. Commit(ar, mi)
      BY <2>1, <2>3, <2>8 DEF HandleReadMem
    <3>2. ar \in ArchState /\ ar.halt = arch.halt
      <4> HIDE DEF up
      <4> QED BY <1>1, <2>4 DEF ArchState
    <3>3. mi.phase.n = "Execute" /\ mi.phase.k = o /\ mi.decoded = o
      BY <1>1, PhaseFields DEF MicroState
    <3> HIDE DEF ar, mi
    <3> QED BY <2>3, <2>8, <3>1, <3>2, <3>3, QuietCommit
  <2>9. CASE k = "AluFromMem"
    <3>1. Commit(arch, To(Execute(o), v))
      BY <2>1, <2>9 DEF HandleReadMem
    <3> HIDE DEF To
    <3> QED BY <1>1, <1>2, <2>3, <2>9, <3>1, PhaseFields, QuietCommit
  <2>10. CASE k = "BitOpFromMem"
    <3> DEFINE ar == [arch EXCEPT !.cc = f]
               ph == IF o = "CbBit" THEN Fetch ELSE WriteMem(ad, r, "StoreDone")
    <3>1. Commit(ar, To(ph, r))
      BY <2>1, <2>10 DEF HandleReadMem
    <3>2. ar \in ArchState /\ ar.halt = arch.halt
      <4> HIDE DEF f
      <4> QED BY <1>1, <2>4 DEF ArchState
    <3>3. ph.n \in {"Fetch", "WriteMem"}
      BY PhaseFields
    <3> HIDE DEF ar, To, ph
    <3> QED BY <1>2, <2>3, <2>10, <3>1, <3>2, <3>3, QuietCommit
  <2> QED BY <2>2, <2>5, <2>6, <2>7, <2>8, <2>9, <2>10 DEF ReadConts
<1>4. CASE WriteStep
  <2>1. HandleWriteMem /\ micro.phase.n = "WriteMem" /\ k \in WriteConts
    BY <1>1, <1>4 DEF WriteStep, HandleWriteMem, LatchMatchesPhase
  <2>2. CASE k = "StoreDone"
    <3> DEFINE sp == IF o \in {"Push", "Call", "CallCc", "Rst"} THEN ad ELSE arch.sp
               pc == IF o \in {"Call", "CallCc", "Rst"} THEN micro.temp ELSE arch.pc
               ar == [arch EXCEPT !.hl = HlAdjusted, !.sp = sp, !.pc = pc]
    <3>1. Commit(ar, To(Fetch, ad))
      BY <2>1, <2>2 DEF HandleWriteMem
    <3>2. sp \in Word /\ pc \in Word /\ HlAdjusted \in Word
      BY <1>1, HlAdjustedType DEF SeqInv
    <3>3. ar \in ArchState /\ ar.halt = arch.halt
      <4> HIDE DEF sp, pc
      <4> QED BY <1>1, <3>2 DEF ArchState
    <3>4. o # "Reti"
      BY <1>1, <2>1, <2>2 DEF LatchMatchesPhase, Continues, WriteHlOps
    <3> HIDE DEF ar, To
    <3> QED BY <1>2, <3>1, <3>3, <3>4, PhaseFields, QuietCommit
  <2>3. CASE k = "StoreSpHi"
    <3> DEFINE ph == WriteMem(micro.phase.aux, micro.phase.lo, "StoreDone")
    <3>1. Commit(arch, To(ph, micro.phase.aux))
      BY <2>1, <2>3 DEF HandleWriteMem
    <3>2. ph.n = "WriteMem"
      BY PhaseFields
    <3> HIDE DEF To, ph
    <3> QED BY <1>1, <1>2, <3>1, <3>2, QuietCommit
  <2>4. CASE k \in {"PushHi", "PushLo"}
    <3> DEFINE ar == [arch EXCEPT !.sp = ad]
               p1 == WriteMem(Minus(ad, 1), Lo(micro.phase.aux), "StoreDone")
               p2 == WriteMem(micro.phase.aux, micro.phase.lo, "StoreDone")
    <3>1. Commit(ar, To(p1, micro.temp)) \/ Commit(ar, To(p2, micro.phase.aux))
      BY <2>1, <2>4 DEF HandleWriteMem
    <3>2. p1.n = "WriteMem" /\ p2.n = "WriteMem"
      BY PhaseFields
    <3>3. ar \in ArchState /\ ar.halt = arch.halt
      BY <1>1 DEF ArchState
    <3> HIDE DEF ar, To, p1, p2
    <3> QED BY <1>2, <3>1, <3>2, <3>3, QuietCommit
  <2> QED BY <2>1, <2>2, <2>3, <2>4 DEF WriteConts
<1> QED BY <1>3, <1>4

(* So are the internal cycles, but for the IME that RETI sets.               *)
LEMMA InternalQuiet ==
    ASSUME SeqInv, InternalStep
    PROVE  Quiet /\ ~ Executing({"Halt"}) /\ micro.phase.n = "Execute"
<1> DEFINE o == micro.decoded
<1>1. /\ arch \in ArchState /\ micro \in MicroState /\ ExecuteInternal
      /\ \A S : Executing(S) => micro.phase.n = "Execute" /\ o \in S /\ micro.phase.k = o
  BY DEF SeqInv, CpuTypeOK, SequencerConsistent, LatchMatchesPhase, InternalStep, Executing
<1>2. ~ Executing({"Halt"}) /\ micro.phase.n = "Execute"
  BY <1>1 DEF ExecuteInternal, ExecuteAlu, ExecuteIncMem, ExecuteWordAlu, ExecuteJump,
     ExecuteReturn, ExecuteStackAndLoad, Executing
<1>3. o # "Reti" => arch'.ime = IF arch.ime = "PendingEnable" /\ micro'.phase.n \in {"Fetch", "Halted"}
                                THEN "Enabled" ELSE arch.ime
  <2> DEFINE Kept == arch'.ime = IF arch.ime = "PendingEnable" /\ micro'.phase.n \in {"Fetch", "Halted"}
                                 THEN "Enabled" ELSE arch.ime
  <2> SUFFICES ASSUME o # "Reti" PROVE Kept
    OBVIOUS
  <2>2. CASE ExecuteAlu
    BY <1>1, <2>2 DEF ExecuteAlu, Alu, Commit, CommitIme, ResolvedIme, InstructionComplete,
       ArchState
  <2>3. CASE ExecuteIncMem
    BY <1>1, <2>3 DEF ExecuteIncMem, Commit, CommitIme, ResolvedIme, InstructionComplete,
       ArchState
  <2>4. CASE ExecuteWordAlu
    BY <1>1, <2>4 DEF ExecuteWordAlu, Commit, CommitIme, ResolvedIme, InstructionComplete,
       ArchState
  <2>5. CASE ExecuteJump
    BY <1>1, <2>5 DEF ExecuteJump, NotTaken, Commit, CommitIme, ResolvedIme,
       InstructionComplete, ArchState
  <2>6. CASE ExecuteReturn
    <3>1. ~ Executing({"Reti"})
      BY <1>1
    <3> QED BY <1>1, <2>6, <3>1 DEF ExecuteReturn, NotTaken, Commit, CommitIme, ResolvedIme,
       InstructionComplete, ArchState
  <2>7. CASE ExecuteStackAndLoad
    BY <1>1, <2>7 DEF ExecuteStackAndLoad, Commit, CommitIme, ResolvedIme, InstructionComplete,
       ArchState
  <2> QED BY <1>1, <2>2, <2>3, <2>4, <2>5, <2>6, <2>7 DEF ExecuteInternal
<1>4. o = "Reti" => arch'.ime = "Enabled" /\ micro'.phase = Fetch
  <2> SUFFICES ASSUME o = "Reti" PROVE arch'.ime = "Enabled" /\ micro'.phase = Fetch
    OBVIOUS
  <2>1. \A S : "Reti" \notin S => ~ Executing(S)
    BY <1>1
  <2>2. ExecuteReturn
    BY <1>1, <2>1 DEF ExecuteInternal, ExecuteAlu, ExecuteIncMem, ExecuteWordAlu, ExecuteJump,
       ExecuteStackAndLoad
  <2>3. CommitIme([arch EXCEPT !.pc = micro.temp], "Enabled", ToFetch(micro.temp))
    BY <2>1, <2>2 DEF ExecuteReturn
  <2> QED BY <1>1, <2>3 DEF CommitIme, ToFetch, ArchState, MicroState
<1>5. /\ micro'.decoded = o /\ arch'.halt = arch.halt
      /\ micro'.phase.n \notin {"Halted", "ServiceInterrupt"}
      /\ micro'.phase.n = "Execute" => micro'.phase.k # "Halt"
  BY <1>1, ExecuteInternalMicro, ExecuteInternalArch, PhaseFields
<1>6. micro'.phase.n # "Fetch" => micro'.phase # Fetch
  BY PhaseFields
<1> QED BY <1>2, <1>3, <1>4, <1>5, <1>6 DEF Quiet

(* A cycle in the middle of an instruction, for the interrupt logic.         *)
LEMMA BusyStep ==
    ASSUME SeqInv, TraceInv, SeqInv', TraceInv', Quiet, NEW tr, NEW o, Record(tr, o),
           micro.phase.n \notin {"Fetch", "Halted", "ServiceInterrupt"},
           ~ (micro.phase.n = "Execute" /\ micro.phase.k = "Halt")
    PROVE  Core!BusyCycle
<1>1. IrqStage = "Busy" /\ micro.phase.n # "ServiceInterrupt"
  BY DEF IrqStage
<1>2. IrqStage' = IF micro'.phase.n = "Fetch" THEN "Fetch" ELSE "Busy"
  BY DEF IrqStage, Quiet
<1>3. /\ micro'.phase.n = "Fetch" => InstructionComplete(micro'.phase)
      /\ micro'.phase.n # "Fetch" => ~ InstructionComplete(micro'.phase)
  BY DEF InstructionComplete, Quiet
<1>4. /\ cycles \in 1 .. 5
      /\ micro'.phase.n # "Fetch" => cycles' \in 1 .. 5 /\ cycles' = cycles + 1
  BY <1>3, BusyCycles, BusyCyclesThen DEF Quiet, Record
<1>5. CASE micro'.phase.n = "Fetch"
  <2>1. /\ arch'.halt = arch.halt /\ IrqClass(micro'.decoded) = IrqClass(micro.decoded)
        /\ arch'.ime = IF IrqClass(micro.decoded) = "Reti" THEN "Enabled"
                       ELSE IF arch.ime = "PendingEnable" THEN "Enabled" ELSE arch.ime
    BY <1>5 DEF Quiet, IrqClass
  <2>2. IrqStage' = "Fetch" /\ micro'.phase.n # "ServiceInterrupt"
    BY <1>2, <1>5
  <2> QED BY <1>1, <2>1, <2>2 DEF Core!BusyCycle, Core!Matured
<1>6. CASE micro'.phase.n # "Fetch"
  <2>1. /\ arch'.halt = arch.halt /\ IrqClass(micro'.decoded) = IrqClass(micro.decoded)
        /\ arch'.ime = arch.ime /\ cycles < 5 /\ cycles' = cycles + 1
    BY <1>4, <1>6 DEF Quiet
  <2>2. IrqStage' = "Busy" /\ micro'.phase.n # "ServiceInterrupt"
    BY <1>2, <1>6 DEF Quiet
  <2> QED BY <1>1, <2>1, <2>2 DEF Core!BusyCycle
<1> QED BY <1>5, <1>6

(* The fetch of an opcode, for the interrupt logic.                          *)
LEMMA FetchSeen ==
    ASSUME SeqInv, TraceInv, FetchStep
    PROVE  \E pending \in SUBSET Irq : \E c \in Core!Class : Core!FetchCycle(pending, c)
<1>1. PICK o \in Ops, pending \in Pendings :
         (HandleFetchHaltBug(o) \/ HandleFetch(o, pending)) /\ Record(Reads(0), o)
  BY DEF FetchStep
<1>2. /\ pending \in SUBSET Irq /\ arch \in ArchState /\ micro \in MicroState
      /\ micro.phase.n = "Fetch" /\ arch.halt # "Halted" /\ cycles = 0
  BY <1>1, TraceAssumption DEF SeqInv, CpuTypeOK, SequencerConsistent, InterruptStateConsistent,
     TraceInv, AtBoundary, InstructionComplete, Made, HandleFetchHaltBug, HandleFetch, AtFetch
<1>3. PICK pc : FetchOpcode(o, pc)
  BY <1>1 DEF HandleFetchHaltBug, HandleFetch
<1>4. /\ micro'.phase = PhaseAfterFetch(o) /\ micro'.decoded = o /\ arch'.halt = "Running"
      /\ o = "Ei" => arch'.ime = "PendingEnable"
      /\ o = "Di" => arch'.ime = "Disabled"
      /\ o \notin {"Ei", "Di"} =>
            arch'.ime = IF arch.ime = "PendingEnable" /\ micro'.phase.n \in {"Fetch", "Halted"}
                        THEN "Enabled" ELSE arch.ime
  BY <1>2, <1>3 DEF FetchOpcode, Commit, CommitIme, ResolvedIme, InstructionComplete,
     ArchState, HaltState, MicroState
<1>5. IrqStage = "Fetch" /\ ~ Core!TakesInterrupt(pending)
  BY <1>1, <1>2 DEF IrqStage, Core!TakesInterrupt, HandleFetchHaltBug, HandleFetch
<1>6. /\ o \in FetchOps => IrqStage' = "Fetch" /\ micro'.phase.n = "Fetch"
      /\ o = "Halt" => IrqStage' = "HaltExec" /\ micro'.phase.n = "Execute"
      /\ o \notin FetchOps \cup {"Halt"} =>
            IrqStage' = "Busy" /\ micro'.phase.n \notin {"Fetch", "Halted", "ServiceInterrupt"}
  <2>1. CASE o \in FetchOps
    BY <1>4, <2>1, AfterFetch, PhaseFields DEF IrqStage, FetchOps
  <2>2. CASE o \in ExecOps
    BY <1>4, <2>2, AfterFetch, PhaseFields DEF IrqStage, FetchOps, ExecOps
  <2>3. CASE o \in Imm8Ops \cup Imm16Ops \cup ReadHlOps \cup WriteHlOps \cup PopOps \cup {"Cb"}
    <3>1. o \notin FetchOps \cup {"Halt"}
      BY <2>3, OpClasses DEF FetchOps, WriteHlOps
    <3>2. micro'.phase.n \in {"ReadImm8", "ReadImm16Lo", "ReadMem", "WriteMem", "FetchPrefix"}
      BY <1>4, <2>3, AfterFetch, PhaseFields
    <3> QED BY <3>1, <3>2 DEF IrqStage
  <2> QED BY <2>1, <2>2, <2>3 DEF Ops
<1>7. /\ IrqStage' = "Busy" => cycles' = 1
      /\ micro'.phase.n # "ServiceInterrupt" /\ micro.phase.n # "ServiceInterrupt"
  <2>1. IrqStage' = "Busy" => ~ InstructionComplete(micro'.phase)
    BY DEF IrqStage, InstructionComplete
  <2> QED BY <1>1, <1>2, <1>6, <2>1 DEF Record
<1>8. /\ IrqClass(o) \in Core!Class
      /\ o \in FetchOps => IrqClass(o) \in {"Ei", "Di", "Other"}
      /\ o \in FetchOps /\ o \notin {"Ei", "Di"} => IrqClass(o) = "Other"
      /\ o \notin FetchOps \cup {"Halt"} => IrqClass(o) \in {"Other", "Reti"}
  BY DEF IrqClass, Core!Class, FetchOps
<1> DEFINE c == IrqClass(o)
<1>9. CASE o \in FetchOps
  <2>1. c = "Ei" <=> o = "Ei"
    BY DEF IrqClass
  <2>2. c = "Di" <=> o = "Di"
    BY DEF IrqClass
  <2> HIDE DEF c
  <2>3. \/ c = "Ei" /\ arch'.ime = Core!ImeAfterEi /\ IrqStage' = "Fetch"
        \/ c = "Di" /\ arch'.ime = "Disabled" /\ IrqStage' = "Fetch"
        \/ c = "Other" /\ arch'.ime = Core!Matured /\ IrqStage' = "Fetch"
    BY <1>4, <1>6, <1>8, <1>9, <2>1, <2>2 DEF Core!Matured, Core!ImeAfterEi, c
  <2>4. Core!FetchCycle(pending, c)
    BY <1>4, <1>5, <1>6, <1>7, <1>9, <2>3 DEF Core!FetchCycle, c
  <2> QED BY <1>2, <1>8, <2>4 DEF c
<1>10. CASE o = "Halt"
  <2>1. c = "Halt" /\ arch'.ime = arch.ime /\ IrqStage' = "HaltExec"
    BY <1>4, <1>6, <1>10 DEF IrqClass
  <2>2. Core!FetchCycle(pending, c)
    BY <1>4, <1>5, <1>7, <2>1 DEF Core!FetchCycle
  <2> QED BY <1>2, <1>8, <2>2
<1>11. CASE o \notin FetchOps \cup {"Halt"}
  <2>1. c \in {"Other", "Reti"} /\ arch'.ime = arch.ime /\ IrqStage' = "Busy"
    BY <1>4, <1>6, <1>8, <1>11 DEF FetchOps
  <2>2. Core!FetchCycle(pending, c)
    BY <1>4, <1>5, <1>7, <2>1 DEF Core!FetchCycle
  <2> QED BY <1>2, <1>8, <2>2
<1> QED BY <1>9, <1>10, <1>11

(* HALT, its end, the entry of a dispatch: the cycles that sample.           *)
LEMMA SamplingSeen ==
    ASSUME SeqInv, TraceInv, HaltStep \/ EntryStep \/ HaltedStep
    PROVE  \E pending \in SUBSET Irq : Core!CoreCycle(pending)
<1>1. /\ arch \in ArchState /\ micro \in MicroState /\ Pendings \subseteq SUBSET Irq
      /\ LatchMatchesPhase /\ InterruptStateConsistent
  BY TraceAssumption DEF SeqInv, CpuTypeOK, SequencerConsistent
<1>2. CASE HaltStep
  <2>1. PICK pending \in Pendings : ExecuteHalt(pending)
    BY <1>2 DEF HaltStep
  <2> DEFINE halted == MkPhase("Halted", "-")
             bug == arch.ime = "Disabled" /\ pending # {}
  <2>2. micro.phase.n = "Execute" /\ micro.phase.k = "Halt"
    BY <2>1 DEF ExecuteHalt, Executing
  <2>3. IrqStage = "HaltExec"
    BY <2>2 DEF IrqStage
  <2>4. bug => /\ arch' = [[arch EXCEPT !.halt = "HaltBugPending"]
                             EXCEPT !.ime = ResolvedIme([micro EXCEPT !.phase = Fetch])]
               /\ micro' = [micro EXCEPT !.phase = Fetch]
    BY <2>1 DEF ExecuteHalt, Commit, CommitIme
  <2>5. ~ bug => /\ arch' = [[arch EXCEPT !.halt = "Halted"]
                               EXCEPT !.ime = ResolvedIme([micro EXCEPT !.phase = halted])]
                 /\ micro' = [micro EXCEPT !.phase = halted]
    BY <2>1 DEF ExecuteHalt, Commit, CommitIme
  <2>6. Fetch.n = "Fetch" /\ halted.n = "Halted"
    BY PhaseFields
  <2>7. CASE bug
    <3>1. micro'.phase = Fetch /\ micro'.decoded = micro.decoded
      BY <1>1, <2>4, <2>7 DEF MicroState
    <3>2. arch'.halt = "HaltBugPending" /\ arch'.ime = arch.ime
      BY <1>1, <2>4, <2>7 DEF ArchState, ResolvedIme
    <3>3. IrqStage' = "Fetch" /\ micro'.phase.n = "Fetch"
      BY <2>6, <3>1 DEF IrqStage
    <3>4. Core!HaltExecCycle(pending)
      BY <2>2, <2>3, <2>7, <3>1, <3>2, <3>3 DEF Core!HaltExecCycle
    <3> QED BY <1>1, <3>4 DEF Core!CoreCycle
  <2>8. CASE ~ bug
    <3> HIDE DEF halted
    <3>1. micro'.phase = halted /\ micro'.decoded = micro.decoded
      BY <1>1, <2>5, <2>8 DEF MicroState
    <3>2. /\ arch'.halt = "Halted"
          /\ arch'.ime = IF arch.ime = "PendingEnable" THEN "Enabled" ELSE arch.ime
      BY <1>1, <2>5, <2>6, <2>8 DEF ArchState, ResolvedIme, InstructionComplete, MicroState
    <3>3. IrqStage' = "Halted" /\ micro'.phase.n = "Halted"
      BY <2>6, <3>1 DEF IrqStage
    <3>4. Core!HaltExecCycle(pending)
      BY <2>2, <2>3, <2>8, <3>1, <3>2, <3>3 DEF Core!HaltExecCycle, Core!Matured
    <3> QED BY <1>1, <3>4 DEF Core!CoreCycle
  <2> QED BY <2>7, <2>8
<1>3. CASE EntryStep
  <2>1. PICK pending \in Pendings : HandleInterrupt(pending)
    BY <1>3 DEF EntryStep
  <2> DEFINE ph == Service(IrqSelected(pending), "Delay1")
  <2>2. /\ arch' = [[arch EXCEPT !.halt = "Running"] EXCEPT !.ime = "Disabled"]
        /\ micro' = [micro EXCEPT !.phase = ph]
        /\ arch.ime = "Enabled" /\ pending # {}
        /\ micro.phase.n = "Halted" \/ (micro.phase.n = "Fetch" /\ arch.halt # "HaltBugPending")
    BY <2>1 DEF HandleInterrupt, TakesInterrupt, AtFetch, ServiceEntry, CommitIme
  <2>3. ph.n = "ServiceInterrupt" /\ ph.k = "Delay1" /\ ph.aux = IrqSelected(pending)
    BY DEF Service, MkPhase
  <2> HIDE DEF ph
  <2>4. micro'.phase = ph /\ micro'.decoded = micro.decoded
    BY <1>1, <2>2 DEF MicroState
  <2>5. arch'.halt = "Running" /\ arch'.ime = "Disabled"
    BY <1>1, <2>2 DEF ArchState
  <2>6. /\ IrqStage = micro.phase.n /\ IrqStage' = "Delay1"
        /\ micro.phase.n # "ServiceInterrupt" /\ micro'.phase.n = "ServiceInterrupt"
    BY <2>2, <2>3, <2>4 DEF IrqStage
  <2>7. Core!Highest(pending) = micro'.phase.aux
    BY <2>3, <2>4 DEF Core!Highest, IrqSelected
  <2>8. Core!TakesInterrupt(pending)
    BY <2>2, <2>6 DEF Core!TakesInterrupt
  <2>9. IrqStage # "Busy" /\ IrqStage' # "Busy"
    BY <2>2, <2>6
  <2>10. Core!EntryCycle(pending)
    BY <2>4, <2>5, <2>6, <2>7, <2>8, <2>9 DEF Core!EntryCycle, Core!ImeAfterEntry
  <2> QED BY <1>1, <2>1, <2>10 DEF Core!CoreCycle
<1>4. CASE HaltedStep
  <2>1. PICK pending \in Pendings : HandleHalted(pending)
    BY <1>4 DEF HaltedStep
  <2>2. /\ micro.phase.n = "Halted" /\ ~ TakesInterrupt(pending)
        /\ arch.ime # "PendingEnable"
    BY <1>1, <2>1 DEF HandleHalted, InterruptStateConsistent
  <2>3. IrqStage = "Halted" /\ ~ Core!TakesInterrupt(pending)
    BY <2>2 DEF IrqStage, TakesInterrupt, Core!TakesInterrupt
  <2>4. CASE pending = {}
    <3>1. arch' = arch /\ micro' = micro
      BY <1>1, <2>1, <2>2, <2>4, ResolvedCommit DEF HandleHalted
    <3>2. IrqStage' = IrqStage
      BY <3>1 DEF IrqStage
    <3>3. Core!HaltedCycle(pending)
      BY <2>2, <2>3, <2>4, <3>1, <3>2 DEF Core!HaltedCycle, Core!Wakes
    <3> QED BY <1>1, <2>1, <3>3 DEF Core!CoreCycle
  <2>5. CASE pending # {}
    <3> DEFINE ar == [arch EXCEPT !.halt = "Running"]
               mi == [micro EXCEPT !.phase = Fetch]
    <3>1. Commit(ar, mi)
      BY <2>1, <2>5 DEF HandleHalted
    <3>2. ar \in ArchState /\ ar.ime = arch.ime /\ ar.halt = "Running"
      BY <1>1 DEF ArchState, HaltState
    <3>3. mi.phase.n = "Fetch" /\ mi.decoded = micro.decoded
      BY <1>1, PhaseFields DEF MicroState
    <3> HIDE DEF ar, mi
    <3>4. arch' = ar /\ micro' = mi
      BY <2>2, <3>1, <3>2, ResolvedCommit
    <3>5. IrqStage' = "Fetch" /\ micro'.phase.n = "Fetch"
      BY <3>3, <3>4 DEF IrqStage
    <3>6. Core!HaltedCycle(pending)
      BY <2>2, <2>3, <2>5, <3>2, <3>3, <3>4, <3>5 DEF Core!HaltedCycle, Core!Wakes
    <3> QED BY <1>1, <2>1, <3>6 DEF Core!CoreCycle
  <2> QED BY <2>4, <2>5
<1> QED BY <1>2, <1>3, <1>4

(* A dispatch under way, for the interrupt logic.                            *)
LEMMA ServiceSeen ==
    ASSUME SeqInv, ServiceStep
    PROVE  Core!ServiceCycle
<1> DEFINE i == micro.phase.aux
           k == micro.phase.k
           Going(sub) == [micro EXCEPT !.phase = Service(i, sub)]
           pushed == [arch EXCEPT !.sp = Minus(arch.sp, 1)]
           jump == [arch EXCEPT !.pc = Vector(i)]
           fetching == [micro EXCEPT !.phase = Fetch]
           phases == Core!IrqPhases
<1>1. /\ HandleServiceInterrupt /\ arch \in ArchState /\ micro \in MicroState
      /\ micro.phase.n = "ServiceInterrupt" /\ k \in IrqPhases /\ i \in Irq
      /\ arch.ime = "Disabled"
  BY DEF ServiceStep, HandleServiceInterrupt, SeqInv, CpuTypeOK, SequencerConsistent,
     LatchMatchesPhase, InterruptStateConsistent
<1>2. IrqStage = k
  BY <1>1 DEF IrqStage
<1>3. /\ pushed.ime = arch.ime /\ pushed.halt = arch.halt
      /\ jump.ime = arch.ime /\ jump.halt = arch.halt
      /\ pushed \in ArchState /\ jump \in ArchState
  <2>1. Minus(arch.sp, 1) \in Word /\ Vector(i) \in Word
    BY <1>1, MinusWord, WordNat, VectorWord DEF ArchState
  <2> QED BY <1>1, <2>1 DEF ArchState
<1>4. ASSUME NEW ar \in ArchState, NEW sub \in IrqPhases, Commit(ar, Going(sub)),
             ar.ime = arch.ime, ar.halt = arch.halt
      PROVE  /\ IrqStage' = sub /\ micro'.phase.n = "ServiceInterrupt" /\ micro'.phase.aux = i
             /\ micro'.decoded = micro.decoded /\ arch'.ime = arch.ime /\ arch'.halt = arch.halt
  <2>1. arch' = ar /\ micro' = Going(sub)
    BY <1>1, <1>4, ResolvedCommit
  <2> DEFINE ph == Service(i, sub)
  <2>2. ph.n = "ServiceInterrupt" /\ ph.k = sub /\ ph.aux = i
    BY DEF Service, MkPhase
  <2> HIDE DEF ph
  <2>3. micro'.phase = ph /\ micro'.decoded = micro.decoded
    BY <1>1, <2>1 DEF MicroState, ph
  <2> QED BY <1>4, <2>1, <2>2, <2>3 DEF IrqStage
<1>5. /\ phases[1] = "Delay1" /\ phases[2] = "Delay2" /\ phases[3] = "PushPcHi"
      /\ phases[4] = "PushPcLo" /\ phases[5] = "Jump"
  BY DEF Core!IrqPhases
<1> HIDE DEF phases
<1>6. ASSUME NEW ar \in ArchState, NEW n \in 1 .. 4, k = phases[n], phases[n + 1] \in IrqPhases,
             Commit(ar, Going(phases[n + 1])), ar.ime = arch.ime, ar.halt = arch.halt
      PROVE  Core!ServiceCycle
  <2>1. /\ IrqStage' = phases[n + 1] /\ micro'.phase.n = "ServiceInterrupt"
        /\ micro'.phase.aux = i
        /\ micro'.decoded = micro.decoded /\ arch'.ime = arch.ime /\ arch'.halt = arch.halt
    BY <1>4, <1>6
  <2>2. IrqStage # "Busy" /\ IrqStage' # "Busy"
    BY <1>1, <1>2, <1>6, <2>1 DEF IrqPhases
  <2> QED BY <1>1, <1>2, <1>6, <2>1, <2>2 DEF Core!ServiceCycle, phases
<1>7. CASE k = "Delay1"
  <2>1. Commit(arch, Going(phases[2])) /\ k = phases[1] /\ phases[1 + 1] \in IrqPhases
    BY <1>1, <1>5, <1>7 DEF HandleServiceInterrupt, IrqPhases
  <2> HIDE DEF Going
  <2> QED BY <1>1, <1>6, <2>1
<1>8. CASE k = "Delay2"
  <2>1. Commit(arch, Going(phases[3])) /\ k = phases[2] /\ phases[2 + 1] \in IrqPhases
    BY <1>1, <1>5, <1>8 DEF HandleServiceInterrupt, IrqPhases
  <2> HIDE DEF Going
  <2> QED BY <1>1, <1>6, <2>1
<1>9. CASE k = "PushPcHi"
  <2>1. Commit(pushed, Going(phases[4])) /\ k = phases[3] /\ phases[3 + 1] \in IrqPhases
    BY <1>1, <1>5, <1>9 DEF HandleServiceInterrupt, IrqPhases
  <2> HIDE DEF Going, pushed
  <2> QED BY <1>3, <1>6, <2>1
<1>10. CASE k = "PushPcLo"
  <2>1. Commit(pushed, Going(phases[5])) /\ k = phases[4] /\ phases[4 + 1] \in IrqPhases
    BY <1>1, <1>5, <1>10 DEF HandleServiceInterrupt, IrqPhases
  <2> HIDE DEF Going, pushed
  <2> QED BY <1>3, <1>6, <2>1
<1>11. CASE k = "Jump"
  <2>1. Commit(jump, fetching)
    BY <1>1, <1>11 DEF HandleServiceInterrupt
  <2>2. fetching.phase.n = "Fetch" /\ fetching.decoded = micro.decoded
    BY <1>1, PhaseFields DEF MicroState
  <2> HIDE DEF jump, fetching
  <2>3. arch' = jump /\ micro' = fetching
    BY <1>1, <1>3, <2>1, ResolvedCommit
  <2>4. IrqStage' = "Fetch" /\ micro'.phase.n # "ServiceInterrupt" /\ IrqStage # "Busy"
    BY <1>2, <1>11, <2>2, <2>3 DEF IrqStage
  <2> QED BY <1>1, <1>2, <1>3, <1>11, <2>2, <2>3, <2>4 DEF Core!ServiceCycle
<1> QED BY <1>1, <1>7, <1>8, <1>9, <1>10, <1>11 DEF IrqPhases

(* Every step of the core is one the interrupt logic may see.                *)
LEMMA SeenStep ==
    ASSUME SeqInv, TraceInv, SeqInv', TraceInv', Next
    PROVE  (\E pending \in SUBSET Irq : Core!CoreCycle(pending)) \/ Core!CoreReset
<1>1. {} \in SUBSET Irq /\ Core!Irq = Irq
  BY DEF Core!Irq, Irq
<1>2. CASE FetchStep
  BY <1>2, FetchSeen DEF Core!CoreCycle
<1>3. CASE PrefixStep \/ Imm8Step \/ Imm16LoStep \/ Imm16HiStep
  <2>1. PICK tr, o : Record(tr, o)
    BY <1>3 DEF PrefixStep, Imm8Step, Imm16LoStep, Imm16HiStep
  <2>2. micro.phase.n \in {"FetchPrefix", "ReadImm8", "ReadImm16Lo", "ReadImm16Hi"}
    BY <1>3 DEF PrefixStep, Imm8Step, Imm16LoStep, Imm16HiStep, HandleFetchPrefix,
       HandleReadImm8, HandleReadImm16Lo, HandleReadImm16Hi
  <2>3. Quiet
    BY <1>3, OperandQuiet
  <2>4. Core!BusyCycle
    BY <2>1, <2>2, <2>3, BusyStep
  <2> QED BY <1>1, <2>4 DEF Core!CoreCycle
<1>4. CASE ReadStep \/ WriteStep
  <2>1. PICK tr, o : Record(tr, o)
    BY <1>4 DEF ReadStep, WriteStep
  <2>2. micro.phase.n \in {"ReadMem", "WriteMem"}
    BY <1>4 DEF ReadStep, WriteStep, HandleReadMem, HandleWriteMem
  <2>3. Quiet
    BY <1>4, MemoryQuiet
  <2>4. Core!BusyCycle
    BY <2>1, <2>2, <2>3, BusyStep
  <2> QED BY <1>1, <2>4 DEF Core!CoreCycle
<1>5. CASE InternalStep
  <2>1. PICK tr, o : Record(tr, o)
    BY <1>5 DEF InternalStep
  <2>2. Quiet /\ ~ Executing({"Halt"}) /\ micro.phase.n = "Execute"
    BY <1>5, InternalQuiet
  <2>3. Core!BusyCycle
    BY <2>1, <2>2, BusyStep DEF Executing
  <2> QED BY <1>1, <2>3 DEF Core!CoreCycle
<1>6. CASE HaltStep \/ EntryStep \/ HaltedStep
  BY <1>6, SamplingSeen
<1>7. CASE ServiceStep
  BY <1>1, <1>7, ServiceSeen DEF Core!CoreCycle
<1>8. CASE ResetStep
  <2>1. arch' = ResetArch /\ micro' = ResetMicro
    BY <1>8 DEF ResetStep, Reset
  <2>2. /\ arch'.ime = "Disabled" /\ arch'.halt = "Running" /\ micro'.phase.n = "Fetch"
        /\ IrqClass(micro'.decoded) = "Other"
    BY <2>1, PhaseFields DEF ResetArch, ResetMicro, IrqClass
  <2>3. IrqStage' = "Fetch"
    BY <2>2 DEF IrqStage
  <2>4. Core!CoreReset
    BY <2>2, <2>3 DEF Core!CoreReset
  <2> QED BY <2>4
<1> QED BY <1>2, <1>3, <1>4, <1>5, <1>6, <1>7, <1>8 DEF Next, Step

(* The sequencer is the core of the interrupt system: it looks at what is    *)
(* pending only between instructions, in HALT and when it enters HALT        *)
(* (handle_fetch, handle_halted, halt_enter_delta), changes IME only as      *)
(* resolve_ime does, and is away for no more than six cycles at a time. What *)
(* InterruptProofs shows of that core thereby holds of the sequencer.        *)
THEOREM CoreRefinement == Spec => ImplementsCore
<1>1. Init => SeqInv /\ TraceInv
  BY StartTrace
<1>2. Init => Core!CoreInit
  <2> SUFFICES ASSUME Init PROVE Core!CoreInit
    OBVIOUS
  <2>1. /\ arch.ime = "Disabled" /\ arch.halt = "Running" /\ micro.phase.n = "Fetch"
        /\ IrqClass(micro.decoded) = "Other"
    BY PhaseFields DEF Init, CpuInit, ResetArch, ResetMicro, IrqClass
  <2>2. IrqStage = "Fetch"
    BY <2>1 DEF IrqStage
  <2> QED BY <2>1, <2>2 DEF Core!CoreInit
<1>3. SeqInv /\ TraceInv /\ SeqInv' /\ TraceInv' /\ [Next]_traceVars
        => [(\E pending \in SUBSET Core!Irq : Core!CoreCycle(pending)) \/ Core!CoreReset]_Core!coreVars
  <2> SUFFICES ASSUME SeqInv, TraceInv, SeqInv', TraceInv', [Next]_traceVars
               PROVE  [(\E pending \in SUBSET Core!Irq : Core!CoreCycle(pending))
                         \/ Core!CoreReset]_Core!coreVars
    OBVIOUS
  <2>1. CASE Next
    <3>1. Core!Irq = Irq
      BY DEF Core!Irq, Irq
    <3> QED BY <2>1, <3>1, SeenStep
  <2>2. CASE UNCHANGED traceVars
    BY <2>2 DEF traceVars, Core!coreVars, IrqStage
  <2> QED BY <2>1, <2>2
<1> QED
  BY <1>1, <1>2, <1>3, RefinedStep, PTL DEF Spec, ImplementsCore, Core!CoreSpec
=============================================================================

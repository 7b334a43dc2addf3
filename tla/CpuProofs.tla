------------------------------ MODULE CpuProofs ------------------------------
(* Proofs about the sequencer, for every width of the byte. *)
EXTENDS Cpu, TLAPS

-----------------------------------------------------------------------------
(* Arithmetic of bytes and words stays within bytes and words.               *)

(* A word has at least sixteen values, and four times those of a byte. *)
LEMMA WordModNat == WordMod \in Nat /\ WordMod >= 16 /\ WordMod >= 4 * ByteMod
<1>1. PICK b \in Nat : b = ByteMod /\ b >= 4
  BY ByteModAssumption
<1>2. b * b >= 4 * b
  BY <1>1
<1> QED
  BY <1>1, <1>2 DEF WordMod

(* Addition on words wraps into the words (uint<16>). *)
LEMMA PlusWord == ASSUME NEW w \in Nat, NEW n \in Nat PROVE Plus(w, n) \in Word
BY WordModNat DEF Plus, Word

(* Subtraction on words wraps into the words (uint<16>). *)
LEMMA MinusWord ==
    ASSUME NEW w \in Word, NEW n \in 0 .. WordMod PROVE Minus(w, n) \in Word
BY WordModNat DEF Minus, Word

(* The low byte of a word is a byte (lo_byte). *)
LEMMA LoByte == ASSUME NEW w \in Nat PROVE Lo(w) \in Byte
BY ByteModAssumption DEF Lo, Byte

(* The high byte of a word is a byte (hi_byte). *)
LEMMA HiByte == ASSUME NEW w \in Word PROVE Hi(w) \in Byte
<1> DEFINE q == w \div ByteMod
<1>1. ByteMod \in Nat /\ ByteMod > 0 /\ w \in Nat /\ w < ByteMod * ByteMod
  BY ByteModAssumption, WordModNat DEF Word, WordMod
<1>2. q \in Nat /\ w >= ByteMod * q
  BY <1>1
<1>3. q < ByteMod
  <2>1. SUFFICES ASSUME q >= ByteMod PROVE FALSE
    BY <1>1, <1>2
  <2>2. ByteMod * q >= ByteMod * ByteMod
    BY <1>1, <1>2, <2>1
  <2> QED
    BY <1>1, <1>2, <2>2
<1> QED
  BY <1>1, <1>2, <1>3 DEF Hi, Byte

(* Two bytes make a word. *)
LEMMA PairWord == ASSUME NEW h \in Byte, NEW l \in Byte PROVE Pair(h, l) \in Word
<1>1. ByteMod \in Nat /\ h \in Nat /\ l \in Nat /\ h <= ByteMod - 1 /\ l < ByteMod
  BY ByteModAssumption DEF Byte
<1>2. h * ByteMod <= (ByteMod - 1) * ByteMod
  BY <1>1
<1>3. h * ByteMod \in Nat /\ (ByteMod - 1) * ByteMod = ByteMod * ByteMod - ByteMod
  BY <1>1
<1> QED
  BY <1>1, <1>2, <1>3 DEF Pair, Word, WordMod

(* The reset values and the interrupt numbers are words. *)
LEMMA SmallWords == ByteMod \in Word /\ ByteMod + 1 \in Word /\ WordMod - 2 \in Word
                      /\ 0 \in Word /\ Irq \subseteq Word
BY WordModNat, ByteModAssumption DEF Word, Irq

(* A byte is also a word (zext). *)
LEMMA ByteSubsetWord == Byte \subseteq Word
BY WordModNat, ByteModAssumption DEF Byte, Word

(* The values the cycle counter in imm_hi takes are bytes. *)
LEMMA SmallBytes == 0 \in Byte /\ 1 \in Byte /\ 2 \in Byte /\ Byte \subseteq Nat
BY ByteModAssumption DEF Byte

(* Words are naturals, so one and two can be subtracted from them. *)
LEMMA WordNat == Word \subseteq Nat /\ 1 \in 0 .. WordMod /\ 2 \in 0 .. WordMod
BY WordModNat DEF Word

(* A sign-extended offset is a natural, to be added modulo WordMod. *)
LEMMA SignExtendNat == ASSUME NEW b \in Byte PROVE SignExtend(b) \in Nat
BY WordModNat, ByteModAssumption DEF SignExtend, Byte

(* The address of a high-page access is a word (IoOffset of handle_read_imm8). *)
LEMMA IoAddressWord == ASSUME NEW b \in Byte PROVE IoAddress(b) \in Word
<1>1. ByteMod - 1 \in Byte
  BY ByteModAssumption DEF Byte
<1> QED
  BY <1>1, PairWord DEF IoAddress

(* The vector of every interrupt is an address (irq_vector). *)
LEMMA VectorWord == ASSUME NEW i \in Irq PROVE Vector(i) \in Word
<1>1. VectorStep * i \in Nat
  BY VectorAssumption DEF Irq
<1> QED
  BY <1>1, WordModNat, VectorAssumption DEF Vector, Word
-----------------------------------------------------------------------------
(* Typing of phases and of a commit.                                         *)

(* Every phase a handler can build is of type Phase. *)
LEMMA PhaseTypes ==
    /\ Fetch \in Phase
    /\ \A op \in AllOps : Execute(op) \in Phase
    /\ \A ad \in Word, k \in ReadConts : ReadMem(ad, k) \in Phase
    /\ \A ad \in Word, d \in Byte, k \in WriteConts : WriteMem(ad, d, k) \in Phase
    /\ \A i \in Irq, sub \in IrqPhases : Service(i, sub) \in Phase
    /\ \A k \in Imm8Conts : MkPhase("ReadImm8", k) \in Phase
    /\ \A k \in Imm16Conts : MkPhase("ReadImm16Lo", k) \in Phase
    /\ MkPhase("FetchPrefix", "-") \in Phase /\ MkPhase("Halted", "-") \in Phase
BY SmallWords, SmallBytes
   DEF Phase, PhaseName, Cont, MkPhase, Fetch, Execute, ReadMem, WriteMem, Service

(* A commit of well-typed states keeps the types (apply_delta). *)
LEMMA CommitType ==
    ASSUME CpuTypeOK, NEW ar \in ArchState, NEW mi \in MicroState, Commit(ar, mi)
    PROVE  CpuTypeOK'
BY DEF CpuTypeOK, Commit, CommitIme, ResolvedIme, ArchState, ImeState

(* So does a commit that writes the IME (apply_micro_writes). *)
LEMMA CommitImeType ==
    ASSUME NEW ar \in ArchState, NEW mi \in MicroState, NEW ime \in ImeState,
           CommitIme(ar, ime, mi)
    PROVE  CpuTypeOK'
BY DEF CpuTypeOK, CommitIme, ArchState
-----------------------------------------------------------------------------
(* Each handler keeps the types.                                             *)

(* The fetch of any opcode keeps the types (fetch_delta). *)
LEMMA FetchType ==
    ASSUME CpuTypeOK, NEW op \in Ops, NEW pc \in Word, FetchOpcode(op, pc)
    PROVE  CpuTypeOK'
<1> DEFINE ar == [arch EXCEPT !.pc = pc,
                           !.a = IF op = "LdRR" THEN Lo(arch.hl) ELSE @,
                           !.sp = IF op = "LdSpHl" THEN arch.hl ELSE @,
                           !.halt = IF @ = "HaltBugPending" THEN "Running" ELSE @]
           mi == [micro EXCEPT !.phase = PhaseAfterFetch(op),
                            !.decoded = op,
                            !.imm_hi = IF op = "RetCc" THEN 1 ELSE @]
<1>1. ar \in ArchState
  BY LoByte, WordNat DEF CpuTypeOK, ArchState, HaltState
<1>2. PhaseAfterFetch(op) \in Phase
  BY PhaseTypes DEF CpuTypeOK, ArchState, PhaseAfterFetch, Ops, AllOps, FetchOps, ExecOps,
     Imm8Ops, Imm16Ops, ReadHlOps, WriteHlOps, PopOps, Imm8Conts, Imm16Conts, ReadConts,
     WriteConts, ReadHlCont, PopCont
<1>3. mi \in MicroState
  BY <1>2, SmallBytes DEF CpuTypeOK, MicroState, AllOps
<1>4. CASE op = "Ei"
  BY <1>1, <1>3, <1>4, CommitImeType DEF FetchOpcode, ImeState
<1>5. CASE op = "Di"
  BY <1>1, <1>3, <1>5, CommitImeType DEF FetchOpcode, ImeState
<1>6. CASE op # "Ei" /\ op # "Di"
  BY <1>1, <1>3, <1>6, CommitType DEF FetchOpcode
<1> QED
  BY <1>4, <1>5, <1>6

(* The PC written by a fetch is a word (control_flow_fetch_pc_write). *)
LEMMA PcType == ASSUME CpuTypeOK, NEW op \in Ops PROVE PcAfterFetch(op) \in Word
BY PlusWord, WordNat DEF CpuTypeOK, ArchState, PcAfterFetch

(* The selected interrupt is one of the five (irq_sel_from_pending). *)
LEMMA IrqSelectedType ==
    ASSUME NEW pending \in SUBSET Irq, pending # {} PROVE IrqSelected(pending) \in pending
<1>1. \E i \in pending : \A j \in pending : i <= j
  <2>1. CASE 0 \in pending
    BY <2>1 DEF Irq
  <2>2. CASE 0 \notin pending /\ 1 \in pending
    BY <2>2 DEF Irq
  <2>3. CASE pending \cap 0 .. 1 = {} /\ 2 \in pending
    BY <2>3 DEF Irq
  <2>4. CASE pending \cap 0 .. 2 = {} /\ 3 \in pending
    BY <2>4 DEF Irq
  <2>5. CASE pending \cap 0 .. 3 = {}
    <3>1. \A j \in pending : j = 4
      BY <2>5 DEF Irq
    <3> QED
      BY <3>1
  <2> QED
    BY <2>1, <2>2, <2>3, <2>4, <2>5 DEF Irq
<1> QED
  BY <1>1 DEF IrqSelected

(* The entry of a dispatch keeps the types (service_entry_output). *)
LEMMA InterruptType ==
    ASSUME CpuTypeOK, NEW pending \in SUBSET Irq, HandleInterrupt(pending)
    PROVE  CpuTypeOK'
<1>1. IrqSelected(pending) \in Irq
  BY IrqSelectedType DEF HandleInterrupt, TakesInterrupt
<1>2. Service(IrqSelected(pending), "Delay1") \in Phase
  BY <1>1, PhaseTypes DEF IrqPhases
<1>3. /\ [arch EXCEPT !.halt = "Running"] \in ArchState
      /\ [micro EXCEPT !.phase = Service(IrqSelected(pending), "Delay1")] \in MicroState
  BY <1>2 DEF CpuTypeOK, ArchState, MicroState, HaltState
<1> QED
  BY <1>3, CommitImeType DEF HandleInterrupt, ServiceEntry, ImeState

(* The halted phase keeps the types (handle_halted). *)
LEMMA HaltedType ==
    ASSUME CpuTypeOK, NEW pending \in SUBSET Irq, HandleHalted(pending) \/ ExecuteHalt(pending)
    PROVE  CpuTypeOK'
<1>1. \A h \in HaltState : [arch EXCEPT !.halt = h] \in ArchState
  BY DEF CpuTypeOK, ArchState
<1>2. \A ph \in Phase : [micro EXCEPT !.phase = ph] \in MicroState
  BY DEF CpuTypeOK, MicroState
<1> QED
  BY <1>1, <1>2, PhaseTypes, CommitType DEF HandleHalted, ExecuteHalt, CpuTypeOK, HaltState

(* The second opcode byte keeps the types (handle_fetch_prefix). *)
LEMMA PrefixType ==
    ASSUME CpuTypeOK, NEW op \in CbOps, HandleFetchPrefix(op)
    PROVE  CpuTypeOK'
<1> DEFINE v == AluVal(arch.a, arch.a)
<1>1. v \in Byte /\ v \in Word /\ AluFlag(arch.a, arch.a) \in BOOLEAN
  BY AluAssumption, WordModNat, ByteModAssumption DEF CpuTypeOK, ArchState, Byte, Word
<1>2. Plus(arch.pc, 1) \in Word
  BY PlusWord, WordNat DEF CpuTypeOK, ArchState
<1>3. /\ [arch EXCEPT !.pc = Plus(arch.pc, 1)] \in ArchState
      /\ [[arch EXCEPT !.pc = Plus(arch.pc, 1)] EXCEPT
             !.a = v, !.cc = AluFlag(arch.a, arch.a)] \in ArchState
  BY <1>1, <1>2 DEF CpuTypeOK, ArchState
<1>4. /\ [micro EXCEPT !.phase = Fetch, !.decoded = op, !.temp = v] \in MicroState
      /\ [micro EXCEPT !.phase = ReadMem(arch.hl, "BitOpFromMem"), !.decoded = op] \in MicroState
  BY <1>1, PhaseTypes DEF CpuTypeOK, ArchState, MicroState, AllOps, ReadConts
<1> QED
  BY <1>3, <1>4, CommitType DEF HandleFetchPrefix

(* An 8-bit immediate keeps the types (handle_read_imm8). *)
LEMMA ReadImm8Type ==
    ASSUME CpuTypeOK, LatchMatchesPhase, NEW d \in Byte, HandleReadImm8(d)
    PROVE  CpuTypeOK'
<1> DEFINE k == micro.phase.k
           ar == [arch EXCEPT !.pc = Plus(arch.pc, 1),
                              !.a = IF k = "LoadReg8" THEN d ELSE @]
           next ==
               CASE k = "LoadReg8" -> Fetch
                 [] k = "StoreToHl" -> WriteMem(arch.hl, d, "StoreDone")
                 [] k = "IoOffsetReadA" -> ReadMem(IoAddress(d), "LoadAFromAddr")
                 [] k = "IoOffsetWriteA" -> WriteMem(IoAddress(d), arch.a, "StoreDone")
                 [] k = "RelativeJump" ->
                      IF CondMatches(micro.decoded) THEN Execute(micro.decoded) ELSE Fetch
                 [] k \in {"AluImm8", "AddSpDisp", "LoadHlSpDisp"} -> Execute(micro.decoded)
           mi == [micro EXCEPT
                    !.phase = next, !.imm_lo = d,
                    !.imm_hi = IF k \in {"AddSpDisp", "RelativeJump"} THEN 0 ELSE @]
<1>1. ar \in ArchState
  BY PlusWord, WordNat DEF CpuTypeOK, ArchState
<1>2. k \in Imm8Conts
  BY DEF LatchMatchesPhase, HandleReadImm8, Imm8Conts
<1>3. next \in Phase
  BY <1>2, PhaseTypes, IoAddressWord
     DEF CpuTypeOK, ArchState, MicroState, Imm8Conts, Imm8Cont, Imm8Ops, ReadConts, WriteConts
<1>4. mi \in MicroState
  BY <1>3, SmallBytes DEF CpuTypeOK, MicroState
<1> QED
  BY <1>1, <1>4, CommitType DEF HandleReadImm8

(* The low byte of an immediate keeps the types (handle_read_imm16_lo). *)
LEMMA ReadImm16LoType ==
    ASSUME CpuTypeOK, LatchMatchesPhase, NEW d \in Byte, HandleReadImm16Lo(d)
    PROVE  CpuTypeOK'
<1>1. [arch EXCEPT !.pc = Plus(arch.pc, 1)] \in ArchState
  BY PlusWord, WordNat DEF CpuTypeOK, ArchState
<1>2. [MkPhase("ReadImm16Hi", micro.phase.k) EXCEPT !.lo = d] \in Phase
  BY SmallWords, SmallBytes DEF CpuTypeOK, MicroState, Phase, PhaseName, MkPhase
<1>3. [micro EXCEPT !.phase = [MkPhase("ReadImm16Hi", micro.phase.k) EXCEPT !.lo = d],
                    !.imm_lo = d] \in MicroState
  BY <1>2 DEF CpuTypeOK, MicroState
<1> QED
  BY <1>1, <1>3, CommitType DEF HandleReadImm16Lo

(* The high byte of an immediate keeps the types (handle_read_imm16_hi). *)
LEMMA ReadImm16HiType ==
    ASSUME CpuTypeOK, LatchMatchesPhase, NEW d \in Byte, HandleReadImm16Hi(d)
    PROVE  CpuTypeOK'
<1> DEFINE k  == micro.phase.k
           op == micro.decoded
           w  == Pair(d, micro.phase.lo)
           ar == [arch EXCEPT !.pc = Plus(arch.pc, 1),
                              !.sp = IF op = "LdSpNn" THEN w ELSE @,
                              !.hl = IF op = "LdRrNn" THEN w ELSE @]
           next ==
               CASE k = "LoadRegPair" -> Fetch
                 [] k \in {"JumpAbs", "CallTarget"} ->
                      IF CondMatches(op) THEN Execute(op) ELSE Fetch
                 [] k = "ReadAddrToA" -> ReadMem(w, "LoadAFromAddr")
                 [] k = "WriteAToAddr" -> WriteMem(w, arch.a, "StoreDone")
                 [] k = "StoreSpToAddr" ->
                      [WriteMem(w, Lo(arch.sp), "StoreSpHi")
                         EXCEPT !.lo = Hi(arch.sp), !.aux = Plus(w, 1)]
           mi == [micro EXCEPT !.phase = next, !.imm_lo = micro.phase.lo, !.imm_hi = d,
                               !.temp = IF k = "LoadRegPair" THEN @ ELSE w]
<1>1. w \in Word /\ micro.phase.lo \in Byte
  BY PairWord DEF CpuTypeOK, MicroState, Phase
<1>2. ar \in ArchState
  BY <1>1, PlusWord, WordNat DEF CpuTypeOK, ArchState
<1>3. k \in Imm16Conts
  BY DEF LatchMatchesPhase, HandleReadImm16Hi, Imm16Conts
<1>4. Lo(arch.sp) \in Byte /\ Hi(arch.sp) \in Byte /\ Plus(w, 1) \in Word
  BY <1>1, PlusWord, LoByte, HiByte, WordNat DEF CpuTypeOK, ArchState
<1>5. [WriteMem(w, Lo(arch.sp), "StoreSpHi")
         EXCEPT !.lo = Hi(arch.sp), !.aux = Plus(w, 1)] \in Phase
  BY <1>1, <1>4, PhaseTypes DEF Phase, WriteConts
<1>6. next \in Phase
  BY <1>1, <1>3, <1>5, PhaseTypes
     DEF CpuTypeOK, ArchState, MicroState, Imm16Conts, Imm16Cont, Imm16Ops, ReadConts, WriteConts
<1>7. mi \in MicroState
  BY <1>1, <1>6 DEF CpuTypeOK, MicroState
<1> QED
  BY <1>2, <1>7, CommitType DEF HandleReadImm16Hi

(* HL stays a word under HL+ and HL- (load_hl_adjust). *)
LEMMA HlAdjustedType == ASSUME CpuTypeOK PROVE HlAdjusted \in Word
BY PlusWord, MinusWord, WordNat DEF CpuTypeOK, ArchState, HlAdjusted

(* A memory read keeps the types, whatever byte the bus returns (handle_read_mem). *)
LEMMA ReadMemType ==
    ASSUME CpuTypeOK, LatchMatchesPhase, NEW v \in Byte, HandleReadMem(v)
    PROVE  CpuTypeOK'
<1> DEFINE k  == micro.phase.k
           ad == micro.phase.addr
           To(ph, t) == [micro EXCEPT !.phase = ph, !.temp = t]
           up == Plus(arch.sp, 1)
           w  == Pair(v, micro.phase.lo)
           r  == AluVal(v, v)
<1>1. /\ ad \in Word /\ up \in Word /\ w \in Word /\ micro.phase.lo \in Byte
      /\ r \in Byte /\ AluFlag(v, v) \in BOOLEAN /\ Byte \subseteq Word
  BY PairWord, PlusWord, WordNat, ByteSubsetWord, AluAssumption
     DEF CpuTypeOK, ArchState, MicroState, Phase
<1>2. ASSUME NEW ph \in Phase, NEW t \in Word
      PROVE  /\ To(ph, t) \in MicroState
             /\ \A b \in Byte : [To(ph, t) EXCEPT !.imm_hi = b] \in MicroState
  BY DEF CpuTypeOK, MicroState
<1>3. \A s \in Word : [arch EXCEPT !.sp = s] \in ArchState
  BY DEF CpuTypeOK, ArchState
<1>4. k \in ReadConts
  BY DEF LatchMatchesPhase, HandleReadMem
<1>5. CASE k \in {"LoadReg8", "LoadAFromAddr"}
  <2>1. [arch EXCEPT !.a = v, !.hl = HlAdjusted] \in ArchState
    BY HlAdjustedType DEF CpuTypeOK, ArchState
  <2>2. To(Fetch, ad) \in MicroState
    BY <1>1, <1>2, PhaseTypes
  <2> QED
    BY <1>5, <2>1, <2>2, CommitType DEF HandleReadMem
<1>6. CASE k \in {"PopLo", "RetLo"}
  <2> DEFINE ph == [ReadMem(up, IF k = "PopLo" THEN "PopHi" ELSE "RetHi") EXCEPT !.lo = v]
  <2>1. ph \in Phase
    BY <1>1, PhaseTypes DEF Phase, ReadConts
  <2>2. To(ph, ad) \in MicroState /\ [arch EXCEPT !.sp = up] \in ArchState
    BY <1>1, <1>2, <1>3, <2>1
  <2> QED
    BY <1>6, <2>2, CommitType DEF HandleReadMem
<1>7. CASE k = "PopHi"
  <2>1. [arch EXCEPT !.sp = up, !.hl = w] \in ArchState
    BY <1>1 DEF CpuTypeOK, ArchState
  <2>2. [To(Fetch, w) EXCEPT !.imm_hi = 0] \in MicroState
    BY <1>1, <1>2, PhaseTypes, SmallBytes
  <2> QED
    BY <1>7, <2>1, <2>2, CommitType DEF HandleReadMem
<1>8. CASE k = "RetHi"
  <2> DEFINE mi == IF micro.decoded \in {"Ret", "Reti", "RetCc"}
                   THEN [To(Execute(micro.decoded), w) EXCEPT !.imm_hi = 2]
                   ELSE [To(Fetch, w) EXCEPT !.imm_hi = 0]
  <2>1. micro.decoded \in AllOps
    BY DEF CpuTypeOK, MicroState
  <2>2. mi \in MicroState /\ [arch EXCEPT !.sp = up] \in ArchState
    BY <1>1, <1>2, <1>3, <2>1, PhaseTypes, SmallBytes
  <2> QED
    BY <1>8, <2>2, CommitType DEF HandleReadMem
<1>9. CASE k = "AluFromMem"
  <2>1. To(Execute(micro.decoded), v) \in MicroState /\ arch \in ArchState
    BY <1>1, <1>2, PhaseTypes DEF CpuTypeOK, MicroState
  <2> QED
    BY <1>9, <2>1, CommitType DEF HandleReadMem
<1>10. CASE k = "BitOpFromMem"
  <2>1. [arch EXCEPT !.cc = AluFlag(v, v)] \in ArchState
    BY <1>1 DEF CpuTypeOK, ArchState
  <2>2. To(IF micro.decoded = "CbBit" THEN Fetch ELSE WriteMem(ad, r, "StoreDone"), r)
          \in MicroState
    BY <1>1, <1>2, PhaseTypes DEF WriteConts
  <2> QED
    BY <1>10, <2>1, <2>2, CommitType DEF HandleReadMem
<1> QED
  BY <1>4, <1>5, <1>6, <1>7, <1>8, <1>9, <1>10 DEF ReadConts

(* A memory write keeps the types (handle_write_mem). *)
LEMMA WriteMemType ==
    ASSUME CpuTypeOK, LatchMatchesPhase, HandleWriteMem
    PROVE  CpuTypeOK'
<1> DEFINE k  == micro.phase.k
           ad == micro.phase.addr
           aux == micro.phase.aux
           op == micro.decoded
           To(ph, t) == [micro EXCEPT !.phase = ph, !.temp = t]
<1>1. ad \in Word /\ aux \in Word /\ micro.phase.lo \in Byte
      /\ micro.temp \in Word /\ Lo(aux) \in Byte /\ Minus(ad, 1) \in Word
  BY LoByte, MinusWord, WordNat DEF CpuTypeOK, MicroState, Phase
<1>2. \A ph \in Phase, t \in Word : To(ph, t) \in MicroState
  BY DEF CpuTypeOK, MicroState
<1>3. [arch EXCEPT !.sp = ad] \in ArchState /\ arch \in ArchState
  BY <1>1 DEF CpuTypeOK, ArchState
<1>4. k \in WriteConts
  BY DEF LatchMatchesPhase, HandleWriteMem
<1>5. CASE k = "StoreDone"
  <2>1. [arch EXCEPT
           !.hl = HlAdjusted,
           !.sp = IF op \in {"Push", "Call", "CallCc", "Rst"} THEN ad ELSE @,
           !.pc = IF op \in {"Call", "CallCc", "Rst"} THEN micro.temp ELSE @] \in ArchState
    BY <1>1, HlAdjustedType DEF CpuTypeOK, ArchState
  <2>2. To(Fetch, ad) \in MicroState
    BY <1>1, <1>2, PhaseTypes
  <2> QED
    BY <1>5, <2>1, <2>2, CommitType DEF HandleWriteMem
<1>6. CASE k = "StoreSpHi"
  <2>1. To(WriteMem(aux, micro.phase.lo, "StoreDone"), aux) \in MicroState
    BY <1>1, <1>2, PhaseTypes DEF WriteConts
  <2> QED
    BY <1>3, <1>6, <2>1, CommitType DEF HandleWriteMem
<1>7. CASE k = "PushHi"
  <2>1. To(WriteMem(Minus(ad, 1), Lo(aux), "StoreDone"), micro.temp) \in MicroState
    BY <1>1, <1>2, PhaseTypes DEF WriteConts
  <2> QED
    BY <1>3, <1>7, <2>1, CommitType DEF HandleWriteMem
<1>8. CASE k = "PushLo"
  <2>1. To(WriteMem(aux, micro.phase.lo, "StoreDone"), aux) \in MicroState
    BY <1>1, <1>2, PhaseTypes DEF WriteConts
  <2> QED
    BY <1>3, <1>8, <2>1, CommitType DEF HandleWriteMem
<1> QED
  BY <1>4, <1>5, <1>6, <1>7, <1>8 DEF WriteConts

(* The five cycles of a dispatch keep the types (handle_service_interrupt). *)
LEMMA ServiceType ==
    ASSUME CpuTypeOK, LatchMatchesPhase, HandleServiceInterrupt
    PROVE  CpuTypeOK'
<1> DEFINE i == micro.phase.aux
           Next(sub) == [micro EXCEPT !.phase = Service(i, sub)]
<1>1. i \in Irq /\ micro.phase.k \in IrqPhases
  BY DEF LatchMatchesPhase, HandleServiceInterrupt
<1>2. \A sub \in IrqPhases : Next(sub) \in MicroState
  BY <1>1, PhaseTypes DEF CpuTypeOK, MicroState
<1>3. [micro EXCEPT !.phase = Fetch] \in MicroState
  BY PhaseTypes DEF CpuTypeOK, MicroState
<1>4. /\ arch \in ArchState /\ [arch EXCEPT !.sp = Minus(arch.sp, 1)] \in ArchState
      /\ [arch EXCEPT !.pc = Vector(i)] \in ArchState
  BY <1>1, MinusWord, VectorWord, WordNat DEF CpuTypeOK, ArchState
<1> QED
  BY <1>1, <1>2, <1>3, <1>4, CommitType DEF HandleServiceInterrupt, IrqPhases

(* What the internal cycles write: one register pair or flag, and one of four *)
(* next phases.                                                               *)
LEMMA ArchUpdates ==
    ASSUME CpuTypeOK
    PROVE  \A w \in Word, b \in Byte, c \in BOOLEAN :
              /\ [arch EXCEPT !.pc = w] \in ArchState
              /\ [arch EXCEPT !.sp = w] \in ArchState
              /\ [arch EXCEPT !.hl = w] \in ArchState
              /\ [arch EXCEPT !.hl = w, !.cc = c] \in ArchState
              /\ [arch EXCEPT !.a = b, !.cc = c] \in ArchState
              /\ [arch EXCEPT !.cc = c] \in ArchState
              /\ arch \in ArchState
BY DEF CpuTypeOK, ArchState

(* Updates of the latches by well-typed values are well typed. *)
LEMMA MicroUpdates ==
    ASSUME CpuTypeOK
    PROVE  \A ph \in Phase, t \in Word, b \in Byte :
              /\ [micro EXCEPT !.phase = ph, !.imm_hi = b, !.temp = t] \in MicroState
              /\ [micro EXCEPT !.phase = ph, !.temp = t] \in MicroState
              /\ [micro EXCEPT !.phase = ph, !.imm_hi = b] \in MicroState
              /\ [micro EXCEPT !.phase = ph] \in MicroState
BY DEF CpuTypeOK, MicroState

(* The way back to the fetch of an internal cycle is well typed. *)
LEMMA ToFetchType == ASSUME CpuTypeOK, NEW t \in Word PROVE ToFetch(t) \in MicroState
BY MicroUpdates, PhaseTypes, SmallBytes DEF ToFetch

(* A result of the arithmetic unit is committed with its type. *)
LEMMA AluStepType ==
    ASSUME CpuTypeOK, NEW x \in Byte, NEW y \in Byte, Alu(x, y)
    PROVE  CpuTypeOK'
<1>1. AluVal(x, y) \in Byte /\ AluVal(x, y) \in Word /\ AluFlag(x, y) \in BOOLEAN
  BY AluAssumption, ByteSubsetWord
<1>2. [arch EXCEPT !.a = AluVal(x, y), !.cc = AluFlag(x, y)] \in ArchState
  BY <1>1, ArchUpdates
<1>3. [micro EXCEPT !.phase = Fetch, !.temp = AluVal(x, y)] \in MicroState
  BY <1>1, MicroUpdates, PhaseTypes
<1> QED
  BY <1>2, <1>3, CommitType DEF Alu

(* The 8-bit arithmetic cycle keeps the types (execute_alu_delta). *)
LEMMA ExecuteAluType == ASSUME CpuTypeOK, ExecuteAlu PROVE CpuTypeOK'
<1>1. /\ arch.a \in Byte /\ Lo(arch.hl) \in Byte /\ micro.imm_lo \in Byte
      /\ Lo(micro.temp) \in Byte
  BY LoByte, WordNat DEF CpuTypeOK, ArchState, MicroState
<1> QED
  BY <1>1, AluStepType DEF ExecuteAlu

(* The arithmetic cycle of INC and DEC (HL) keeps the types (execute_alu_delta). *)
LEMMA ExecuteIncMemType == ASSUME CpuTypeOK, ExecuteIncMem PROVE CpuTypeOK'
<1> DEFINE x == Lo(micro.temp)
<1>1. x \in Byte /\ arch.hl \in Word
  BY LoByte, WordNat DEF CpuTypeOK, ArchState, MicroState
<1>2. AluVal(x, x) \in Byte /\ AluVal(x, x) \in Word /\ AluFlag(x, x) \in BOOLEAN
  BY <1>1, AluAssumption, ByteSubsetWord
<1>3. WriteMem(arch.hl, AluVal(x, x), "StoreDone") \in Phase
  BY <1>1, <1>2, PhaseTypes DEF WriteConts
<1>4. [arch EXCEPT !.cc = AluFlag(x, x)] \in ArchState
  BY <1>2, ArchUpdates
<1>5. [micro EXCEPT !.phase = WriteMem(arch.hl, AluVal(x, x), "StoreDone"),
                    !.temp = AluVal(x, x)] \in MicroState
  BY <1>2, <1>3, MicroUpdates
<1> QED
  BY <1>4, <1>5, CommitType DEF ExecuteIncMem

(* The 16-bit arithmetic cycles keep the types (execute_word_alu_delta). *)
LEMMA ExecuteWordAluType == ASSUME CpuTypeOK, ExecuteWordAlu PROVE CpuTypeOK'
<1> DEFINE off == SignExtend(micro.imm_lo)
           sum == Plus(arch.sp, off)
           carry == AluFlag(Lo(arch.sp), micro.imm_lo)
<1>1. arch.hl \in Word /\ arch.sp \in Word /\ micro.imm_lo \in Byte /\ micro.temp \in Word
  BY DEF CpuTypeOK, ArchState, MicroState
<1>2. sum \in Word
  BY <1>1, SignExtendNat, PlusWord, WordNat
<1>3. carry \in BOOLEAN /\ AluFlag(Hi(arch.hl), Hi(arch.hl)) \in BOOLEAN
  BY <1>1, LoByte, HiByte, WordNat, AluAssumption
<1>4. /\ Plus(arch.hl, arch.hl) \in Word /\ Plus(arch.hl, 1) \in Word
      /\ Plus(arch.sp, 1) \in Word
      /\ Minus(arch.hl, 1) \in Word /\ Minus(arch.sp, 1) \in Word
  BY <1>1, PlusWord, MinusWord, WordNat
<1>5. [micro EXCEPT !.phase = Execute(micro.decoded), !.imm_hi = 1, !.temp = sum] \in MicroState
  <2>1. Execute(micro.decoded) \in Phase
    BY PhaseTypes DEF CpuTypeOK, MicroState
  <2> QED
    BY <1>2, <2>1, MicroUpdates, SmallBytes
<1>6. \A t \in Word : ToFetch(t) \in MicroState
  BY ToFetchType
<1>7. /\ [arch EXCEPT !.hl = Plus(@, @), !.cc = AluFlag(Hi(arch.hl), Hi(arch.hl))] \in ArchState
      /\ [arch EXCEPT !.hl = Plus(@, 1)] \in ArchState
      /\ [arch EXCEPT !.hl = Minus(@, 1)] \in ArchState
      /\ [arch EXCEPT !.sp = Plus(@, 1)] \in ArchState
      /\ [arch EXCEPT !.sp = Minus(@, 1)] \in ArchState
      /\ [arch EXCEPT !.cc = carry] \in ArchState
      /\ [arch EXCEPT !.sp = micro.temp] \in ArchState
      /\ [arch EXCEPT !.hl = sum, !.cc = carry] \in ArchState
  BY <1>1, <1>2, <1>3, <1>4, ArchUpdates
<1> QED
  BY <1>1, <1>2, <1>4, <1>5, <1>6, <1>7, CommitType DEF ExecuteWordAlu

(* The first push of a call is a well-typed phase (execute_control_flow_delta). *)
LEMMA PushReturnType == ASSUME CpuTypeOK, NEW t \in Word PROVE PushReturn(t) \in MicroState
<1> DEFINE ph == [WriteMem(Minus(arch.sp, 1), Hi(arch.pc), "PushHi") EXCEPT !.aux = arch.pc]
<1>1. arch.pc \in Word /\ Hi(arch.pc) \in Byte /\ Minus(arch.sp, 1) \in Word
  BY HiByte, MinusWord, WordNat DEF CpuTypeOK, ArchState
<1>2. ph \in Phase
  BY <1>1, PhaseTypes DEF Phase, WriteConts
<1> QED
  BY <1>2, MicroUpdates, SmallBytes DEF PushReturn

(* A branch not taken keeps the types (condition_gated_phase). *)
LEMMA NotTakenType == ASSUME CpuTypeOK, NotTaken PROVE CpuTypeOK'
BY ArchUpdates, MicroUpdates, PhaseTypes, SmallBytes, SmallWords, CommitType DEF NotTaken

(* Jumps, calls and restarts keep the types (execute_control_flow_delta). *)
LEMMA ExecuteJumpType == ASSUME CpuTypeOK, ExecuteJump PROVE CpuTypeOK'
<1> DEFINE target == Plus(arch.pc, SignExtend(micro.imm_lo))
<1>1. target \in Word /\ micro.temp \in Word /\ RstVector \in Word
  BY SignExtendNat, PlusWord, WordNat, VectorAssumption DEF CpuTypeOK, ArchState, MicroState
<1>2. /\ [arch EXCEPT !.pc = target] \in ArchState
      /\ [arch EXCEPT !.pc = micro.temp] \in ArchState /\ arch \in ArchState
  BY <1>1, ArchUpdates, SmallBytes
<1>3. \A t \in Word : ToFetch(t) \in MicroState /\ PushReturn(t) \in MicroState
  BY ToFetchType, PushReturnType
<1> QED
  BY <1>1, <1>2, <1>3, NotTakenType, CommitType DEF ExecuteJump

(* Returns keep the types (execute_control_flow_delta). *)
LEMMA ExecuteReturnType == ASSUME CpuTypeOK, ExecuteReturn PROVE CpuTypeOK'
<1>1. micro.temp \in Word /\ arch.sp \in Word
  BY DEF CpuTypeOK, ArchState, MicroState
<1>2. [arch EXCEPT !.pc = micro.temp] \in ArchState /\ arch \in ArchState
  BY <1>1, ArchUpdates, SmallBytes
<1>3. ToFetch(micro.temp) \in MicroState
  BY <1>1, ToFetchType
<1>4. [micro EXCEPT !.phase = ReadMem(arch.sp, "RetLo"), !.imm_hi = 0] \in MicroState
  BY <1>1, PhaseTypes, MicroUpdates, SmallBytes DEF ReadConts
<1> QED
  BY <1>2, <1>3, <1>4, NotTakenType, CommitType, CommitImeType DEF ExecuteReturn, ImeState

(* PUSH and LD SP,HL keep the types (execute_stack_delta). *)
LEMMA ExecuteStackAndLoadType == ASSUME CpuTypeOK, ExecuteStackAndLoad PROVE CpuTypeOK'
<1> DEFINE ph == [WriteMem(Minus(arch.sp, 1), Hi(arch.hl), "PushLo")
                    EXCEPT !.lo = Lo(arch.hl), !.aux = Minus(arch.sp, 2)]
<1>1. /\ arch.hl \in Word /\ Hi(arch.hl) \in Byte /\ Lo(arch.hl) \in Byte
      /\ Minus(arch.sp, 1) \in Word /\ Minus(arch.sp, 2) \in Word
  BY LoByte, HiByte, MinusWord, WordNat DEF CpuTypeOK, ArchState
<1>2. ph \in Phase
  BY <1>1, PhaseTypes DEF Phase, WriteConts
<1>3. [micro EXCEPT !.phase = ph, !.temp = arch.hl] \in MicroState
  BY <1>1, <1>2, MicroUpdates
<1>4. [arch EXCEPT !.sp = arch.hl] \in ArchState /\ arch \in ArchState
  BY <1>1, ArchUpdates
<1>5. [micro EXCEPT !.phase = Fetch] \in MicroState
  BY PhaseTypes DEF CpuTypeOK, MicroState
<1> QED
  BY <1>3, <1>4, <1>5, CommitType DEF ExecuteStackAndLoad

(* The reset state is well typed (skipboot_arch_state). *)
LEMMA ResetTypes == ResetArch \in ArchState /\ ResetMicro \in MicroState
BY SmallWords, SmallBytes, PhaseTypes
   DEF ArchState, MicroState, ResetArch, ResetMicro, ImeState, HaltState, AllOps, Ops, FetchOps
-----------------------------------------------------------------------------
(* Each handler keeps the sequencer consistent.  A commit that goes back to   *)
(* the fetch, or to a phase outside Execute, settles most of it.              *)

SeqInv == CpuTypeOK /\ SequencerConsistent

(* A step that ends at the fetch leaves no latch to be checked. *)
LEMMA FetchPhaseConsistent ==
    ASSUME micro'.phase = Fetch PROVE LatchMatchesPhase' /\ CycleLatchValid'
BY DEF LatchMatchesPhase, CycleLatchValid, Continues, Fetch, MkPhase

(* A step that goes to a read whose continuation fits the decoded latch keeps the latches. *)
LEMMA ReadPhaseConsistent ==
    ASSUME NEW ad, NEW k \in ReadConts, micro'.phase = ReadMem(ad, k),
           k = "LoadReg8" => micro'.decoded \in {"LdRHl", "LdAHli", "LdAHld"},
           k = "LoadAFromAddr" => micro'.decoded \in {"LdAPp", "LdhR", "LdANn"},
           k = "AluFromMem" => micro'.decoded \in {"AluHl", "IncMem"},
           k = "BitOpFromMem" => micro'.decoded \in {"CbBit", "CbRmw"},
           k \in {"PopLo", "PopHi"} => micro'.decoded = "Pop",
           k \in {"RetLo", "RetHi"} => micro'.decoded \in {"Ret", "Reti", "RetCc"}
    PROVE  LatchMatchesPhase' /\ CycleLatchValid'
BY DEF LatchMatchesPhase, CycleLatchValid, Continues, ReadMem, MkPhase

(* The name and the continuation of a write, also with its further fields set. *)
LEMMA WritePhaseFields ==
    \A ad, d, k, l, x :
       /\ WriteMem(ad, d, k).n = "WriteMem" /\ WriteMem(ad, d, k).k = k
       /\ [WriteMem(ad, d, k) EXCEPT !.lo = l, !.aux = x].n = "WriteMem"
       /\ [WriteMem(ad, d, k) EXCEPT !.lo = l, !.aux = x].k = k
       /\ [WriteMem(ad, d, k) EXCEPT !.aux = x].n = "WriteMem"
       /\ [WriteMem(ad, d, k) EXCEPT !.aux = x].k = k
BY DEF WriteMem, MkPhase

(* A step that goes to a write whose continuation fits the decoded latch keeps the latches. *)
LEMMA WritePhaseConsistent ==
    ASSUME NEW k \in WriteConts, micro'.phase.n = "WriteMem", micro'.phase.k = k,
           k = "StoreDone" => micro'.decoded \in
                 WriteHlOps \cup {"LdHlN", "LdhW", "LdNnA", "LdNnSp", "IncMem", "CbRmw",
                                  "Push", "Call", "CallCc", "Rst"},
           k = "StoreSpHi" => micro'.decoded = "LdNnSp",
           k = "PushHi" => micro'.decoded \in {"Call", "CallCc", "Rst"},
           k = "PushLo" => micro'.decoded = "Push"
    PROVE  LatchMatchesPhase' /\ CycleLatchValid'
BY DEF LatchMatchesPhase, CycleLatchValid, Continues

(* A step in the middle of an instruction leaves the interrupt state alone: a *)
(* pending enable that reaches the fetch matures there.                       *)
LEMMA QuietStep ==
    ASSUME SeqInv, micro.phase.n \notin {"Fetch", "Halted"}, arch'.halt = arch.halt,
           arch'.ime = "PendingEnable" => micro'.phase.n # "Fetch",
           micro'.phase.n \notin {"Halted", "ServiceInterrupt"}
    PROVE  InterruptStateConsistent'
<1>1. arch.halt = "Running"
  BY DEF SeqInv, SequencerConsistent, InterruptStateConsistent, AtFetch, CpuTypeOK,
     ArchState, HaltState
<1> QED
  BY <1>1 DEF InterruptStateConsistent, AtFetch

(* The classes of instructions are disjoint, so each has its own phase after  *)
(* the fetch.                                                                 *)
LEMMA OpClasses ==
    /\ Imm8Ops = {"LdRN", "LdHlN", "LdhR", "LdhW", "AluN", "Jr", "JrCc", "AddSp", "LdHlSp"}
    /\ Imm16Ops = {"LdRrNn", "LdSpNn", "Jp", "JpCc", "Call", "CallCc", "LdANn", "LdNnA", "LdNnSp"}
    /\ ReadHlOps = {"LdRHl", "LdAHli", "LdAHld", "LdAPp", "AluHl", "IncMem"}
    /\ PopOps = {"Pop", "Ret", "Reti"}
<1>1. Imm8Ops = {"LdRN", "LdHlN", "LdhR", "LdhW", "AluN", "Jr", "JrCc", "AddSp", "LdHlSp"}
  BY DEF Imm8Ops, Imm8Cont
<1>2. Imm16Ops = {"LdRrNn", "LdSpNn", "Jp", "JpCc", "Call", "CallCc", "LdANn", "LdNnA", "LdNnSp"}
  BY DEF Imm16Ops, Imm16Cont
<1>3. ReadHlOps = {"LdRHl", "LdAHli", "LdAHld", "LdAPp", "AluHl", "IncMem"}
  BY DEF ReadHlOps, ReadHlCont
<1>4. PopOps = {"Pop", "Ret", "Reti"}
  BY DEF PopOps, PopCont
<1> QED
  BY <1>1, <1>2, <1>3, <1>4

(* The phase after the fetch, class by class (the fetch_phase functions of cpu/control). *)
LEMMA AfterFetch ==
    ASSUME NEW op \in Ops
    PROVE  /\ op \in FetchOps => PhaseAfterFetch(op) = Fetch
           /\ op \in ExecOps => PhaseAfterFetch(op) = Execute(op)
           /\ op \in Imm8Ops => PhaseAfterFetch(op) = MkPhase("ReadImm8", Imm8Cont[op])
           /\ op \in Imm16Ops => PhaseAfterFetch(op) = MkPhase("ReadImm16Lo", Imm16Cont[op])
           /\ op \in ReadHlOps => PhaseAfterFetch(op) = ReadMem(arch.hl, ReadHlCont[op])
           /\ op \in WriteHlOps => PhaseAfterFetch(op) = WriteMem(arch.hl, arch.a, "StoreDone")
           /\ op \in PopOps => PhaseAfterFetch(op) = ReadMem(arch.sp, PopCont[op])
           /\ op = "Cb" => PhaseAfterFetch(op) = MkPhase("FetchPrefix", "-")
<1>1. CASE op \in FetchOps
  BY <1>1, OpClasses DEF PhaseAfterFetch, FetchOps, ExecOps, WriteHlOps
<1>2. CASE op \in ExecOps
  BY <1>2, OpClasses DEF PhaseAfterFetch, FetchOps, ExecOps, WriteHlOps
<1>3. CASE op \in Imm8Ops
  BY <1>3, OpClasses DEF PhaseAfterFetch, FetchOps, ExecOps, WriteHlOps
<1>4. CASE op \in Imm16Ops
  BY <1>4, OpClasses DEF PhaseAfterFetch, FetchOps, ExecOps, WriteHlOps
<1>5. CASE op \in ReadHlOps
  BY <1>5, OpClasses DEF PhaseAfterFetch, FetchOps, ExecOps, WriteHlOps
<1>6. CASE op \in WriteHlOps
  BY <1>6, OpClasses DEF PhaseAfterFetch, FetchOps, ExecOps, WriteHlOps
<1>7. CASE op \in PopOps
  BY <1>7, OpClasses DEF PhaseAfterFetch, FetchOps, ExecOps, WriteHlOps
<1>8. CASE op = "Cb"
  BY <1>8, OpClasses DEF PhaseAfterFetch, FetchOps, ExecOps, WriteHlOps
<1> QED
  BY <1>1, <1>2, <1>3, <1>4, <1>5, <1>6, <1>7, <1>8 DEF Ops

(* The fetch sets the latch and the phase together (fetch_delta). *)
LEMMA FetchConsistent ==
    ASSUME SeqInv, NEW op \in Ops, NEW pc \in Word, AtFetch, FetchOpcode(op, pc)
    PROVE  SequencerConsistent'
<1>1. micro' = [micro EXCEPT !.phase = PhaseAfterFetch(op), !.decoded = op,
                            !.imm_hi = IF op = "RetCc" THEN 1 ELSE @]
  BY DEF FetchOpcode, Commit, CommitIme
<1>2. /\ micro'.phase = PhaseAfterFetch(op) /\ micro'.decoded = op
      /\ op = "RetCc" => micro'.imm_hi = 1
  BY <1>1 DEF SeqInv, CpuTypeOK, MicroState
<1>3. /\ LatchMatchesPhase' /\ CycleLatchValid'
      /\ micro'.phase.n \notin {"Halted", "ServiceInterrupt"}
      /\ micro'.phase.n = "Fetch" => op \in FetchOps
  <2>1. CASE op \in FetchOps
    BY <1>2, <2>1, AfterFetch, FetchPhaseConsistent DEF Fetch, MkPhase
  <2>2. CASE op \in ExecOps
    BY <1>2, <2>2, AfterFetch
       DEF ExecOps, Execute, MkPhase, LatchMatchesPhase, CycleLatchValid, Continues
  <2>3. CASE op \in Imm8Ops
    BY <1>2, <2>3, AfterFetch DEF MkPhase, LatchMatchesPhase, CycleLatchValid, Continues
  <2>4. CASE op \in Imm16Ops
    BY <1>2, <2>4, AfterFetch DEF MkPhase, LatchMatchesPhase, CycleLatchValid, Continues
  <2>5. CASE op \in ReadHlOps
    <3>1. micro'.phase = ReadMem(arch.hl, ReadHlCont[op])
      BY <1>2, <2>5, AfterFetch
    <3>2. LatchMatchesPhase' /\ CycleLatchValid'
      BY <1>2, <2>5, <3>1, ReadPhaseConsistent DEF ReadHlOps, ReadHlCont, ReadConts
    <3> QED
      BY <3>1, <3>2 DEF ReadMem, MkPhase
  <2>6. CASE op \in WriteHlOps
    <3>1. micro'.phase.n = "WriteMem" /\ micro'.phase.k = "StoreDone"
      <4>1. micro'.phase = WriteMem(arch.hl, arch.a, "StoreDone")
        BY <1>2, <2>6, AfterFetch
      <4>2. PICK ad, d, k : ad = arch.hl /\ d = arch.a /\ k = "StoreDone"
        OBVIOUS
      <4>3. WriteMem(ad, d, k).n = "WriteMem" /\ WriteMem(ad, d, k).k = k
        BY DEF WriteMem, MkPhase
      <4> QED
        BY <4>1, <4>2, <4>3
    <3> QED
      BY <1>2, <2>6, <3>1, WritePhaseConsistent DEF WriteConts
  <2>7. CASE op \in PopOps
    <3>1. micro'.phase = ReadMem(arch.sp, PopCont[op])
      BY <1>2, <2>7, AfterFetch
    <3>2. LatchMatchesPhase' /\ CycleLatchValid'
      BY <1>2, <2>7, <3>1, ReadPhaseConsistent DEF PopOps, PopCont, ReadConts
    <3> QED
      BY <3>1, <3>2 DEF ReadMem, MkPhase
  <2>8. CASE op = "Cb"
    BY <1>2, <2>8, AfterFetch DEF MkPhase, LatchMatchesPhase, CycleLatchValid, Continues
  <2> QED
    BY <2>1, <2>2, <2>3, <2>4, <2>5, <2>6, <2>7, <2>8 DEF Ops
<1>5. arch'.halt = "Running"
  BY DEF FetchOpcode, Commit, CommitIme, SeqInv, CpuTypeOK, ArchState, HaltState, AtFetch,
     SequencerConsistent, InterruptStateConsistent
<1>6. arch'.ime = "PendingEnable" /\ AtFetch' => op = "Ei"
  BY <1>1, <1>2 DEF FetchOpcode, Commit, CommitIme, SeqInv, CpuTypeOK, ArchState, AtFetch,
     ResolvedIme, InstructionComplete
<1>7. InterruptStateConsistent'
  BY <1>2, <1>3, <1>5, <1>6 DEF InterruptStateConsistent, AtFetch
<1> QED
  BY <1>3, <1>7 DEF SequencerConsistent

(* The second opcode byte replaces the latch (handle_fetch_prefix). *)
LEMMA PrefixConsistent ==
    ASSUME SeqInv, NEW op \in CbOps, HandleFetchPrefix(op)
    PROVE  SequencerConsistent'
<1> DEFINE v == AluVal(arch.a, arch.a)
<1>1. LatchMatchesPhase' /\ CycleLatchValid'
  <2>1. CASE op = "CbR"
    BY <2>1, FetchPhaseConsistent
       DEF HandleFetchPrefix, Commit, CommitIme, SeqInv, CpuTypeOK, MicroState
  <2>2. CASE op # "CbR"
    <3>1. micro'.phase = ReadMem(arch.hl, "BitOpFromMem") /\ micro'.decoded = op
      BY <2>2 DEF HandleFetchPrefix, Commit, CommitIme, SeqInv, CpuTypeOK, MicroState
    <3> QED
      BY <2>2, <3>1, ReadPhaseConsistent DEF CbOps, ReadConts
  <2> QED
    BY <2>1, <2>2
<1>2. micro'.phase.n \notin {"Halted", "ServiceInterrupt"}
  <2>1. micro'.phase \in {Fetch, ReadMem(arch.hl, "BitOpFromMem")}
    BY DEF HandleFetchPrefix, Commit, CommitIme, SeqInv, CpuTypeOK, MicroState
  <2> QED
    BY <2>1 DEF Fetch, ReadMem, MkPhase
<1>3. InterruptStateConsistent'
  BY <1>2, QuietStep DEF HandleFetchPrefix, Commit, CommitIme, ResolvedIme, InstructionComplete,
     SeqInv, CpuTypeOK, ArchState
<1> QED
  BY <1>1, <1>3 DEF SequencerConsistent

(* An 8-bit immediate goes on with its own instruction (handle_read_imm8). *)
LEMMA ReadImm8Consistent ==
    ASSUME SeqInv, NEW d \in Byte, HandleReadImm8(d)
    PROVE  SequencerConsistent'
<1> DEFINE k == micro.phase.k
           op == micro.decoded
<1>1. op \in Imm8Ops /\ k = Imm8Cont[op]
  BY DEF SeqInv, SequencerConsistent, LatchMatchesPhase, HandleReadImm8
<1>2. /\ micro'.decoded = op
      /\ k = "LoadReg8" => micro'.phase = Fetch
      /\ k = "StoreToHl" => micro'.phase = WriteMem(arch.hl, d, "StoreDone")
      /\ k = "IoOffsetReadA" => micro'.phase = ReadMem(IoAddress(d), "LoadAFromAddr")
      /\ k = "IoOffsetWriteA" => micro'.phase = WriteMem(IoAddress(d), arch.a, "StoreDone")
      /\ k = "RelativeJump" => micro'.phase \in {Execute(op), Fetch} /\ micro'.imm_hi = 0
      /\ k \in {"AluImm8", "AddSpDisp", "LoadHlSpDisp"} => micro'.phase = Execute(op)
      /\ k = "AddSpDisp" => micro'.imm_hi = 0
  BY DEF HandleReadImm8, Commit, CommitIme, SeqInv, CpuTypeOK, MicroState
<1>3. LatchMatchesPhase' /\ CycleLatchValid'
  <2>1. CASE op = "LdRN"
    BY <1>1, <1>2, <2>1, FetchPhaseConsistent DEF Imm8Cont
  <2>2. CASE op \in {"LdHlN", "LdhW"}
    <3>1. micro'.phase.n = "WriteMem" /\ micro'.phase.k = "StoreDone"
      <4>1. k = IF op = "LdHlN" THEN "StoreToHl" ELSE "IoOffsetWriteA"
        BY <1>1, <2>2 DEF Imm8Cont
      <4> QED
        BY <1>2, <4>1, WritePhaseFields
    <3> QED
      BY <1>2, <2>2, <3>1, WritePhaseConsistent DEF WriteConts
  <2>3. CASE op = "LdhR"
    <3>1. micro'.phase = ReadMem(IoAddress(d), "LoadAFromAddr")
      BY <1>1, <1>2, <2>3 DEF Imm8Cont
    <3> QED
      BY <1>2, <2>3, <3>1, ReadPhaseConsistent DEF ReadConts
  <2>4. CASE op \in {"AluN", "Jr", "JrCc", "AddSp", "LdHlSp"}
    <3>1. /\ micro'.phase \in {Execute(op), Fetch}
          /\ op = "AddSp" => micro'.imm_hi = 0
      BY <1>1, <1>2, <2>4 DEF Imm8Cont
    <3>2. CASE micro'.phase = Execute(op)
      BY <1>2, <2>4, <3>1, <3>2
         DEF Execute, MkPhase, LatchMatchesPhase, CycleLatchValid, Continues
    <3> QED
      BY <3>1, <3>2, FetchPhaseConsistent
  <2> QED
    BY <1>1, <2>1, <2>2, <2>3, <2>4, OpClasses
<1>4. micro'.phase.n \notin {"Halted", "ServiceInterrupt"}
  <2>1. k \in {"LoadReg8", "StoreToHl", "IoOffsetReadA", "IoOffsetWriteA", "RelativeJump",
               "AluImm8", "AddSpDisp", "LoadHlSpDisp"}
    BY <1>1, OpClasses DEF Imm8Cont
  <2>2. /\ Fetch.n = "Fetch" /\ Execute(op).n = "Execute"
        /\ \A ad : ReadMem(ad, "LoadAFromAddr").n = "ReadMem"
    BY DEF Fetch, Execute, ReadMem, MkPhase
  <2> QED
    BY <1>2, <2>1, <2>2, WritePhaseFields
<1>5. InterruptStateConsistent'
  BY <1>4, QuietStep DEF HandleReadImm8, Commit, CommitIme, ResolvedIme, InstructionComplete,
     SeqInv, CpuTypeOK, ArchState
<1> QED
  BY <1>3, <1>5 DEF SequencerConsistent

(* The low byte of an immediate keeps the continuation (handle_read_imm16_lo). *)
LEMMA ReadImm16LoConsistent ==
    ASSUME SeqInv, NEW d \in Byte, HandleReadImm16Lo(d)
    PROVE  SequencerConsistent'
<1>1. /\ micro'.phase.n = "ReadImm16Hi" /\ micro'.phase.k = micro.phase.k
      /\ micro'.decoded = micro.decoded
  BY DEF HandleReadImm16Lo, Commit, CommitIme, SeqInv, CpuTypeOK, MicroState, MkPhase
<1>2. LatchMatchesPhase' /\ CycleLatchValid'
  BY <1>1 DEF HandleReadImm16Lo, SeqInv, SequencerConsistent, LatchMatchesPhase,
     CycleLatchValid, Continues
<1>3. InterruptStateConsistent'
  BY <1>1, QuietStep DEF HandleReadImm16Lo, Commit, CommitIme, ResolvedIme, InstructionComplete,
     SeqInv, CpuTypeOK, ArchState
<1> QED
  BY <1>2, <1>3 DEF SequencerConsistent

(* The high byte goes on with its own instruction (handle_read_imm16_hi). *)
LEMMA ReadImm16HiConsistent ==
    ASSUME SeqInv, NEW d \in Byte, HandleReadImm16Hi(d)
    PROVE  SequencerConsistent'
<1> DEFINE k == micro.phase.k
           op == micro.decoded
           w  == Pair(d, micro.phase.lo)
<1>1. op \in Imm16Ops /\ k = Imm16Cont[op]
  BY DEF SeqInv, SequencerConsistent, LatchMatchesPhase, HandleReadImm16Hi
<1>2. /\ micro'.decoded = op
      /\ k = "LoadRegPair" => micro'.phase = Fetch
      /\ k \in {"JumpAbs", "CallTarget"} => micro'.phase \in {Execute(op), Fetch}
      /\ k = "ReadAddrToA" => micro'.phase = ReadMem(w, "LoadAFromAddr")
      /\ k = "WriteAToAddr" => micro'.phase = WriteMem(w, arch.a, "StoreDone")
      /\ k = "StoreSpToAddr" =>
            micro'.phase = [WriteMem(w, Lo(arch.sp), "StoreSpHi")
                              EXCEPT !.lo = Hi(arch.sp), !.aux = Plus(w, 1)]
  BY DEF HandleReadImm16Hi, Commit, CommitIme, SeqInv, CpuTypeOK, MicroState
<1>3. /\ LatchMatchesPhase' /\ CycleLatchValid'
      /\ micro'.phase.n \notin {"Halted", "ServiceInterrupt"}
  <2>1. CASE op \in {"LdRrNn", "LdSpNn"}
    BY <1>1, <1>2, <2>1, FetchPhaseConsistent DEF Imm16Cont, Fetch, MkPhase
  <2>2. CASE op \in {"Jp", "JpCc", "Call", "CallCc"}
    <3>1. micro'.phase \in {Execute(op), Fetch}
      BY <1>1, <1>2, <2>2 DEF Imm16Cont
    <3>2. CASE micro'.phase = Execute(op)
      BY <1>1, <1>2, <2>2, <3>2
         DEF Execute, MkPhase, LatchMatchesPhase, CycleLatchValid, Continues
    <3>3. CASE micro'.phase = Fetch
      BY <3>3, FetchPhaseConsistent DEF Fetch, MkPhase
    <3> QED
      BY <3>1, <3>2, <3>3
  <2>3. CASE op = "LdANn"
    <3>1. micro'.phase = ReadMem(w, "LoadAFromAddr")
      BY <1>1, <1>2, <2>3 DEF Imm16Cont
    <3>2. LatchMatchesPhase' /\ CycleLatchValid'
      BY <1>2, <2>3, <3>1, ReadPhaseConsistent DEF ReadConts
    <3> QED
      BY <3>1, <3>2 DEF ReadMem, MkPhase
  <2>4. CASE op \in {"LdNnA", "LdNnSp"}
    <3>1. /\ micro'.phase.n = "WriteMem"
          /\ micro'.phase.k = IF op = "LdNnA" THEN "StoreDone" ELSE "StoreSpHi"
      <4>1. k = IF op = "LdNnA" THEN "WriteAToAddr" ELSE "StoreSpToAddr"
        BY <1>1, <2>4 DEF Imm16Cont
      <4>2. CASE op = "LdNnA"
        <5>1. micro'.phase = WriteMem(w, arch.a, "StoreDone")
          BY <1>2, <4>1, <4>2
        <5> QED
          BY <4>2, <5>1, WritePhaseFields
      <4>3. CASE op = "LdNnSp"
        <5>1. micro'.phase = [WriteMem(w, Lo(arch.sp), "StoreSpHi")
                                EXCEPT !.lo = Hi(arch.sp), !.aux = Plus(w, 1)]
          BY <1>2, <4>1, <4>3
        <5> QED
          BY <4>3, <5>1, WritePhaseFields
      <4> QED
        BY <2>4, <4>2, <4>3
    <3> QED
      BY <1>2, <2>4, <3>1, WritePhaseConsistent DEF WriteConts
  <2> QED
    BY <1>1, <2>1, <2>2, <2>3, <2>4, OpClasses
<1>4. InterruptStateConsistent'
  BY <1>3, QuietStep DEF HandleReadImm16Hi, Commit, CommitIme, ResolvedIme, InstructionComplete,
     SeqInv, CpuTypeOK, ArchState
<1> QED
  BY <1>3, <1>4 DEF SequencerConsistent

(* A read goes on with its own instruction and the right cycle count (handle_read_mem). *)
LEMMA ReadMemConsistent ==
    ASSUME SeqInv, NEW v \in Byte, HandleReadMem(v)
    PROVE  SequencerConsistent'
<1> DEFINE k  == micro.phase.k
           op == micro.decoded
           up == Plus(arch.sp, 1)
           r  == AluVal(v, v)
<1>1. k \in ReadConts
  BY DEF SeqInv, SequencerConsistent, LatchMatchesPhase, HandleReadMem
<1>2. /\ micro'.decoded = op
      /\ k \in {"LoadReg8", "LoadAFromAddr", "PopHi"} => micro'.phase = Fetch
      /\ k = "PopLo" => micro'.phase = [ReadMem(up, "PopHi") EXCEPT !.lo = v]
      /\ k = "RetLo" => micro'.phase = [ReadMem(up, "RetHi") EXCEPT !.lo = v]
      /\ k = "RetHi" /\ op \in {"Ret", "Reti", "RetCc"} =>
            micro'.phase = Execute(op) /\ micro'.imm_hi = 2
      /\ k = "AluFromMem" => micro'.phase = Execute(op)
      /\ k = "BitOpFromMem" /\ op = "CbBit" => micro'.phase = Fetch
      /\ k = "BitOpFromMem" /\ op # "CbBit" =>
            micro'.phase = WriteMem(micro.phase.addr, r, "StoreDone")
  <2>1. CASE k \in {"LoadReg8", "LoadAFromAddr"}
    BY <2>1 DEF HandleReadMem, Commit, CommitIme, SeqInv, CpuTypeOK, MicroState
  <2>2. CASE k = "PopLo"
    BY <2>2 DEF HandleReadMem, Commit, CommitIme, SeqInv, CpuTypeOK, MicroState
  <2>3. CASE k = "RetLo"
    BY <2>3 DEF HandleReadMem, Commit, CommitIme, SeqInv, CpuTypeOK, MicroState
  <2>4. CASE k = "PopHi"
    BY <2>4 DEF HandleReadMem, Commit, CommitIme, SeqInv, CpuTypeOK, MicroState
  <2>5. CASE k = "RetHi"
    BY <2>5 DEF HandleReadMem, Commit, CommitIme, SeqInv, CpuTypeOK, MicroState
  <2>6. CASE k = "AluFromMem"
    BY <2>6 DEF HandleReadMem, Commit, CommitIme, SeqInv, CpuTypeOK, MicroState
  <2>7. CASE k = "BitOpFromMem"
    BY <2>7 DEF HandleReadMem, Commit, CommitIme, SeqInv, CpuTypeOK, MicroState
  <2> QED
    BY <1>1, <2>1, <2>2, <2>3, <2>4, <2>5, <2>6, <2>7 DEF ReadConts
<1>3. /\ k \in {"PopLo", "PopHi"} => op = "Pop"
      /\ k \in {"RetLo", "RetHi"} => op \in {"Ret", "Reti", "RetCc"}
      /\ k = "AluFromMem" => op \in {"AluHl", "IncMem"}
      /\ k = "BitOpFromMem" => op \in {"CbBit", "CbRmw"}
  BY DEF SeqInv, SequencerConsistent, LatchMatchesPhase, Continues, HandleReadMem
<1>4. /\ LatchMatchesPhase' /\ CycleLatchValid'
      /\ micro'.phase.n \notin {"Halted", "ServiceInterrupt"}
  <2>1. CASE micro'.phase = Fetch
    BY <2>1, FetchPhaseConsistent DEF Fetch, MkPhase
  <2>2. CASE k \in {"PopLo", "RetLo"}
    <3>1. /\ micro'.phase.n = "ReadMem"
          /\ k = "PopLo" => micro'.phase.k = "PopHi"
          /\ k = "RetLo" => micro'.phase.k = "RetHi"
      BY <1>2, <2>2 DEF ReadMem, MkPhase
    <3> QED
      BY <1>2, <1>3, <2>2, <3>1
         DEF LatchMatchesPhase, CycleLatchValid, Continues, ReadConts
  <2>3. CASE k = "RetHi"
    BY <1>2, <1>3, <2>3 DEF Execute, MkPhase, LatchMatchesPhase, CycleLatchValid, Continues, ExecOps
  <2>4. CASE k = "AluFromMem"
    BY <1>2, <1>3, <2>4 DEF Execute, MkPhase, LatchMatchesPhase, CycleLatchValid, Continues
  <2>5. CASE k = "BitOpFromMem" /\ op = "CbRmw"
    <3>1. micro'.phase.n = "WriteMem" /\ micro'.phase.k = "StoreDone"
      BY <1>2, <2>5, WritePhaseFields
    <3> QED
      BY <1>2, <2>5, <3>1, WritePhaseConsistent DEF WriteConts
  <2> QED
    BY <1>1, <1>2, <1>3, <2>1, <2>2, <2>3, <2>4, <2>5 DEF ReadConts
<1>5. InterruptStateConsistent'
  <2>1. arch'.halt = arch.halt /\ (arch'.ime = "PendingEnable" => micro'.phase.n # "Fetch")
    BY <1>1 DEF HandleReadMem, Commit, CommitIme, ResolvedIme, InstructionComplete, SeqInv,
       CpuTypeOK, ArchState, ReadConts
  <2> QED
    BY <1>4, <2>1, QuietStep DEF HandleReadMem
<1> QED
  BY <1>4, <1>5 DEF SequencerConsistent

(* A write goes on with its own instruction (handle_write_mem). *)
LEMMA WriteMemConsistent ==
    ASSUME SeqInv, HandleWriteMem
    PROVE  SequencerConsistent'
<1> DEFINE k  == micro.phase.k
           op == micro.decoded
<1>1. k \in WriteConts
  BY DEF SeqInv, SequencerConsistent, LatchMatchesPhase, HandleWriteMem
<1>2. /\ micro'.decoded = op
      /\ k = "StoreDone" => micro'.phase = Fetch
      /\ k \in {"StoreSpHi", "PushLo"} =>
            micro'.phase = WriteMem(micro.phase.aux, micro.phase.lo, "StoreDone")
      /\ k = "PushHi" =>
            micro'.phase = WriteMem(Minus(micro.phase.addr, 1), Lo(micro.phase.aux), "StoreDone")
  <2>1. CASE k = "StoreDone"
    BY <2>1 DEF HandleWriteMem, Commit, CommitIme, SeqInv, CpuTypeOK, MicroState
  <2>2. CASE k = "StoreSpHi"
    BY <2>2 DEF HandleWriteMem, Commit, CommitIme, SeqInv, CpuTypeOK, MicroState
  <2>3. CASE k = "PushHi"
    BY <2>3 DEF HandleWriteMem, Commit, CommitIme, SeqInv, CpuTypeOK, MicroState
  <2>4. CASE k = "PushLo"
    BY <2>4 DEF HandleWriteMem, Commit, CommitIme, SeqInv, CpuTypeOK, MicroState
  <2> QED
    BY <1>1, <2>1, <2>2, <2>3, <2>4 DEF WriteConts
<1>3. /\ k = "StoreSpHi" => op = "LdNnSp"
      /\ k = "PushHi" => op \in {"Call", "CallCc", "Rst"}
      /\ k = "PushLo" => op = "Push"
  BY DEF SeqInv, SequencerConsistent, LatchMatchesPhase, Continues, HandleWriteMem
<1>4. /\ LatchMatchesPhase' /\ CycleLatchValid'
      /\ micro'.phase.n \notin {"Halted", "ServiceInterrupt"}
  <2>1. CASE k = "StoreDone"
    BY <1>2, <2>1, FetchPhaseConsistent DEF Fetch, MkPhase
  <2>2. CASE k # "StoreDone"
    <3>1. micro'.phase.n = "WriteMem" /\ micro'.phase.k = "StoreDone"
      BY <1>1, <1>2, <2>2, WritePhaseFields DEF WriteConts
    <3>2. op \in {"LdNnSp", "Push", "Call", "CallCc", "Rst"}
      BY <1>1, <1>3, <2>2 DEF WriteConts
    <3> QED
      BY <1>2, <3>1, <3>2, WritePhaseConsistent DEF WriteConts
  <2> QED
    BY <2>1, <2>2
<1>5. InterruptStateConsistent'
  <2>1. arch'.halt = arch.halt /\ (arch'.ime = "PendingEnable" => micro'.phase.n # "Fetch")
    BY <1>1 DEF HandleWriteMem, Commit, CommitIme, ResolvedIme, InstructionComplete, SeqInv,
       CpuTypeOK, ArchState, WriteConts
  <2> QED
    BY <1>4, <2>1, QuietStep DEF HandleWriteMem
<1> QED
  BY <1>4, <1>5 DEF SequencerConsistent

(* A dispatch runs through its cycles with IME off (handle_service_interrupt). *)
LEMMA ServiceConsistent ==
    ASSUME SeqInv, HandleServiceInterrupt
    PROVE  SequencerConsistent'
<1>1. micro.phase.aux \in Irq /\ micro.phase.k \in IrqPhases /\ arch.ime = "Disabled"
  BY DEF SeqInv, SequencerConsistent, LatchMatchesPhase, InterruptStateConsistent,
     HandleServiceInterrupt
<1>2. arch'.halt = "Running" /\ arch'.ime = "Disabled"
  BY <1>1 DEF HandleServiceInterrupt, Commit, CommitIme, ResolvedIme, SeqInv, CpuTypeOK,
     ArchState, HaltState, AtFetch, IrqPhases, SequencerConsistent, InterruptStateConsistent
<1>3. micro'.phase = Fetch \/ \E sub \in IrqPhases : micro'.phase = Service(micro.phase.aux, sub)
  BY <1>1 DEF HandleServiceInterrupt, Commit, CommitIme, SeqInv, CpuTypeOK, MicroState, IrqPhases
<1>4. CASE micro'.phase = Fetch
  BY <1>2, <1>4, FetchPhaseConsistent
     DEF SequencerConsistent, InterruptStateConsistent, Fetch, MkPhase
<1>5. CASE micro'.phase # Fetch
  <2>1. /\ micro'.phase.n = "ServiceInterrupt" /\ micro'.phase.k \in IrqPhases
        /\ micro'.phase.aux \in Irq
    BY <1>1, <1>3, <1>5 DEF Service, MkPhase
  <2> QED
    BY <1>2, <2>1 DEF SequencerConsistent, InterruptStateConsistent, AtFetch,
       LatchMatchesPhase, CycleLatchValid, Continues
<1> QED
  BY <1>4, <1>5

(* The entry of a dispatch turns IME off and ends HALT (service_entry_output). *)
LEMMA InterruptConsistent ==
    ASSUME SeqInv, NEW pending \in SUBSET Irq, HandleInterrupt(pending)
    PROVE  SequencerConsistent'
<1>1. IrqSelected(pending) \in Irq
  BY IrqSelectedType DEF HandleInterrupt, TakesInterrupt
<1>2. /\ micro'.phase = Service(IrqSelected(pending), "Delay1")
      /\ arch'.halt = "Running" /\ arch'.ime = "Disabled"
  BY DEF HandleInterrupt, ServiceEntry, CommitIme, SeqInv, CpuTypeOK, ArchState, MicroState
<1>3. /\ micro'.phase.n = "ServiceInterrupt" /\ micro'.phase.k \in IrqPhases
      /\ micro'.phase.aux \in Irq
  BY <1>1, <1>2 DEF Service, MkPhase, IrqPhases
<1> QED
  BY <1>2, <1>3 DEF SequencerConsistent, InterruptStateConsistent, AtFetch,
     LatchMatchesPhase, CycleLatchValid, Continues

(* The halted phase ends together with the halt state (handle_halted). *)
LEMMA HaltedConsistent ==
    ASSUME SeqInv, NEW pending \in SUBSET Irq, HandleHalted(pending)
    PROVE  SequencerConsistent'
<1>1. arch.halt = "Halted" /\ arch.ime # "PendingEnable" /\ micro.phase.n = "Halted"
  BY DEF SeqInv, SequencerConsistent, InterruptStateConsistent, HandleHalted
<1>2. CASE pending # {}
  <2>1. micro'.phase = Fetch /\ arch'.halt = "Running" /\ arch'.ime = arch.ime
    BY <1>1, <1>2 DEF HandleHalted, Commit, CommitIme, ResolvedIme, SeqInv, CpuTypeOK,
       ArchState, MicroState
  <2> QED
    BY <1>1, <2>1, FetchPhaseConsistent
       DEF SequencerConsistent, InterruptStateConsistent, AtFetch, Fetch, MkPhase
<1>3. CASE pending = {}
  <2>1. micro' = micro /\ arch'.halt = arch.halt /\ arch'.ime = arch.ime
    BY <1>1, <1>3 DEF HandleHalted, Commit, CommitIme, ResolvedIme, SeqInv, CpuTypeOK, ArchState
  <2> QED
    BY <1>1, <2>1 DEF SeqInv, SequencerConsistent, InterruptStateConsistent, AtFetch,
       LatchMatchesPhase, CycleLatchValid, Continues
<1> QED
  BY <1>2, <1>3

(* HALT either stops the core or arms the HALT bug with IME off (halt_enter_delta). *)
LEMMA ExecuteHaltConsistent ==
    ASSUME SeqInv, NEW pending \in SUBSET Irq, ExecuteHalt(pending)
    PROVE  SequencerConsistent'
<1>1. micro.decoded = "Halt" /\ micro.phase.n = "Execute"
  BY DEF SeqInv, SequencerConsistent, LatchMatchesPhase, ExecuteHalt, Executing
<1>2. CASE arch.ime = "Disabled" /\ pending # {}
  <2>1. /\ micro'.phase = Fetch /\ micro'.decoded = "Halt"
        /\ arch'.halt = "HaltBugPending" /\ arch'.ime = "Disabled"
    BY <1>1, <1>2 DEF ExecuteHalt, Commit, CommitIme, ResolvedIme, SeqInv, CpuTypeOK,
       ArchState, MicroState
  <2> QED
    BY <2>1, FetchPhaseConsistent
       DEF SequencerConsistent, InterruptStateConsistent, AtFetch, Fetch, MkPhase
<1>3. CASE ~ (arch.ime = "Disabled" /\ pending # {})
  <2>1. /\ micro'.phase = MkPhase("Halted", "-")
        /\ arch'.halt = "Halted" /\ arch'.ime = ResolvedIme(micro')
    BY <1>1, <1>3 DEF ExecuteHalt, Commit, CommitIme, SeqInv, CpuTypeOK, ArchState, MicroState
  <2>2. micro'.phase.n = "Halted" /\ arch'.ime # "PendingEnable"
    BY <2>1 DEF MkPhase, ResolvedIme, InstructionComplete
  <2> QED
    BY <2>1, <2>2 DEF SequencerConsistent, InterruptStateConsistent, AtFetch,
       LatchMatchesPhase, CycleLatchValid, Continues
<1> QED
  BY <1>2, <1>3

(* Internal cycles: each of them either returns to the fetch, or goes on to   *)
(* the phase named here.                                                      *)
LEMMA ExecuteInternalMicro ==
    ASSUME SeqInv, ExecuteInternal
    PROVE  /\ micro'.decoded = micro.decoded
           /\ \/ micro'.phase = Fetch
              \/ /\ micro'.phase.n = "WriteMem" /\ micro'.phase.k = "StoreDone"
                 /\ micro.decoded = "IncMem"
              \/ /\ micro'.phase.n = "WriteMem" /\ micro'.phase.k = "PushHi"
                 /\ micro.decoded \in {"Call", "CallCc", "Rst"}
              \/ /\ micro'.phase.n = "WriteMem" /\ micro'.phase.k = "PushLo"
                 /\ micro.decoded = "Push"
              \/ /\ micro'.phase = Execute("AddSp") /\ micro.decoded = "AddSp"
                 /\ micro'.imm_hi = 1
              \/ micro'.phase = ReadMem(arch.sp, "RetLo") /\ micro.decoded = "RetCc"
<1>1. micro.phase.n = "Execute" => micro.phase.k = micro.decoded
  BY DEF SeqInv, SequencerConsistent, LatchMatchesPhase
<1>2. \A t : ToFetch(t).phase = Fetch /\ ToFetch(t).decoded = micro.decoded
  BY DEF ToFetch, SeqInv, CpuTypeOK, MicroState
<1>3. \A t : /\ PushReturn(t).phase.n = "WriteMem" /\ PushReturn(t).phase.k = "PushHi"
             /\ PushReturn(t).decoded = micro.decoded
  <2> TAKE t
  <2>1. /\ PushReturn(t).phase = [WriteMem(Minus(arch.sp, 1), Hi(arch.pc), "PushHi")
                                    EXCEPT !.aux = arch.pc]
        /\ PushReturn(t).decoded = micro.decoded
    BY DEF PushReturn, SeqInv, CpuTypeOK, MicroState
  <2> QED
    BY <2>1, WritePhaseFields
<1>4. NotTaken => micro'.phase = Fetch /\ micro'.decoded = micro.decoded
  BY DEF NotTaken, Commit, CommitIme, SeqInv, CpuTypeOK, MicroState
<1>5. CASE ExecuteAlu
  BY <1>5 DEF ExecuteAlu, Alu, Commit, CommitIme, SeqInv, CpuTypeOK, MicroState
<1>6. CASE ExecuteIncMem
  <2>1. /\ micro.decoded = "IncMem" /\ micro'.decoded = micro.decoded
        /\ \E d : micro'.phase = WriteMem(arch.hl, d, "StoreDone")
    BY <1>1, <1>6 DEF ExecuteIncMem, Executing, Commit, CommitIme, SeqInv, CpuTypeOK, MicroState
  <2> QED
    BY <2>1, WritePhaseFields
<1>7. CASE ExecuteWordAlu
  <2>1. CASE Executing({"AddSp"}) /\ micro.imm_hi = 0
    BY <1>1, <1>7, <2>1 DEF ExecuteWordAlu, Executing, Commit, CommitIme, SeqInv, CpuTypeOK, MicroState
  <2>2. CASE ~ (Executing({"AddSp"}) /\ micro.imm_hi = 0)
    BY <1>2, <1>7, <2>2 DEF ExecuteWordAlu, Commit, CommitIme
  <2> QED
    BY <2>1, <2>2
<1>8. CASE ExecuteJump
  <2>1. CASE Executing({"Call", "CallCc", "Rst"}) /\ (micro.phase.k # "Rst" => CondMatches(micro.phase.k))
    BY <1>1, <1>3, <1>8, <2>1 DEF ExecuteJump, Executing, Commit, CommitIme
  <2>2. CASE ~ (Executing({"Call", "CallCc", "Rst"}) /\ (micro.phase.k # "Rst" => CondMatches(micro.phase.k)))
    BY <1>2, <1>4, <1>8, <2>2 DEF ExecuteJump, Executing, Commit, CommitIme
  <2> QED
    BY <2>1, <2>2
<1>9. CASE ExecuteReturn
  <2>1. CASE Executing({"RetCc"}) /\ micro.imm_hi = 1 /\ CondMatches("RetCc")
    BY <1>1, <1>9, <2>1
       DEF ExecuteReturn, Executing, Commit, CommitIme, SeqInv, CpuTypeOK, MicroState
  <2>2. CASE ~ (Executing({"RetCc"}) /\ micro.imm_hi = 1 /\ CondMatches("RetCc"))
    BY <1>2, <1>4, <1>9, <2>2 DEF ExecuteReturn, Commit, CommitIme
  <2> QED
    BY <2>1, <2>2
<1>10. CASE ExecuteStackAndLoad
  <2>1. CASE Executing({"Push"})
    <3> DEFINE ph == [WriteMem(Minus(arch.sp, 1), Hi(arch.hl), "PushLo")
                        EXCEPT !.lo = Lo(arch.hl), !.aux = Minus(arch.sp, 2)]
    <3>1. /\ micro.decoded = "Push" /\ micro'.decoded = micro.decoded
          /\ micro'.phase = ph
      BY <1>1, <1>10, <2>1
         DEF ExecuteStackAndLoad, Executing, Commit, CommitIme, SeqInv, CpuTypeOK, MicroState
    <3> QED
      BY <3>1, WritePhaseFields
  <2>2. CASE ~ Executing({"Push"})
    BY <1>10, <2>2 DEF ExecuteStackAndLoad, Commit, CommitIme, SeqInv, CpuTypeOK, MicroState
  <2> QED
    BY <2>1, <2>2
<1> QED
  BY <1>5, <1>6, <1>7, <1>8, <1>9, <1>10 DEF ExecuteInternal

(* An internal cycle does not touch the halt state, and IME only through a commit. *)
LEMMA ExecuteInternalArch ==
    ASSUME SeqInv, ExecuteInternal
    PROVE  /\ arch'.halt = arch.halt
           /\ arch'.ime = "PendingEnable" => micro'.phase.n # "Fetch"
<1>1. CASE ExecuteAlu
  BY <1>1 DEF ExecuteAlu, Alu, Commit, CommitIme, ResolvedIme, InstructionComplete,
     SeqInv, CpuTypeOK, ArchState
<1>2. CASE ExecuteIncMem
  BY <1>2 DEF ExecuteIncMem, Commit, CommitIme, ResolvedIme, InstructionComplete,
     SeqInv, CpuTypeOK, ArchState
<1>3. CASE ExecuteWordAlu
  BY <1>3 DEF ExecuteWordAlu, Commit, CommitIme, ResolvedIme, InstructionComplete,
     SeqInv, CpuTypeOK, ArchState
<1>4. CASE ExecuteJump
  BY <1>4 DEF ExecuteJump, NotTaken, Commit, CommitIme, ResolvedIme, InstructionComplete,
     SeqInv, CpuTypeOK, ArchState
<1>5. CASE ExecuteReturn
  BY <1>5 DEF ExecuteReturn, NotTaken, Commit, CommitIme, ResolvedIme, InstructionComplete,
     SeqInv, CpuTypeOK, ArchState
<1>6. CASE ExecuteStackAndLoad
  BY <1>6 DEF ExecuteStackAndLoad, Commit, CommitIme, ResolvedIme, InstructionComplete,
     SeqInv, CpuTypeOK, ArchState
<1> QED
  BY <1>1, <1>2, <1>3, <1>4, <1>5, <1>6 DEF ExecuteInternal

(* An internal cycle goes on with its own instruction (handle_execute). *)
LEMMA ExecuteInternalConsistent ==
    ASSUME SeqInv, ExecuteInternal
    PROVE  SequencerConsistent'
<1>1. micro.phase.n = "Execute"
  BY DEF ExecuteInternal, ExecuteAlu, ExecuteIncMem, ExecuteWordAlu, ExecuteJump, ExecuteReturn,
     ExecuteStackAndLoad, Executing
<1>2. /\ LatchMatchesPhase' /\ CycleLatchValid'
      /\ micro'.phase.n \notin {"Halted", "ServiceInterrupt"}
  <2>1. CASE micro'.phase = Fetch
    BY <2>1, FetchPhaseConsistent DEF Fetch, MkPhase
  <2>2. CASE micro'.phase.n = "WriteMem"
    <3>1. micro'.phase # Fetch /\ micro'.phase # Execute("AddSp")
            /\ micro'.phase # ReadMem(arch.sp, "RetLo")
      BY <2>2 DEF Fetch, Execute, ReadMem, MkPhase
    <3> QED
      BY <2>2, <3>1, ExecuteInternalMicro, WritePhaseConsistent DEF WriteConts
  <2>3. CASE micro'.phase = Execute("AddSp") /\ micro.decoded = "AddSp" /\ micro'.imm_hi = 1
    BY <2>3, ExecuteInternalMicro
       DEF Execute, MkPhase, LatchMatchesPhase, CycleLatchValid, Continues
  <2>4. CASE micro'.phase = ReadMem(arch.sp, "RetLo") /\ micro.decoded = "RetCc"
    <3>1. LatchMatchesPhase' /\ CycleLatchValid'
      BY <2>4, ExecuteInternalMicro, ReadPhaseConsistent DEF ReadConts
    <3> QED
      BY <2>4, <3>1 DEF ReadMem, MkPhase
  <2> QED
    BY <2>1, <2>2, <2>3, <2>4, ExecuteInternalMicro
<1>3. InterruptStateConsistent'
  BY <1>1, <1>2, ExecuteInternalArch, QuietStep
<1> QED
  BY <1>2, <1>3 DEF SequencerConsistent
-----------------------------------------------------------------------------
(* The two invariants of the sequencer, for every byte width and arithmetic. *)

(* The state after power-on satisfies the inductive invariant (cpu_core). *)
LEMMA SeqInvInit == CpuInit => SeqInv
<1> SUFFICES ASSUME CpuInit PROVE SeqInv
  OBVIOUS
<1>1. CpuTypeOK
  BY ResetTypes DEF CpuInit, CpuTypeOK
<1>2. /\ arch.halt = "Running" /\ arch.ime = "Disabled"
      /\ micro.phase.n = "Fetch"
  BY DEF CpuInit, ResetArch, ResetMicro, Fetch, MkPhase
<1> QED
  BY <1>1, <1>2 DEF SeqInv, SequencerConsistent, LatchMatchesPhase, CycleLatchValid,
     InterruptStateConsistent, Continues

(* So does the state after a reset (cpu_core). *)
LEMMA SeqInvReset == ASSUME Reset PROVE SeqInv'
<1>1. CpuTypeOK'
  BY ResetTypes DEF Reset, CpuTypeOK
<1>2. /\ arch'.halt = "Running" /\ arch'.ime = "Disabled"
      /\ micro'.phase = Fetch
  BY DEF Reset, ResetArch, ResetMicro
<1>3. InterruptStateConsistent'
  BY <1>2 DEF InterruptStateConsistent, AtFetch, Fetch, MkPhase
<1> QED
  BY <1>1, <1>2, <1>3, FetchPhaseConsistent DEF SeqInv, SequencerConsistent

(* Every M-cycle keeps the inductive invariant, handler by handler (step_mcycle). *)
LEMMA SeqInvStep == SeqInv /\ [CpuNext]_cpuVars => SeqInv'
<1> SUFFICES ASSUME SeqInv, [CpuNext]_cpuVars PROVE SeqInv'
  OBVIOUS
<1>1. CpuTypeOK /\ SequencerConsistent /\ LatchMatchesPhase /\ arch.pc \in Word
  BY DEF SeqInv, SequencerConsistent, CpuTypeOK, ArchState
<1>2. ASSUME NEW op \in Ops, HandleFetchHaltBug(op) PROVE SeqInv'
  BY <1>1, <1>2, FetchType, FetchConsistent DEF HandleFetchHaltBug, SeqInv
<1>3. ASSUME NEW op \in Ops, NEW pending \in SUBSET Irq, HandleFetch(op, pending) PROVE SeqInv'
  BY <1>1, <1>3, PcType, FetchType, FetchConsistent DEF HandleFetch, SeqInv
<1>4. ASSUME NEW pending \in SUBSET Irq, HandleInterrupt(pending) PROVE SeqInv'
  BY <1>1, <1>4, InterruptType, InterruptConsistent DEF SeqInv
<1>5. ASSUME NEW pending \in SUBSET Irq, HandleHalted(pending) PROVE SeqInv'
  BY <1>1, <1>5, HaltedType, HaltedConsistent DEF SeqInv
<1>6. ASSUME NEW pending \in SUBSET Irq, ExecuteHalt(pending) PROVE SeqInv'
  BY <1>1, <1>6, HaltedType, ExecuteHaltConsistent DEF SeqInv
<1>7. ASSUME NEW op \in CbOps, HandleFetchPrefix(op) PROVE SeqInv'
  BY <1>1, <1>7, PrefixType, PrefixConsistent DEF SeqInv
<1>8. ASSUME NEW d \in Byte, HandleReadImm8(d) PROVE SeqInv'
  BY <1>1, <1>8, ReadImm8Type, ReadImm8Consistent DEF SeqInv
<1>9. ASSUME NEW d \in Byte, HandleReadImm16Lo(d) PROVE SeqInv'
  BY <1>1, <1>9, ReadImm16LoType, ReadImm16LoConsistent DEF SeqInv
<1>10. ASSUME NEW d \in Byte, HandleReadImm16Hi(d) PROVE SeqInv'
  BY <1>1, <1>10, ReadImm16HiType, ReadImm16HiConsistent DEF SeqInv
<1>11. ASSUME NEW d \in Byte, HandleReadMem(d) PROVE SeqInv'
  BY <1>1, <1>11, ReadMemType, ReadMemConsistent DEF SeqInv
<1>12. CASE HandleWriteMem
  BY <1>1, <1>12, WriteMemType, WriteMemConsistent DEF SeqInv
<1>13. CASE HandleServiceInterrupt
  BY <1>1, <1>13, ServiceType, ServiceConsistent DEF SeqInv
<1>14. CASE ExecuteInternal
  <2>1. CpuTypeOK'
    BY <1>1, <1>14, ExecuteAluType, ExecuteIncMemType, ExecuteWordAluType, ExecuteJumpType,
       ExecuteReturnType, ExecuteStackAndLoadType DEF ExecuteInternal
  <2> QED
    BY <1>14, <2>1, ExecuteInternalConsistent DEF SeqInv
<1>15. CASE Reset
  BY <1>15, SeqInvReset
<1>16. CASE UNCHANGED cpuVars
  BY <1>16 DEF cpuVars, SeqInv, CpuTypeOK, SequencerConsistent, LatchMatchesPhase,
     CycleLatchValid, InterruptStateConsistent, Continues, AtFetch
<1> QED
  BY <1>2, <1>3, <1>4, <1>5, <1>6, <1>7, <1>8, <1>9, <1>10, <1>11, <1>12, <1>13, <1>14,
     <1>15, <1>16 DEF CpuNext

(* The state of the core stays within its types whatever the program does:   *)
(* no address, register or latch leaves its width, and no handler reaches a  *)
(* phase that step_mcycle has no case for.                                   *)
THEOREM TypeCorrect == CpuSpec => []CpuTypeOK
<1>1. CpuSpec => []SeqInv
  BY SeqInvInit, SeqInvStep, PTL DEF CpuSpec
<1>2. SeqInv => CpuTypeOK
  BY DEF SeqInv
<1> QED
  BY <1>1, <1>2, PTL

(* A cycle never runs with the latch of another instruction, the latch that  *)
(* counts cycles holds a count whenever it is read, and the phase, the IME   *)
(* and the halt state agree (the latches of cpu/semantics).                  *)
THEOREM SequencerSafe == CpuSpec => []SequencerConsistent
<1>1. CpuSpec => []SeqInv
  BY SeqInvInit, SeqInvStep, PTL DEF CpuSpec
<1>2. SeqInv => SequencerConsistent
  BY DEF SeqInv
<1> QED
  BY <1>1, <1>2, PTL
=============================================================================

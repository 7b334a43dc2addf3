-------------------------------- MODULE Cpu --------------------------------
(* The SM83 core as its M-cycle sequencer (cpu/semantics, cpu/control).      *)
(*                                                                           *)
(* One step of the model is one commit of the core, that is one clock with   *)
(* m_ce high: step_mcycle dispatches on the phase, apply_delta updates the   *)
(* architectural and the micro state together.  Clocks with m_ce low leave   *)
(* both unchanged, so they are stuttering steps here.  The environment       *)
(* supplies what the bus returns (the opcode class, or a byte) and the set   *)
(* of pending interrupts (IE & IF).                                          *)
EXTENDS CpuTypes, FiniteSets

VARIABLES
    arch,   \* CpuArchState
    micro   \* CpuMicroState; opcode_latch is not read by any step

cpuVars == <<arch, micro>>

PhaseName == {"Fetch", "FetchPrefix", "ReadImm8", "ReadImm16Lo", "ReadImm16Hi",
              "ReadMem", "WriteMem", "Execute", "ServiceInterrupt", "Halted"}
Imm8Conts == {Imm8Cont[o] : o \in Imm8Ops}
Imm16Conts == {Imm16Cont[o] : o \in Imm16Ops}
ReadConts == {"LoadReg8", "LoadAFromAddr", "AluFromMem", "BitOpFromMem",
              "PopLo", "PopHi", "RetLo", "RetHi"}
WriteConts == {"StoreDone", "StoreSpHi", "PushHi", "PushLo"}
IrqPhases == {"Delay1", "Delay2", "PushPcHi", "PushPcLo", "Jump"}

(* A phase: its name, its continuation k (the class of the instruction for   *)
(* Execute, the sub-phase for ServiceInterrupt), the address and the data of *)
(* the transaction it performs, a latched low byte and an auxiliary word     *)
(* (next_pc, second target address, or the interrupt being serviced).        *)
Cont == {"-"} \cup AllOps \cup Imm8Conts \cup Imm16Conts \cup ReadConts \cup WriteConts
          \cup IrqPhases
Phase == [n : PhaseName, k : Cont, addr : Word, data : Byte, lo : Byte, aux : Word]

MkPhase(n, k) == [n |-> n, k |-> k, addr |-> 0, data |-> 0, lo |-> 0, aux |-> 0]
Fetch == MkPhase("Fetch", "-")
Execute(op) == MkPhase("Execute", op)
ReadMem(ad, k) == [MkPhase("ReadMem", k) EXCEPT !.addr = ad]
WriteMem(ad, d, k) == [MkPhase("WriteMem", k) EXCEPT !.addr = ad, !.data = d]
Service(i, sub) == [MkPhase("ServiceInterrupt", sub) EXCEPT !.aux = i]

MicroState == [phase : Phase, decoded : AllOps, imm_lo : Byte, imm_hi : Byte,
               temp : Word]

CpuTypeOK == arch \in ArchState /\ micro \in MicroState

(* The registers after skipboot: PC 0x0100, SP 0xfffe, interrupts off. *)
ResetArch ==
    [pc |-> ByteMod, sp |-> WordMod - 2, hl |-> ByteMod + 1, a |-> 1, cc |-> TRUE,
     ime |-> "Disabled", halt |-> "Running"]
ResetMicro ==
    [phase |-> Fetch, decoded |-> "Nop", imm_lo |-> 0, imm_hi |-> 0, temp |-> 0]

CpuInit == arch = ResetArch /\ micro = ResetMicro
-----------------------------------------------------------------------------
(* apply_delta.  CommitIme writes the IME; Commit lets resolve_ime decide:   *)
(* a pending enable matures when the instruction that follows EI completes.  *)

InstructionComplete(phase) == phase.n \in {"Fetch", "Halted"}

CommitIme(ar, ime, mi) ==
    /\ arch' = [ar EXCEPT !.ime = ime]
    /\ micro' = mi

(* Plausible defect: a HALT right after EI does not let the enable mature.   *)
ResolvedImeFetchOnly(mi) ==
    IF arch.ime = "PendingEnable" /\ mi.phase.n = "Fetch" THEN "Enabled" ELSE arch.ime

ResolvedIme(mi) ==
    IF arch.ime = "PendingEnable" /\ InstructionComplete(mi.phase)
    THEN "Enabled" ELSE arch.ime

Commit(ar, mi) == CommitIme(ar, ResolvedIme(mi), mi)

(* Plausible defect: the condition is not consulted.                         *)
CondAlways(op) == TRUE
CondMatches(op) == op \in CondOps => arch.cc

(* The HL adjustment of LD (HL+)/(HL-), made when the access completes.      *)
(* Plausible defect: only the loads adjust HL, the stores do not.            *)
HlAdjustedByLoads ==
    IF micro.decoded = "LdAHli" THEN Plus(arch.hl, 1)
    ELSE IF micro.decoded = "LdAHld" THEN Minus(arch.hl, 1)
    ELSE arch.hl
HlAdjusted ==
    IF micro.decoded \in {"LdAHli", "LdHliA"} THEN Plus(arch.hl, 1)
    ELSE IF micro.decoded \in {"LdAHld", "LdHldA"} THEN Minus(arch.hl, 1)
    ELSE arch.hl
-----------------------------------------------------------------------------
(* Fetch: the phase that follows the opcode. *)
PhaseAfterFetch(op) ==
    CASE op \in FetchOps   -> Fetch
      [] op \in ExecOps    -> Execute(op)
      [] op \in Imm8Ops    -> MkPhase("ReadImm8", Imm8Cont[op])
      [] op \in Imm16Ops   -> MkPhase("ReadImm16Lo", Imm16Cont[op])
      [] op \in ReadHlOps  -> ReadMem(arch.hl, ReadHlCont[op])
      [] op \in WriteHlOps -> WriteMem(arch.hl, arch.a, "StoreDone")
      [] op \in PopOps     -> ReadMem(arch.sp, PopCont[op])
      [] op = "Cb"         -> MkPhase("FetchPrefix", "-")

(* The PC written by the fetch cycle: JP HL jumps, STOP skips its operand. *)
PcAfterFetch(op) ==
    IF op = "JpHl" THEN arch.hl
    ELSE IF op = "Stop" THEN Plus(arch.pc, 2)
    ELSE Plus(arch.pc, 1)

(* fetch_delta with pc the PC write: halt_bug_fetch_delta keeps the PC. *)
FetchOpcode(op, pc) ==
    LET ar == [arch EXCEPT !.pc = pc,
                           !.a = IF op = "LdRR" THEN Lo(arch.hl) ELSE @,
                           !.sp = IF op = "LdSpHl" THEN arch.hl ELSE @,
                           !.halt = IF @ = "HaltBugPending" THEN "Running" ELSE @]
        mi == [micro EXCEPT !.phase = PhaseAfterFetch(op),
                            !.decoded = op,
                            !.imm_hi = IF op = "RetCc" THEN 1 ELSE @]
    IN  IF op = "Ei" THEN CommitIme(ar, "PendingEnable", mi)
        ELSE IF op = "Di" THEN CommitIme(ar, "Disabled", mi)
        ELSE Commit(ar, mi)

AtFetch == micro.phase.n = "Fetch"

HandleFetchHaltBug(op) ==
    /\ AtFetch /\ arch.halt = "HaltBugPending"
    /\ FetchOpcode(op, arch.pc)

HandleFetch(op, pending) ==
    /\ AtFetch /\ arch.halt # "HaltBugPending"
    /\ ~ (arch.ime = "Enabled" /\ pending # {})
    /\ FetchOpcode(op, PcAfterFetch(op))

(* service_entry_output: the source is chosen and acknowledged here. *)
IrqSelected(pending) == CHOOSE i \in pending : \A j \in pending : i <= j

(* Plausible defect: the dispatch leaves IME on.                             *)
ServiceEntryNested(pending) ==
    CommitIme([arch EXCEPT !.halt = "Running"], arch.ime,
              [micro EXCEPT !.phase = Service(IrqSelected(pending), "Delay1")])

ServiceEntry(pending) ==
    CommitIme([arch EXCEPT !.halt = "Running"], "Disabled",
              [micro EXCEPT !.phase = Service(IrqSelected(pending), "Delay1")])

TakesInterrupt(pending) ==
    /\ arch.ime = "Enabled" /\ pending # {}
    /\ \/ micro.phase.n = "Halted"
       \/ AtFetch /\ arch.halt # "HaltBugPending"

HandleInterrupt(pending) == TakesInterrupt(pending) /\ ServiceEntry(pending)

HandleHalted(pending) ==
    /\ micro.phase.n = "Halted" /\ ~ TakesInterrupt(pending)
    /\ IF pending # {}
       THEN Commit([arch EXCEPT !.halt = "Running"], [micro EXCEPT !.phase = Fetch])
       ELSE Commit(arch, micro)

HandleFetchPrefix(op) ==
    /\ micro.phase.n = "FetchPrefix"
    /\ LET ar == [arch EXCEPT !.pc = Plus(arch.pc, 1)]
           v  == AluVal(arch.a, arch.a)
       IN  IF op = "CbR"
           THEN Commit([ar EXCEPT !.a = v, !.cc = AluFlag(arch.a, arch.a)],
                       [micro EXCEPT !.phase = Fetch, !.decoded = op, !.temp = v])
           ELSE Commit(ar, [micro EXCEPT !.phase = ReadMem(arch.hl, "BitOpFromMem"),
                                         !.decoded = op])
-----------------------------------------------------------------------------
(* Immediate operands. *)
HandleReadImm8(imm) ==
    /\ micro.phase.n = "ReadImm8"
    /\ LET k  == micro.phase.k
           ar == [arch EXCEPT !.pc = Plus(arch.pc, 1),
                              !.a = IF k = "LoadReg8" THEN imm ELSE @]
           next ==
               CASE k = "LoadReg8" -> Fetch
                 [] k = "StoreToHl" -> WriteMem(arch.hl, imm, "StoreDone")
                 [] k = "IoOffsetReadA" -> ReadMem(IoAddress(imm), "LoadAFromAddr")
                 [] k = "IoOffsetWriteA" -> WriteMem(IoAddress(imm), arch.a, "StoreDone")
                 [] k = "RelativeJump" ->
                      IF CondMatches(micro.decoded) THEN Execute(micro.decoded) ELSE Fetch
                 [] k \in {"AluImm8", "AddSpDisp", "LoadHlSpDisp"} -> Execute(micro.decoded)
       IN Commit(ar, [micro EXCEPT
                        !.phase = next, !.imm_lo = imm,
                        !.imm_hi = IF k \in {"AddSpDisp", "RelativeJump"} THEN 0 ELSE @])

HandleReadImm16Lo(lo) ==
    /\ micro.phase.n = "ReadImm16Lo"
    /\ Commit([arch EXCEPT !.pc = Plus(arch.pc, 1)],
              [micro EXCEPT
                 !.phase = [MkPhase("ReadImm16Hi", micro.phase.k) EXCEPT !.lo = lo],
                 !.imm_lo = lo])

HandleReadImm16Hi(hi) ==
    /\ micro.phase.n = "ReadImm16Hi"
    /\ LET k  == micro.phase.k
           op == micro.decoded
           w  == Pair(hi, micro.phase.lo)
           ar == [arch EXCEPT !.pc = Plus(arch.pc, 1),
                              !.sp = IF op = "LdSpNn" THEN w ELSE @,
                              !.hl = IF op = "LdRrNn" THEN w ELSE @]
           next ==
               CASE k = "LoadRegPair" -> Fetch
                 [] k \in {"JumpAbs", "CallTarget"} ->
                      IF CondMatches(op) THEN Execute(op) ELSE Fetch
                 [] k = "ReadAddrToA" -> ReadMem(w, "LoadAFromAddr")
                 [] k = "WriteAToAddr" -> WriteMem(w, arch.a, "StoreDone")
                 [] k = "StoreSpToAddr" ->
                      [WriteMem(w, Lo(arch.sp), "StoreSpHi")
                         EXCEPT !.lo = Hi(arch.sp), !.aux = Plus(w, 1)]
       IN Commit(ar, [micro EXCEPT !.phase = next, !.imm_lo = micro.phase.lo, !.imm_hi = hi,
                                   !.temp = IF k = "LoadRegPair" THEN @ ELSE w])
-----------------------------------------------------------------------------
(* Memory cycles. *)
HandleReadMem(v) ==
    /\ micro.phase.n = "ReadMem"
    /\ LET k  == micro.phase.k
           ad == micro.phase.addr
           To(ph, t) == [micro EXCEPT !.phase = ph, !.temp = t]
           up == Plus(arch.sp, 1)
           w  == Pair(v, micro.phase.lo)
           r  == AluVal(v, v)
       IN CASE k \in {"LoadReg8", "LoadAFromAddr"} ->
                 Commit([arch EXCEPT !.a = v, !.hl = HlAdjusted], To(Fetch, ad))
            [] k \in {"PopLo", "RetLo"} ->
                 Commit([arch EXCEPT !.sp = up],
                        To([ReadMem(up, IF k = "PopLo" THEN "PopHi" ELSE "RetHi")
                              EXCEPT !.lo = v], ad))
            [] k = "PopHi" ->
                 Commit([arch EXCEPT !.sp = up, !.hl = w],
                        [To(Fetch, w) EXCEPT !.imm_hi = 0])
            [] k = "RetHi" ->
                 Commit([arch EXCEPT !.sp = up],
                        IF micro.decoded \in {"Ret", "Reti", "RetCc"}
                        THEN [To(Execute(micro.decoded), w) EXCEPT !.imm_hi = 2]
                        ELSE [To(Fetch, w) EXCEPT !.imm_hi = 0])
            [] k = "AluFromMem" -> Commit(arch, To(Execute(micro.decoded), v))
            [] k = "BitOpFromMem" ->
                 Commit([arch EXCEPT !.cc = AluFlag(v, v)],
                        To(IF micro.decoded = "CbBit" THEN Fetch
                           ELSE WriteMem(ad, r, "StoreDone"), r))

HandleWriteMem ==
    /\ micro.phase.n = "WriteMem"
    /\ LET k  == micro.phase.k
           ad == micro.phase.addr
           op == micro.decoded
           To(ph, t) == [micro EXCEPT !.phase = ph, !.temp = t]
       IN CASE k = "StoreDone" ->
                 Commit([arch EXCEPT
                           !.hl = HlAdjusted,
                           !.sp = IF op \in {"Push", "Call", "CallCc", "Rst"} THEN ad ELSE @,
                           !.pc = IF op \in {"Call", "CallCc", "Rst"} THEN micro.temp ELSE @],
                        To(Fetch, ad))
            [] k = "StoreSpHi" ->
                 Commit(arch, To(WriteMem(micro.phase.aux, micro.phase.lo, "StoreDone"),
                                 micro.phase.aux))
            [] k = "PushHi" ->
                 Commit([arch EXCEPT !.sp = ad],
                        To(WriteMem(Minus(ad, 1), Lo(micro.phase.aux), "StoreDone"),
                           micro.temp))
            [] k = "PushLo" ->
                 Commit([arch EXCEPT !.sp = ad],
                        To(WriteMem(micro.phase.aux, micro.phase.lo, "StoreDone"),
                           micro.phase.aux))

(* Pushes the PC in two cycles, then jumps; no other phase interrupts it. *)
HandleServiceInterrupt ==
    /\ micro.phase.n = "ServiceInterrupt"
    /\ LET i == micro.phase.aux
           Next(sub) == [micro EXCEPT !.phase = Service(i, sub)]
           pushed == [arch EXCEPT !.sp = Minus(arch.sp, 1)]
       IN CASE micro.phase.k = "Delay1"   -> Commit(arch, Next("Delay2"))
            [] micro.phase.k = "Delay2"   -> Commit(arch, Next("PushPcHi"))
            [] micro.phase.k = "PushPcHi" -> Commit(pushed, Next("PushPcLo"))
            [] micro.phase.k = "PushPcLo" -> Commit(pushed, Next("Jump"))
            [] micro.phase.k = "Jump" ->
                 Commit([arch EXCEPT !.pc = Vector(i)], [micro EXCEPT !.phase = Fetch])
-----------------------------------------------------------------------------
(* Internal cycles, by class of instruction. *)
Executing(S) == micro.phase.n = "Execute" /\ micro.phase.k \in S

Alu(lhs, rhs) ==
    Commit([arch EXCEPT !.a = AluVal(lhs, rhs), !.cc = AluFlag(lhs, rhs)],
           [micro EXCEPT !.phase = Fetch, !.temp = AluVal(lhs, rhs)])

ExecuteAlu ==
    \/ Executing({"AluR"})  /\ Alu(arch.a, Lo(arch.hl))
    \/ Executing({"AluN"})  /\ Alu(arch.a, micro.imm_lo)
    \/ Executing({"AluHl"}) /\ Alu(arch.a, Lo(micro.temp))

ExecuteIncMem ==
    /\ Executing({"IncMem"})
    /\ LET x == Lo(micro.temp)
       IN Commit([arch EXCEPT !.cc = AluFlag(x, x)],
                 [micro EXCEPT !.phase = WriteMem(arch.hl, AluVal(x, x), "StoreDone"),
                               !.temp = AluVal(x, x)])

ToFetch(t) == [micro EXCEPT !.phase = Fetch, !.imm_hi = 0, !.temp = t]

ExecuteWordAlu ==
    LET off == SignExtend(micro.imm_lo)
        sum == Plus(arch.sp, off)
        carry == AluFlag(Lo(arch.sp), micro.imm_lo)
    IN \/ /\ Executing({"AddHl"})
          /\ Commit([arch EXCEPT !.hl = Plus(@, @),
                                 !.cc = AluFlag(Hi(arch.hl), Hi(arch.hl))],
                    ToFetch(Plus(arch.hl, arch.hl)))
       \/ Executing({"IncHl"}) /\ Commit([arch EXCEPT !.hl = Plus(@, 1)], ToFetch(Plus(arch.hl, 1)))
       \/ Executing({"DecHl"}) /\ Commit([arch EXCEPT !.hl = Minus(@, 1)], ToFetch(Minus(arch.hl, 1)))
       \/ Executing({"IncSp"}) /\ Commit([arch EXCEPT !.sp = Plus(@, 1)], ToFetch(Plus(arch.sp, 1)))
       \/ Executing({"DecSp"}) /\ Commit([arch EXCEPT !.sp = Minus(@, 1)], ToFetch(Minus(arch.sp, 1)))
       \/ /\ Executing({"AddSp"}) /\ micro.imm_hi = 0
          /\ Commit([arch EXCEPT !.cc = carry],
                    [micro EXCEPT !.phase = Execute(micro.decoded), !.imm_hi = 1, !.temp = sum])
       \/ /\ Executing({"AddSp"}) /\ micro.imm_hi # 0
          /\ Commit([arch EXCEPT !.sp = micro.temp], ToFetch(micro.temp))
       \/ /\ Executing({"LdHlSp"})
          /\ Commit([arch EXCEPT !.hl = sum, !.cc = carry], ToFetch(sum))

(* Where a CALL or RST continues: the high byte of the return address. *)
PushReturn(t) ==
    [micro EXCEPT !.phase = [WriteMem(Minus(arch.sp, 1), Hi(arch.pc), "PushHi")
                               EXCEPT !.aux = arch.pc],
                  !.imm_hi = 0, !.temp = t]

NotTaken == Commit(arch, [micro EXCEPT !.phase = Fetch, !.imm_hi = 0])

ExecuteJump ==
    LET target == Plus(arch.pc, SignExtend(micro.imm_lo)) IN
    \/ /\ Executing({"Jp", "JpCc"}) /\ CondMatches(micro.phase.k)
       /\ Commit([arch EXCEPT !.pc = micro.temp], ToFetch(micro.temp))
    \/ /\ Executing({"Jr", "JrCc"}) /\ CondMatches(micro.phase.k)
       /\ Commit([arch EXCEPT !.pc = target], ToFetch(target))
    \/ /\ Executing({"Call", "CallCc"}) /\ CondMatches(micro.phase.k)
       /\ Commit(arch, PushReturn(micro.temp))
    \/ Executing({"Rst"}) /\ Commit(arch, PushReturn(RstVector))
    \/ /\ Executing({"Jp", "JpCc", "Jr", "JrCc", "Call", "CallCc"})
       /\ ~ CondMatches(micro.phase.k)
       /\ NotTaken

(* imm_hi tells the two Execute cycles of a conditional return apart. *)
ExecuteReturn ==
    LET jump == [arch EXCEPT !.pc = micro.temp] IN
    \/ /\ Executing({"RetCc"}) /\ micro.imm_hi = 1
       /\ IF CondMatches("RetCc")
          THEN Commit(arch, [micro EXCEPT !.phase = ReadMem(arch.sp, "RetLo"), !.imm_hi = 0])
          ELSE NotTaken
    \/ Executing({"RetCc"}) /\ micro.imm_hi # 1 /\ Commit(jump, ToFetch(micro.temp))
    \/ Executing({"Ret"}) /\ Commit(jump, ToFetch(micro.temp))
    \/ Executing({"Reti"}) /\ CommitIme(jump, "Enabled", ToFetch(micro.temp))

ExecuteStackAndLoad ==
    \/ /\ Executing({"Push"})
       /\ Commit(arch, [micro EXCEPT
            !.phase = [WriteMem(Minus(arch.sp, 1), Hi(arch.hl), "PushLo")
                         EXCEPT !.lo = Lo(arch.hl), !.aux = Minus(arch.sp, 2)],
            !.temp = arch.hl])
    \/ Executing({"LdSpHl"}) /\ Commit([arch EXCEPT !.sp = arch.hl], [micro EXCEPT !.phase = Fetch])

(* halt_enter_delta: with IME off and an interrupt already pending the core  *)
(* does not stop; the next opcode byte is fetched twice.                     *)
ExecuteHalt(pending) ==
    /\ Executing({"Halt"})
    /\ IF arch.ime = "Disabled" /\ pending # {}
       THEN Commit([arch EXCEPT !.halt = "HaltBugPending"], [micro EXCEPT !.phase = Fetch])
       ELSE Commit([arch EXCEPT !.halt = "Halted"],
                   [micro EXCEPT !.phase = MkPhase("Halted", "-")])

(* Internal cycles that look at neither the bus nor the interrupts. *)
ExecuteInternal ==
    \/ ExecuteAlu \/ ExecuteIncMem \/ ExecuteWordAlu \/ ExecuteJump \/ ExecuteReturn
    \/ ExecuteStackAndLoad

(* The synchronous reset of cpu_core. *)
Reset == arch' = ResetArch /\ micro' = ResetMicro
-----------------------------------------------------------------------------
(* The bus request of the current cycle (BusReq): a read carries no data. *)
BusReq(pending) ==
    LET ph == micro.phase
        pushTo == Minus(arch.sp, 1)
    IN CASE ph.n = "Fetch" /\ ~ TakesInterrupt(pending) -> Read(arch.pc, 0)
         [] ph.n \in {"FetchPrefix", "ReadImm8", "ReadImm16Lo", "ReadImm16Hi"} -> Read(arch.pc, 0)
         [] ph.n = "ReadMem" -> Read(ph.addr, 0)
         [] ph.n = "WriteMem" -> Write(ph.addr, ph.data)
         [] ph.n = "ServiceInterrupt" /\ ph.k = "PushPcHi" -> Write(pushTo, Hi(arch.pc))
         [] ph.n = "ServiceInterrupt" /\ ph.k = "PushPcLo" -> Write(pushTo, Lo(arch.pc))
         [] OTHER -> [kind |-> "Idle", addr |-> 0, data |-> 0]

(* The interrupt bits acknowledged by the current cycle (IrqAck). *)
IrqAck(pending) == IF TakesInterrupt(pending) THEN {IrqSelected(pending)} ELSE {}
-----------------------------------------------------------------------------
(* The core alone: any opcode, any data, any pending set at every cycle. *)
CpuNext ==
    \/ \E o \in Ops : HandleFetchHaltBug(o)
    \/ \E o \in Ops, pending \in SUBSET Irq : HandleFetch(o, pending)
    \/ \E pending \in SUBSET Irq :
          HandleInterrupt(pending) \/ HandleHalted(pending) \/ ExecuteHalt(pending)
    \/ \E o \in CbOps : HandleFetchPrefix(o)
    \/ \E d \in Byte : \/ HandleReadImm8(d) \/ HandleReadImm16Lo(d)
                       \/ HandleReadImm16Hi(d) \/ HandleReadMem(d)
    \/ HandleWriteMem \/ HandleServiceInterrupt \/ ExecuteInternal
    \/ Reset

CpuSpec == CpuInit /\ [][CpuNext]_cpuVars
-----------------------------------------------------------------------------
(* The latch protocol of the sequencer: the continuation being run belongs   *)
(* to the instruction in the decoded latch.  Every handler after the fetch   *)
(* consults that latch again (StoreDone decides on it whether SP and PC are  *)
(* written), so a cycle run with another instruction's latch would corrupt   *)
(* them.                                                                     *)
Continues(n, k, S) == micro.phase.n = n /\ micro.phase.k = k => micro.decoded \in S

LatchMatchesPhase ==
    /\ micro.phase.n = "Execute" =>
          /\ micro.phase.k = micro.decoded
          /\ micro.decoded \in ExecOps \cup
                {"AluN", "Jr", "JrCc", "AddSp", "LdHlSp", "Jp", "JpCc", "Call", "CallCc",
                 "AluHl", "IncMem", "Ret", "Reti"}
    /\ micro.phase.n = "ReadImm8" =>
          micro.decoded \in Imm8Ops /\ micro.phase.k = Imm8Cont[micro.decoded]
    /\ micro.phase.n \in {"ReadImm16Lo", "ReadImm16Hi"} =>
          micro.decoded \in Imm16Ops /\ micro.phase.k = Imm16Cont[micro.decoded]
    /\ micro.phase.n = "ReadMem" => micro.phase.k \in ReadConts
    /\ micro.phase.n = "WriteMem" => micro.phase.k \in WriteConts
    /\ Continues("ReadMem", "LoadReg8", {"LdRHl", "LdAHli", "LdAHld"})
    /\ Continues("ReadMem", "LoadAFromAddr", {"LdAPp", "LdhR", "LdANn"})
    /\ Continues("ReadMem", "AluFromMem", {"AluHl", "IncMem"})
    /\ Continues("ReadMem", "BitOpFromMem", {"CbBit", "CbRmw"})
    /\ Continues("ReadMem", "PopLo", {"Pop"}) /\ Continues("ReadMem", "PopHi", {"Pop"})
    /\ Continues("ReadMem", "RetLo", {"Ret", "Reti", "RetCc"})
    /\ Continues("ReadMem", "RetHi", {"Ret", "Reti", "RetCc"})
    /\ Continues("WriteMem", "StoreDone",
                 WriteHlOps \cup {"LdHlN", "LdhW", "LdNnA", "LdNnSp", "IncMem", "CbRmw",
                                  "Push", "Call", "CallCc", "Rst"})
    /\ Continues("WriteMem", "StoreSpHi", {"LdNnSp"})
    /\ Continues("WriteMem", "PushHi", {"Call", "CallCc", "Rst"})
    /\ Continues("WriteMem", "PushLo", {"Push"})
    /\ micro.phase.n = "ServiceInterrupt" =>
          micro.phase.k \in IrqPhases /\ micro.phase.aux \in Irq

(* imm_hi doubles as the cycle counter of ADD SP and of a conditional return, *)
(* and every 16-bit immediate overwrites it: it must hold a counter value     *)
(* whenever one of those two executes.                                        *)
CycleLatchValid ==
    micro.phase.n = "Execute" =>
        /\ micro.decoded = "RetCc" => micro.imm_hi \in {1, 2}
        /\ micro.decoded = "AddSp" => micro.imm_hi \in {0, 1}

(* The three interrupt-related state machines agree with the phase: the core *)
(* is stopped exactly in the Halted phase, the HALT bug is pending only      *)
(* before the fetch that follows HALT and only with IME off, a dispatch in   *)
(* progress has IME off, and the delay of EI covers exactly one instruction. *)
InterruptStateConsistent ==
    /\ arch.halt = "Halted" <=> micro.phase.n = "Halted"
    /\ arch.halt = "HaltBugPending" =>
          AtFetch /\ arch.ime = "Disabled" /\ micro.decoded = "Halt"
    /\ micro.phase.n = "ServiceInterrupt" => arch.ime = "Disabled"
    /\ arch.ime = "PendingEnable" /\ AtFetch => micro.decoded = "Ei"
    /\ arch.ime = "PendingEnable" => micro.phase.n # "Halted"

SequencerConsistent ==
    LatchMatchesPhase /\ CycleLatchValid /\ InterruptStateConsistent
=============================================================================

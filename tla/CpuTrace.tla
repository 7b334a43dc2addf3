------------------------------ MODULE CpuTrace ------------------------------
(* The sequencer beside the instruction-level machine it implements.  The    *)
(* history variables record the state at the last instruction boundary, what *)
(* was executed there and the transactions made since; Machine!Spec must     *)
(* hold of them.                                                             *)
EXTENDS Cpu, Sequences

CONSTANTS
    MaxRetired,     \* bound: instructions and events between two resets
    Pendings        \* the sets of pending interrupts to try

VARIABLES
    st, op, bus,        \* the instruction-level state (see CpuIsa)
    log,                \* transactions of the instruction in progress
    cycles,             \* M-cycles it has taken
    retired             \* completed since the last reset, at most MaxRetired

ASSUME TraceAssumption == MaxRetired \in Nat /\ Pendings \subseteq SUBSET Irq

traceVars == <<arch, micro, st, op, bus, log, cycles, retired>>

Machine == INSTANCE CpuIsa

(* The same core with instructions reduced to classes.                       *)
IrqClass(o) == IF o \in {"Ei", "Di", "Reti", "Halt"} THEN o ELSE "Other"
IrqStage ==
    LET ph == micro.phase IN
    IF ph.n \in {"Fetch", "Halted"} THEN ph.n
    ELSE IF ph.n = "ServiceInterrupt" THEN ph.k
    ELSE IF ph.n = "Execute" /\ ph.k = "Halt" THEN "HaltExec"
    ELSE "Busy"
Core == INSTANCE InterruptCore
    WITH ime <- arch.ime, halt <- arch.halt, stage <- IrqStage,
         class <- IrqClass(micro.decoded),
         irq <- IF micro.phase.n = "ServiceInterrupt" THEN micro.phase.aux ELSE 0,
         elapsed <- IF IrqStage = "Busy" THEN cycles ELSE 0, MaxBusy <- 5

Init ==
    /\ CpuInit
    /\ st = arch /\ op = "Reset" /\ bus = <<>>
    /\ log = <<>> /\ cycles = 0 /\ retired = 0

(* Record one cycle: it transferred tr and, if it completes, executed o. *)
Record(tr, o) ==
    IF InstructionComplete(micro'.phase)
    THEN /\ st' = arch' /\ op' = o /\ bus' = log \o tr
         /\ log' = <<>> /\ cycles' = 0 /\ retired' = retired + 1
    ELSE /\ UNCHANGED <<st, op, bus, retired>>
         /\ log' = log \o tr /\ cycles' = cycles + 1

(* What the bus carries in a cycle that reads d, or in one that reads nothing. *)
Reads(d) == <<[BusReq({}) EXCEPT !.data = d]>>
Internal == <<>>
Writes == IF BusReq({}).kind = "Write" THEN <<BusReq({})>> ELSE <<>>

MayStart == retired < MaxRetired

FetchStep == \E o \in Ops : \E pending \in Pendings :
    /\ MayStart
    /\ HandleFetchHaltBug(o) \/ HandleFetch(o, pending)
    /\ Record(Reads(0), o)
PrefixStep == \E o \in CbOps : HandleFetchPrefix(o) /\ Record(Reads(0), o)
Imm8Step == \E d \in Byte : HandleReadImm8(d) /\ Record(Reads(d), micro.decoded)
Imm16LoStep == \E d \in Byte : HandleReadImm16Lo(d) /\ Record(Reads(d), micro.decoded)
Imm16HiStep == \E d \in Byte : HandleReadImm16Hi(d) /\ Record(Reads(d), micro.decoded)
ReadStep == \E d \in Byte : HandleReadMem(d) /\ Record(Reads(d), micro.decoded)
WriteStep == HandleWriteMem /\ Record(Writes, micro.decoded)
InternalStep == ExecuteInternal /\ Record(Internal, micro.decoded)
HaltStep == \E pending \in Pendings : ExecuteHalt(pending) /\ Record(Internal, "Halt")
EntryStep == \E pending \in Pendings :
    MayStart /\ HandleInterrupt(pending) /\ Record(Internal, "-")
ServiceStep == HandleServiceInterrupt /\ Record(Writes, Machine!IrqName[micro.phase.aux + 1])
HaltedStep == \E pending \in Pendings :
    /\ MayStart /\ HandleHalted(pending)
    /\ IF pending = {} THEN UNCHANGED <<st, op, bus, log, cycles, retired>>
       ELSE Record(Internal, "Wake")
ResetStep ==
    /\ Reset
    /\ st' = arch' /\ op' = "Reset" /\ bus' = <<>>
    /\ log' = <<>> /\ cycles' = 0 /\ retired' = 0

Step ==
    \/ FetchStep \/ PrefixStep \/ Imm8Step \/ Imm16LoStep \/ Imm16HiStep \/ ReadStep
    \/ WriteStep \/ InternalStep \/ HaltStep \/ EntryStep \/ ServiceStep \/ HaltedStep

Next == Step \/ ResetStep

Spec == Init /\ [][Next]_traceVars
-----------------------------------------------------------------------------
(* The sequencer implements the instruction set: every path through the      *)
(* phases, whatever latches earlier instructions left behind, makes exactly  *)
(* the transactions of the instruction it decoded and leaves exactly its     *)
(* state (step_mcycle, apply_delta, handle_service_interrupt).               *)
ImplementsIsa == Machine!Spec

(* Seen from the interrupt controller the core is InterruptCore: it samples  *)
(* the pending set only between instructions, in HALT and when it enters     *)
(* HALT, and no instruction keeps it away for more than six M-cycles         *)
(* (handle_fetch, handle_halted, halt_enter_delta, resolve_ime).             *)
ImplementsCore == Core!CoreSpec

(* The number of M-cycles of each class in the opcode table of the project   *)
(* (spec/sm83_opcodes.py), given whether the condition held.                 *)
TableCycles(o, taken) ==
    CASE o \in {"Nop", "LdRR", "Stop", "Ei", "Di", "JpHl", "Halt", "AluR"} -> 1
      [] o \in {"LdSpHl", "AddHl", "IncHl", "DecHl", "IncSp", "DecSp", "LdRN", "AluN",
                "LdRHl", "LdAHli", "LdAHld", "LdAPp", "AluHl", "LdHlR", "LdHliA",
                "LdHldA", "CbR"} -> 2
      [] o \in {"LdHlN", "LdhR", "LdhW", "Jr", "LdHlSp", "LdRrNn", "LdSpNn", "IncMem",
                "Pop", "CbBit"} -> 3
      [] o \in {"Push", "Rst", "AddSp", "Jp", "LdANn", "LdNnA", "Ret", "Reti", "CbRmw"} -> 4
      [] o = "LdNnSp" -> 5
      [] o = "Call"   -> 6
      [] o = "JrCc"   -> IF taken THEN 3 ELSE 2
      [] o = "JpCc"   -> IF taken THEN 4 ELSE 3
      [] o = "CallCc" -> IF taken THEN 6 ELSE 3
      [] o = "RetCc"  -> IF taken THEN 5 ELSE 2

(* Instructions whose 8-bit result is computed in an Execute cycle of its    *)
(* own after the last operand has arrived, and HALT.                         *)
ExtraCycleOps == {"AluR", "AluN", "AluHl", "IncMem", "Halt"}

Retires(o) == retired' = retired + 1 /\ op' = o

(* Every instruction takes the M-cycles of the opcode table, one more for    *)
(* the classes above, whichever way its condition went.                      *)
InstructionTiming ==
    [][\A o \in AllOps \ {"Cb"} : Retires(o) =>
          cycles + 1 = TableCycles(o, st.cc) + (IF o \in ExtraCycleOps THEN 1 ELSE 0)]_traceVars

(* As the opcode table has it (HALT aside, whose end is not observable). *)
OpcodeTableTiming ==
    [][\A o \in AllOps \ {"Cb", "Halt"} : Retires(o) =>
          cycles + 1 = TableCycles(o, st.cc)]_traceVars
=============================================================================

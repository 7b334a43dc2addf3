--------------------------- MODULE InterruptProofs ---------------------------
(* Proofs about the core, the interrupt controller and its sources, for      *)
(* every set of sources and every longest instruction.                       *)
EXTENDS InterruptSystem, TLAPS

-----------------------------------------------------------------------------
(* The inductive invariant.  A request waits no longer than the instruction  *)
(* in progress has taken, for the core samples before it begins another, and *)
(* IME is open only as far as the gate is.                                   *)
ImeWithinGate ==
    /\ ime = "Enabled" => gate = "On"
    /\ ime = "PendingEnable" => gate # "Off"
StageFits ==
    /\ stage = "Busy" => class \in {"Other", "Reti"} /\ waiting < elapsed
    /\ stage = "HaltExec" => class = "Halt" /\ waiting = 0
    /\ stage \in Servicing => ime = "Disabled" /\ waiting = 0
    /\ halt = "HaltBugPending" => stage = "Fetch" /\ ime = "Disabled"
SystemInv == SystemTypeOK /\ ImeWithinGate /\ StageFits /\ BoundedLatency

(* The five phases of a dispatch (service_entry_output to Jump).             *)
LEMMA ServicingPhases ==
    Servicing = {"Delay1", "Delay2", "PushPcHi", "PushPcLo", "Jump"}
  BY DEF Servicing, IrqPhases

(* The request of the lowest number is one of the pending ones.              *)
LEMMA HighestIsPending ==
    ASSUME NEW S \in SUBSET Irq, S # {}
    PROVE  Highest(S) \in S
<1>1. \E i \in S : \A j \in S : i <= j
  <2>1. CASE 0 \in S  BY <2>1 DEF Irq
  <2>2. CASE 0 \notin S /\ 1 \in S  BY <2>2 DEF Irq
  <2>3. CASE 0 \notin S /\ 1 \notin S /\ 2 \in S  BY <2>3 DEF Irq
  <2>4. CASE 0 \notin S /\ 1 \notin S /\ 2 \notin S /\ 3 \in S  BY <2>4 DEF Irq
  <2>5. CASE 0 \notin S /\ 1 \notin S /\ 2 \notin S /\ 3 \notin S
    <3>1. \A j \in S : j = 4  BY <2>5 DEF Irq
    <3> QED BY <3>1
  <2> QED BY <2>1, <2>2, <2>3, <2>4, <2>5
<1> QED BY <1>1 DEF Highest

(* The registers of the controller keep to the sources in use.               *)
LEMMA ControllerType ==
    ASSUME SystemTypeOK, NEW write \in Writes, NEW ack, InterruptsClock(write, ack, lines)
    PROVE  ie' \subseteq Sources /\ iflags' \subseteq Sources
  BY DEF SystemTypeOK, Writes, NoWrite, InterruptsClock, NextIf, WrittenIf

(* What the core samples as pending are numbers of interrupts.               *)
LEMMA PendingInUse == SystemTypeOK => Pending \in SUBSET Irq
  BY SourcesAssumption DEF SystemTypeOK, Pending

(* The histories keep to their types.                                        *)
LEMMA RecordedTypes ==
    ASSUME SystemTypeOK, RecordGate, RecordWaiting
    PROVE  gate' \in {"Off", "Shadow", "On"} /\ waiting' \in Nat
  BY DEF SystemTypeOK, RecordGate, RecordWaiting

(* A core cycle keeps the invariant of core and histories.                   *)
LEMMA CycleKeepsInv ==
    ASSUME SystemInv, CoreCycle(Pending), RecordGate, RecordWaiting
    PROVE  CoreTypeOK' /\ ImeWithinGate' /\ StageFits' /\ BoundedLatency'
<1> USE ServicingPhases, MaxBusyAssumption
    DEF SystemInv, SystemTypeOK, CoreTypeOK, ImeWithinGate, StageFits, BoundedLatency
<1>0. /\ gate' \in {"Off", "Shadow", "On"} /\ waiting' \in Nat
      /\ Pending \in SUBSET Irq /\ waiting \in Nat
  BY RecordedTypes, PendingInUse
<1>1. ASSUME NEW c \in Class, FetchCycle(Pending, c)
      PROVE  CoreTypeOK' /\ ImeWithinGate' /\ StageFits' /\ BoundedLatency'
  <2>1. ime = "Enabled" => Pending = {}
    BY <1>1 DEF FetchCycle, TakesInterrupt
  <2>2. waiting' = 0
    BY <2>1 DEF RecordWaiting
  <2>3. CoreTypeOK'
    BY <1>1 DEF FetchCycle, Class, Stage, Matured, ImeAfterEi
  <2>4. ImeWithinGate' /\ StageFits'
    BY <1>1, <2>2, <2>3 DEF FetchCycle, RecordGate, Dispatches, Completes, Class, Matured, ImeAfterEi
  <2> QED BY <2>2, <2>3, <2>4
<1>2. ASSUME BusyCycle
      PROVE  CoreTypeOK' /\ ImeWithinGate' /\ StageFits' /\ BoundedLatency'
  <2>1. CoreTypeOK'
    BY <1>2 DEF BusyCycle, Stage, Matured
  <2>2. waiting' <= waiting + 1
    BY <1>0 DEF RecordWaiting
  <2>3. ImeWithinGate'
    BY <1>2 DEF BusyCycle, RecordGate, Dispatches, Completes, Matured
  <2>4. StageFits' /\ BoundedLatency'
    BY <1>0, <1>2, <2>1, <2>2 DEF BusyCycle
  <2> QED BY <2>1, <2>3, <2>4
<1>3. ASSUME ServiceCycle
      PROVE  CoreTypeOK' /\ ImeWithinGate' /\ StageFits' /\ BoundedLatency'
  <2>1. /\ stage \in Servicing /\ ime' = "Disabled" /\ waiting' = 0
    BY <1>3 DEF ServiceCycle, IrqPhases, RecordWaiting
  <2>2. CoreTypeOK'
    BY <1>3 DEF ServiceCycle, IrqPhases, Stage, Irq
  <2>3. stage' \notin {"Busy", "HaltExec"} /\ halt' # "HaltBugPending"
    BY <1>3, <2>1 DEF ServiceCycle, IrqPhases
  <2> QED BY <2>1, <2>2, <2>3
<1>4. ASSUME HaltExecCycle(Pending)
      PROVE  CoreTypeOK' /\ ImeWithinGate' /\ StageFits' /\ BoundedLatency'
  <2>1. waiting' <= 1
    BY <1>4 DEF HaltExecCycle, RecordWaiting
  <2> QED BY <1>0, <1>4, <2>1 DEF HaltExecCycle, RecordGate, Dispatches, Completes, Matured, Stage
<1>5. ASSUME HaltedCycle(Pending)
      PROVE  CoreTypeOK' /\ ImeWithinGate' /\ StageFits' /\ BoundedLatency'
  <2>1. ime = "Enabled" => Pending = {}
    BY <1>5 DEF HaltedCycle, TakesInterrupt
  <2>2. waiting' = 0
    BY <2>1 DEF RecordWaiting
  <2> QED BY <1>5, <2>2 DEF HaltedCycle, RecordGate, Dispatches, Completes, Stage
<1>6. ASSUME EntryCycle(Pending)
      PROVE  CoreTypeOK' /\ ImeWithinGate' /\ StageFits' /\ BoundedLatency'
  <2>1. Dispatches /\ waiting' = 0
    BY <1>6 DEF EntryCycle, TakesInterrupt, Dispatches, RecordWaiting
  <2>2. irq' \in Irq
    BY <1>0, <1>6, HighestIsPending DEF EntryCycle, TakesInterrupt
  <2> QED BY <1>6, <2>1, <2>2 DEF EntryCycle, ImeAfterEntry, Stage
<1> QED BY <1>1, <1>2, <1>3, <1>4, <1>5, <1>6 DEF CoreCycle

(* The reset state satisfies the invariant.                                  *)
LEMMA SystemInvInit == SystemInit => SystemInv
  BY ServicingPhases, MaxBusyAssumption
     DEF SystemInit, CoreInit, SystemInv, SystemTypeOK, CoreTypeOK, ImeWithinGate, StageFits,
         BoundedLatency, Stage, Class, Irq

(* Every clock keeps the invariant: a commit, a clock between, or a reset.   *)
LEMMA SystemInvStep == SystemInv /\ [SystemNext]_sysVars => SystemInv'
<1> SUFFICES ASSUME SystemInv, [SystemNext]_sysVars
             PROVE  SystemInv'
  OBVIOUS
<1>1. CASE CommitClock
  <2>1. CoreTypeOK' /\ ImeWithinGate' /\ StageFits' /\ BoundedLatency'
    BY <1>1, CycleKeepsInv DEF CommitClock
  <2>2. ie' \subseteq Sources /\ iflags' \subseteq Sources
    BY <1>1, ControllerType DEF CommitClock, SystemInv
  <2>3. gate' \in {"Off", "Shadow", "On"} /\ waiting' \in Nat
    BY <1>1, RecordedTypes DEF CommitClock, SystemInv
  <2>4. lines' \subseteq Sources /\ t' \in 0 .. 3
    BY <1>1 DEF CommitClock
  <2> QED BY <2>1, <2>2, <2>3, <2>4 DEF SystemInv, SystemTypeOK
<1>2. CASE OtherClock
  <2>1. ie' \subseteq Sources /\ iflags' \subseteq Sources
    BY <1>2 DEF OtherClock, InterruptsClock, NoWrite, WrittenIf, NextIf, SystemInv, SystemTypeOK
  <2>2. lines' \subseteq Sources /\ t' \in 0 .. 3
    BY <1>2 DEF OtherClock, m_ce, SystemInv, SystemTypeOK
  <2>3. UNCHANGED <<ime, halt, stage, class, elapsed, irq, gate, waiting>>
    BY <1>2 DEF OtherClock
  <2> QED
    BY <2>1, <2>2, <2>3
       DEF SystemInv, SystemTypeOK, CoreTypeOK, ImeWithinGate, StageFits, BoundedLatency
<1>3. CASE SystemReset
  BY <1>3, ServicingPhases, MaxBusyAssumption
     DEF SystemReset, CoreReset, InterruptsReset, SystemInv, SystemTypeOK, CoreTypeOK,
         ImeWithinGate, StageFits, BoundedLatency, Stage, Class, Irq
<1>4. CASE UNCHANGED sysVars
  BY <1>4
     DEF sysVars, SystemInv, SystemTypeOK, CoreTypeOK, ImeWithinGate, StageFits, BoundedLatency
<1> QED BY <1>1, <1>2, <1>3, <1>4 DEF SystemNext

(* Core, controller and histories keep to their types.                       *)
THEOREM SystemTypeCorrect == SystemSpec => []SystemTypeOK
<1>1. SystemInv => SystemTypeOK
  BY DEF SystemInv
<1> QED BY <1>1, SystemInvInit, SystemInvStep, PTL DEF SystemSpec

(* With IME on, an admissible request waits at most as long as the longest   *)
(* instruction, for every set of sources and every such length               *)
(* (handle_fetch, handle_halted).                                            *)
THEOREM LatencyTheorem == SystemSpec => []BoundedLatency
<1>1. SystemInv => BoundedLatency
  BY DEF SystemInv
<1> QED BY <1>1, SystemInvInit, SystemInvStep, PTL DEF SystemSpec

(* Only EntryCycle begins a dispatch, and nothing else happens in a cycle in *)
(* which the core takes an interrupt.                                        *)
LEMMA DispatchIsEntry ==
    ASSUME CoreCycle(Pending)
    PROVE  /\ Dispatches => EntryCycle(Pending)
           /\ TakesInterrupt(Pending) => EntryCycle(Pending)
<1>1. ASSUME NEW c \in Class, FetchCycle(Pending, c)
      PROVE  ~ Dispatches /\ ~ TakesInterrupt(Pending)
  BY <1>1 DEF FetchCycle, Dispatches
<1>2. ASSUME BusyCycle  PROVE  ~ Dispatches /\ ~ TakesInterrupt(Pending)
  BY <1>2 DEF BusyCycle, Dispatches, TakesInterrupt
<1>3. ASSUME ServiceCycle  PROVE  ~ Dispatches /\ ~ TakesInterrupt(Pending)
  BY <1>3 DEF ServiceCycle, IrqPhases, Dispatches, TakesInterrupt
<1>4. ASSUME HaltExecCycle(Pending)  PROVE  ~ Dispatches /\ ~ TakesInterrupt(Pending)
  BY <1>4 DEF HaltExecCycle, Dispatches, TakesInterrupt
<1>5. ASSUME HaltedCycle(Pending)  PROVE  ~ Dispatches /\ ~ TakesInterrupt(Pending)
  BY <1>5 DEF HaltedCycle, Dispatches
<1> QED BY <1>1, <1>2, <1>3, <1>4, <1>5 DEF CoreCycle

(* An interrupt comes in only through an open gate, for every set of sources *)
(* (resolve_ime, service_entry_output).                                      *)
THEOREM GateTheorem == SystemSpec => NoUnexpectedInterrupt
<1>1. SystemInv /\ [SystemNext]_sysVars => [Dispatches => gate = "On"]_sysVars
  <2> SUFFICES ASSUME SystemInv, SystemNext, Dispatches
               PROVE  gate = "On"
    OBVIOUS
  <2>1. CASE CommitClock
    BY <2>1, DispatchIsEntry DEF CommitClock, EntryCycle, TakesInterrupt, SystemInv, ImeWithinGate
  <2>2. CASE OtherClock
    BY <2>2 DEF OtherClock, Dispatches
  <2>3. CASE SystemReset
    BY <2>3 DEF SystemReset, CoreReset, Dispatches
  <2> QED BY <2>1, <2>2, <2>3 DEF SystemNext
<1> QED BY <1>1, SystemInvInit, SystemInvStep, PTL DEF SystemSpec, NoUnexpectedInterrupt

(* No request is lost and none is served twice, for every set of sources and *)
(* in whatever clocks they pulse (entity interrupts, service_entry_output).  *)
THEOREM ConservationTheorem == SystemSpec => RequestsConserved
<1> DEFINE Conserves ==
      SystemReset \/
        /\ lines \subseteq iflags'
        /\ \A i \in iflags \ iflags' :
              \/ Dispatches /\ irq' = i
              \/ m_ce /\ MayWrite
        /\ Dispatches => irq' \in Pending /\ (irq' \in iflags' => irq' \in lines)
<1>1. SystemInv /\ [SystemNext]_sysVars => [Conserves]_sysVars
  <2> SUFFICES ASSUME SystemInv, SystemNext, ~ SystemReset
               PROVE  Conserves
    OBVIOUS
  <2>1. CASE CommitClock
    <3>1. PICK write \in Writes :
              /\ write # NoWrite => MayWrite
              /\ InterruptsClock(write, Acknowledged(Pending), lines)
      BY <2>1 DEF CommitClock
    <3>2. iflags' = (WrittenIf(write) \ Acknowledged(Pending)) \cup lines
      BY <3>1 DEF InterruptsClock, NextIf
    <3>3. CoreCycle(Pending) /\ m_ce
      BY <2>1 DEF CommitClock
    <3>4. ASSUME EntryCycle(Pending)
          PROVE  /\ irq' \in Pending /\ Acknowledged(Pending) = {irq'}
                 /\ Dispatches
      <4>1. Pending \in SUBSET Irq
        BY PendingInUse DEF SystemInv
      <4> QED
        BY <3>4, <4>1, HighestIsPending
           DEF EntryCycle, Acknowledged, TakesInterrupt, Dispatches
    <3>5. ASSUME NEW i \in iflags \ iflags'
          PROVE  (Dispatches /\ irq' = i) \/ (m_ce /\ MayWrite)
      <4>1. CASE write = NoWrite
        <5>1. WrittenIf(write) = iflags
          BY <4>1 DEF WrittenIf, NoWrite
        <5>2. i \in Acknowledged(Pending)
          BY <3>2, <3>5, <5>1
        <5>3. EntryCycle(Pending)
          BY <3>3, <5>2, DispatchIsEntry DEF Acknowledged
        <5> QED BY <3>4, <5>2, <5>3
      <4>2. CASE write # NoWrite
        BY <3>1, <3>3, <4>2
      <4> QED BY <4>1, <4>2
    <3>6. Dispatches => irq' \in Pending /\ (irq' \in iflags' => irq' \in lines)
      BY <3>2, <3>3, <3>4, DispatchIsEntry
    <3> QED BY <3>2, <3>5, <3>6
  <2>2. CASE OtherClock
    BY <2>2 DEF OtherClock, InterruptsClock, NextIf, WrittenIf, NoWrite, Dispatches
  <2> QED BY <2>1, <2>2 DEF SystemNext
<1> QED BY <1>1, SystemInvInit, SystemInvStep, PTL DEF SystemSpec, RequestsConserved
=============================================================================

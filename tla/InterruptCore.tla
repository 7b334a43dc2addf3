--------------------------- MODULE InterruptCore ---------------------------
(* The core as the interrupt logic sees it: when it samples the pending      *)
(* interrupts, what it acknowledges, and how long it looks away.             *)
(*                                                                           *)
(* An instruction is reduced to its class: EI, DI, RETI, HALT, or any other, *)
(* which takes an unknown number of M-cycles.  CpuTrace shows that the       *)
(* sequencer implements this module, InterruptSystem composes it with the    *)
(* interrupt controller and the clock.                                       *)
EXTENDS Naturals

CONSTANT MaxBusy        \* M-cycles after the fetch of the longest instruction

ASSUME MaxBusyAssumption == MaxBusy \in Nat /\ MaxBusy >= 1

VARIABLES
    ime, halt,      \* as in the core
    stage,          \* the phase, reduced to what the interrupt logic tells apart
    class, elapsed, \* the instruction in progress and its cycles so far
    irq             \* the interrupt being dispatched

coreVars == <<ime, halt, stage, class, elapsed, irq>>

Irq == 0 .. 4
Class == {"Ei", "Di", "Reti", "Halt", "Other"}
IrqPhases == <<"Delay1", "Delay2", "PushPcHi", "PushPcLo", "Jump">>
Servicing == {IrqPhases[n] : n \in 1 .. 5}
Stage == {"Fetch", "Busy", "HaltExec", "Halted"} \cup Servicing

CoreTypeOK ==
    /\ ime \in {"Disabled", "PendingEnable", "Enabled"}
    /\ halt \in {"Running", "Halted", "HaltBugPending"}
    /\ stage \in Stage /\ class \in Class
    /\ elapsed \in 0 .. MaxBusy /\ irq \in Irq

CoreInit ==
    /\ ime = "Disabled" /\ halt = "Running" /\ stage = "Fetch" /\ class = "Other"
    /\ elapsed = 0 /\ irq = 0

Matured == IF ime = "PendingEnable" THEN "Enabled" ELSE ime
Highest(pending) == CHOOSE i \in pending : \A j \in pending : i <= j

(* Plausible defect: only HALT samples, the fetch does not.                  *)
TakesInterruptInHalt(pending) ==
    ime = "Enabled" /\ pending # {} /\ stage = "Halted"

(* The core samples at the fetch of an opcode and in HALT. *)
TakesInterrupt(pending) ==
    /\ ime = "Enabled" /\ pending # {}
    /\ \/ stage = "Halted"
       \/ stage = "Fetch" /\ halt # "HaltBugPending"

(* Plausible defect: EI takes effect at once.                                *)
ImeAtOnce == "Enabled"
ImeAfterEi == "PendingEnable"

(* The opcode is fetched; EI, DI and short instructions also complete. *)
FetchCycle(pending, c) ==
    /\ stage = "Fetch" /\ ~ TakesInterrupt(pending)
    /\ class' = c
    /\ halt' = "Running"
    /\ \/ c = "Ei" /\ ime' = ImeAfterEi /\ stage' = "Fetch"
       \/ c = "Di" /\ ime' = "Disabled" /\ stage' = "Fetch"
       \/ c = "Halt" /\ ime' = ime /\ stage' = "HaltExec"
       \/ c = "Other" /\ ime' = Matured /\ stage' = "Fetch"
       \/ c \in {"Other", "Reti"} /\ ime' = ime /\ stage' = "Busy"
    /\ elapsed' = IF stage' = "Busy" THEN 1 ELSE 0
    /\ UNCHANGED irq

(* A further cycle of a long instruction, or its last one. *)
BusyCycle ==
    /\ stage = "Busy"
    /\ \/ /\ elapsed < MaxBusy /\ elapsed' = elapsed + 1
          /\ UNCHANGED <<ime, stage>>
       \/ /\ stage' = "Fetch" /\ elapsed' = 0
          /\ ime' = IF class = "Reti" THEN "Enabled" ELSE Matured
    /\ UNCHANGED <<halt, class, irq>>

HaltExecCycle(pending) ==
    /\ stage = "HaltExec"
    /\ IF ime = "Disabled" /\ pending # {}
       THEN halt' = "HaltBugPending" /\ stage' = "Fetch" /\ ime' = ime
       ELSE halt' = "Halted" /\ stage' = "Halted" /\ ime' = Matured
    /\ UNCHANGED <<class, elapsed, irq>>

(* Plausible defect: a request that IME keeps out does not end HALT.         *)
WakesIfEnabled(pending) == pending # {} /\ ime = "Enabled"
Wakes(pending) == pending # {}

HaltedCycle(pending) ==
    /\ stage = "Halted" /\ ~ TakesInterrupt(pending)
    /\ IF Wakes(pending) THEN halt' = "Running" /\ stage' = "Fetch"
       ELSE UNCHANGED <<halt, stage>>
    /\ UNCHANGED <<ime, class, elapsed, irq>>

(* Plausible defect: the dispatch leaves IME on.                             *)
ImeLeftOn == ime
ImeAfterEntry == "Disabled"

EntryCycle(pending) ==
    /\ TakesInterrupt(pending)
    /\ ime' = ImeAfterEntry /\ halt' = "Running" /\ stage' = "Delay1"
    /\ irq' = Highest(pending)
    /\ UNCHANGED <<class, elapsed>>

ServiceCycle ==
    /\ \/ \E n \in 1 .. 4 :
             stage = IrqPhases[n] /\ stage' = IrqPhases[n + 1] /\ irq' = irq
       \/ stage = "Jump" /\ stage' = "Fetch" /\ irq' = 0
    /\ UNCHANGED <<ime, halt, class, elapsed>>

Acknowledged(pending) == IF TakesInterrupt(pending) THEN {Highest(pending)} ELSE {}

(* A cycle in which the core may write on the bus. *)
MayWrite ==
    \/ stage = "Busy" /\ class = "Other"
    \/ stage \in {"PushPcHi", "PushPcLo"}

(* One M-cycle with the given set of pending interrupts. *)
CoreCycle(pending) ==
    \/ \E c \in Class : FetchCycle(pending, c)
    \/ BusyCycle \/ ServiceCycle
    \/ HaltExecCycle(pending) \/ HaltedCycle(pending) \/ EntryCycle(pending)

CoreReset ==
    /\ ime' = "Disabled" /\ halt' = "Running" /\ stage' = "Fetch" /\ class' = "Other"
    /\ elapsed' = 0 /\ irq' = 0

CoreSpec ==
    CoreInit /\ [][(\E pending \in SUBSET Irq : CoreCycle(pending)) \/ CoreReset]_coreVars
=============================================================================

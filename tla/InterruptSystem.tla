--------------------------- MODULE InterruptSystem ---------------------------
(* The core, the interrupt controller (periph/interrupts) and the interrupt  *)
(* sources on the common clock (board/hardware_soc_core, board/clockgen).    *)
(*                                                                           *)
(* One step is one clock.  The core commits in the last of the four clocks   *)
(* of an M-cycle (m_ce); the sources set their one-clock request lines at    *)
(* any clock, so that requests race the sampling of the core, its            *)
(* acknowledge and the writes of the program.                                *)
EXTENDS InterruptCore

-----------------------------------------------------------------------------
(* The controller: the enable register IE and the request register IF.  A    *)
(* register is the set of the interrupt numbers whose bit is 1.              *)
VARIABLES
    ie,         \* ie_reg
    iflags      \* if_reg

intVars == <<ie, iflags>>

(* pending_bits: what the core samples. *)
Pending == ie \cap iflags

(* A CPU write that reaches the controller in this clock, or none. *)
NoWrite == [reg |-> "-", data |-> {}]

WrittenIf(write) == IF write.reg = "IF" THEN write.data ELSE iflags

(* Plausible defect: an acknowledge discards a pulse of the same clock.      *)
NextIfAckWins(written, ack, pulses) == (written \cup pulses) \ ack
(* A source that pulses in the clock of an acknowledge or a write wins. *)
NextIf(written, ack, pulses) == (written \ ack) \cup pulses

InterruptsClock(write, ack, pulses) ==
    /\ ie' = IF write.reg = "IE" THEN write.data ELSE ie
    /\ iflags' = NextIf(WrittenIf(write), ack, pulses)

InterruptsReset == ie' = {} /\ iflags' = {}
-----------------------------------------------------------------------------
(* The system.                                                               *)

CONSTANT Sources        \* the interrupt numbers in use

ASSUME SourcesAssumption == Sources \subseteq Irq

VARIABLES
    t,          \* t_index: the clock within the M-cycle
    lines,      \* the registered request lines of the sources
    gate,       \* history: what EI, DI, RETI and dispatches allow
    waiting     \* history: M-cycles an admissible request has been waiting

sysVars == <<ime, halt, stage, class, elapsed, irq, ie, iflags, t, lines, gate, waiting>>

SystemTypeOK ==
    /\ CoreTypeOK
    /\ ie \subseteq Sources /\ iflags \subseteq Sources /\ lines \subseteq Sources
    /\ t \in 0 .. 3
    /\ gate \in {"Off", "Shadow", "On"} /\ waiting \in Nat

SystemInit ==
    /\ CoreInit /\ ie = {} /\ iflags = {} /\ t = 0 /\ lines = {}
    /\ gate = "Off" /\ waiting = 0

(* A store of the program to IE or IF, or to anything else. *)
Writes == {NoWrite} \cup [reg : {"IE", "IF"}, data : SUBSET Sources]

(* Plausible defect: the enable decodes a count the index never shows.       *)
m_ceLate == t = 4
m_ce == t = 3
-----------------------------------------------------------------------------
(* The history variables, from the instruction stream alone.                 *)

Dispatches == stage # "Delay1" /\ stage' = "Delay1"
Completes == stage' \in {"Fetch", "Halted"} /\ stage \notin {"Halted", "Jump"}

(* A dispatch or DI closes the gate, RETI opens it, EI opens it once the     *)
(* instruction after it has completed.                                       *)
RecordGate ==
    gate' = IF Dispatches THEN "Off"
            ELSE IF ~ Completes THEN gate
            ELSE CASE class' = "Di" -> "Off"
                   [] class' = "Reti" -> "On"
                   [] class' = "Ei" /\ gate = "Off" -> "Shadow"
                   [] OTHER -> IF gate = "Shadow" THEN "On" ELSE gate

RecordWaiting ==
    waiting' = IF ime = "Enabled" /\ Pending # {} /\ ~ Dispatches THEN waiting + 1 ELSE 0
-----------------------------------------------------------------------------
(* A clock in which the core commits: it samples, acknowledges and stores.   *)
CommitClock ==
    /\ m_ce
    /\ t' = 0
    /\ \E write \in Writes :
          /\ write # NoWrite => MayWrite
          /\ InterruptsClock(write, Acknowledged(Pending), lines)
    /\ CoreCycle(Pending)
    /\ lines' \in SUBSET Sources
    /\ RecordGate /\ RecordWaiting

(* A clock between commits: only requests arrive. *)
OtherClock ==
    /\ ~ m_ce
    /\ t' = t + 1
    /\ InterruptsClock(NoWrite, {}, lines)
    /\ lines' \in SUBSET Sources
    /\ UNCHANGED <<ime, halt, stage, class, elapsed, irq, gate, waiting>>

SystemReset ==
    /\ CoreReset /\ InterruptsReset
    /\ t' = 0 /\ lines' = {} /\ gate' = "Off" /\ waiting' = 0

SystemNext == CommitClock \/ OtherClock \/ SystemReset

SystemSpec == SystemInit /\ [][SystemNext]_sysVars

(* The clock never stops. *)
FairSystemSpec == SystemSpec /\ WF_sysVars(CommitClock) /\ WF_sysVars(OtherClock)
-----------------------------------------------------------------------------
(* No request is lost and none is served twice: a request line is recorded   *)
(* even in the clock of an acknowledge or of a store to IF; a recorded       *)
(* request goes away only when the dispatch of that very interrupt begins or *)
(* the program stores to IF; and a dispatch begins only for a request that   *)
(* is recorded and enabled, and takes it back.                               *)
RequestsConserved ==
    [][SystemReset \/
        /\ lines \subseteq iflags'
        /\ \A i \in iflags \ iflags' :
              \/ Dispatches /\ irq' = i
              \/ m_ce /\ MayWrite
        /\ Dispatches => irq' \in Pending /\ (irq' \in iflags' => irq' \in lines)]_sysVars

(* An interrupt comes in only through an open gate: never inside a handler   *)
(* before RETI or EI, and never between EI and the instruction after it      *)
(* (resolve_ime, service_entry_output).                                      *)
NoUnexpectedInterrupt == [][Dispatches => gate = "On"]_sysVars

(* With IME on, a request is admitted within MaxBusy M-cycles, whatever      *)
(* instruction is in progress when it arrives (handle_fetch, handle_halted). *)
BoundedLatency == waiting <= MaxBusy

(* HALT always ends: a request that arrives before, in or after the M-cycle  *)
(* in which HALT executes wakes the core (halt_enter_delta, handle_halted).  *)
HaltEnds == (stage = "Halted" /\ Pending # {}) ~> (stage # "Halted")
=============================================================================

-------------------------------- MODULE Timer --------------------------------
(* The timer (periph/timer): TIMA counts falling edges of one bit of the     *)
(* system counter and, four clocks after it wraps, reloads from TMA and      *)
(* requests an interrupt.                                                    *)
(*                                                                           *)
(* TimerClock is one clock; counter is sys_counter in that clock and write   *)
(* the CPU write of that clock.                                              *)
EXTENDS Naturals

CONSTANTS
    TimaMod,        \* values of TIMA and TMA (256 in the source)
    Period          \* clocks per tick, by the clock select of TAC

ASSUME TimerAssumption ==
    /\ TimaMod \in Nat /\ TimaMod >= 2
    /\ DOMAIN Period # {}
    /\ \A s \in DOMAIN Period : Period[s] \in Nat /\ Period[s] >= 16 /\ Period[s] % 16 = 0

VARIABLES
    tima, tma,          \* tima_reg, tma_reg
    tac,                \* tac_reg: enabled and the clock select
    sampled_enabled,    \* sampled_timer_enabled
    sampled_bit,        \* sampled_timer_bit
    overflow_delay,     \* overflow_delay_reg: clocks until the reload, 0 if none
    timer_irq           \* timer_irq_reg

timerVars == <<tima, tma, tac, sampled_enabled, sampled_bit, overflow_delay, timer_irq>>

Count == 0 .. TimaMod - 1
Select == DOMAIN Period
Tac == [enabled : BOOLEAN, select : Select]
ResetTac == [enabled |-> FALSE, select |-> CHOOSE s \in Select : TRUE]

OverflowDelay == 4

TimerTypeOK ==
    /\ tima \in Count /\ tma \in Count /\ tac \in Tac
    /\ sampled_enabled \in BOOLEAN /\ sampled_bit \in BOOLEAN
    /\ overflow_delay \in 0 .. OverflowDelay /\ timer_irq \in BOOLEAN

TimerInit ==
    /\ tima = 0 /\ tma = 0 /\ tac = ResetTac
    /\ sampled_enabled = FALSE /\ sampled_bit = FALSE
    /\ overflow_delay = 0 /\ timer_irq = FALSE

(* timer_bit: the counter bit that falls once per period. *)
TimerBit(counter, select) == counter % Period[select] >= Period[select] \div 2

NextTma(write) == IF write.reg = "TMA" THEN write.data ELSE tma
NextTac(write) == IF write.reg = "TAC" THEN write.data ELSE tac

(* A write to DIV zeroes the counter as the timer sees it, for that clock. *)
EffectiveCounter(counter, write) == IF write.reg = "DIV" THEN 0 ELSE counter

NextSampledBit(counter, write) ==
    TimerBit(EffectiveCounter(counter, write), NextTac(write).select)

TimerTick(counter, write) ==
    /\ sampled_enabled /\ NextTac(write).enabled
    /\ sampled_bit /\ ~ NextSampledBit(counter, write)

(* Plausible defect: the reload takes the TMA of the clock before.           *)
StaleReload(write) == tma
Reload(write) == NextTma(write)

SetTima(value, delay, request) ==
    tima' = value /\ overflow_delay' = delay /\ timer_irq' = request

(* Plausible defect: the wrap is detected one count late.                    *)
AtMaxLate == tima = TimaMod
AtMax == tima = TimaMod - 1

(* Plausible defect: two M-cycles to the reload.                             *)
DelayFromWrapLong == 2 * OverflowDelay
DelayFromWrap == OverflowDelay

(* In the order of the source: a write to TIMA overrides everything, a       *)
(* reload in progress overrides the tick.                                    *)
NextTima(counter, write) ==
    IF write.reg = "TIMA" THEN SetTima(write.data, 0, FALSE)
    ELSE IF overflow_delay = 1 THEN SetTima(Reload(write), 0, TRUE)
    ELSE IF overflow_delay > 1 THEN SetTima(tima, overflow_delay - 1, FALSE)
    ELSE IF ~ TimerTick(counter, write) THEN SetTima(tima, 0, FALSE)
    ELSE IF AtMax THEN SetTima(0, DelayFromWrap, FALSE)
    ELSE SetTima(tima + 1, 0, FALSE)

TimerClock(counter, write) ==
    /\ tma' = NextTma(write)
    /\ tac' = NextTac(write)
    /\ sampled_enabled' = NextTac(write).enabled
    /\ sampled_bit' = NextSampledBit(counter, write)
    /\ NextTima(counter, write)

TimerReset ==
    /\ tima' = 0 /\ tma' = 0 /\ tac' = ResetTac
    /\ sampled_enabled' = FALSE /\ sampled_bit' = FALSE
    /\ overflow_delay' = 0 /\ timer_irq' = FALSE
=============================================================================

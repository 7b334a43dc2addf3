----------------------------- MODULE Peripherals -----------------------------
(* Timer, serial port and joypad on the common clock, driven by the writes   *)
(* the core can make and by the keys of the player (board/clockgen,          *)
(* board/hardware_soc_core).                                                 *)
(*                                                                           *)
(* One step is one clock.  A write reaches a peripheral in the last clock of *)
(* an M-cycle; two writes in consecutive M-cycles come from the two bytes of *)
(* one 16-bit store or push, so they go to neighbouring addresses.           *)
EXTENDS Timer, Serial, Joypad

CONSTANTS
    CounterMod,     \* bound: sys_counter is kept modulo this
    DivUnit         \* counter steps per step of DIV (256 in the source)

ASSUME CounterAssumption ==
    /\ CounterMod \in Nat /\ CounterMod > 0 /\ CounterMod % 16 = 0
    /\ \A s \in DOMAIN Period : CounterMod % Period[s] = 0
    /\ DivUnit \in Nat /\ DivUnit > 0

VARIABLES
    sys_counter,    \* the free-running counter of the timebase
    keys,           \* the keys held down
    last_write,     \* the register written in the previous M-cycle
    paired,         \* that write was the second of a pair
    focus,          \* the part the program uses (they share no register)
    wrap_age,       \* history: clocks since TIMA wrapped, 0 if settled
    shift_age       \* history: M-cycle of the transfer in progress, 0 if none

periphVars == <<tima, tma, tac, sampled_enabled, sampled_bit, overflow_delay, timer_irq,
                sb, sc, cycles_left, serial_irq, select_reg, prev_pressed, joypad_irq,
                sys_counter, keys, last_write, paired, focus, wrap_age, shift_age>>

NoWrite == [reg |-> "-", data |-> 0]

(* The registers at 0xFF00 to 0xFF07, by the low digit of their address. *)
Address == [P1 |-> 0, SB |-> 1, SC |-> 2, DIV |-> 4, TIMA |-> 5, TMA |-> 6, TAC |-> 7]
Neighbour(r, s) == Address[r] = Address[s] + 1 \/ Address[s] = Address[r] + 1

TimerWrites ==
    {[reg |-> "DIV", data |-> 0]} \cup [reg : {"TIMA", "TMA"}, data : Count]
        \cup [reg : {"TAC"}, data : Tac]
PortWrites ==
    [reg : {"P1"}, data : SUBSET Group] \cup [reg : {"SC"}, data : SUBSET {0, 7}]
        \cup {[reg |-> "SB", data |-> 0]}

m_ce == sys_counter % 4 = 3

(* The writes the core can make in this clock: none, a first one, or the     *)
(* second one of a pair.                                                     *)
PossibleWrites ==
    LET registers == IF focus = "Timer" THEN TimerWrites ELSE PortWrites
    IN {NoWrite} \cup
       {w \in registers :
          m_ce /\ (last_write # "-" => ~ paired /\ Neighbour(w.reg, last_write))}

PeriphInit ==
    /\ TimerInit /\ SerialInit /\ JoypadInit
    /\ keys = {} /\ last_write = "-" /\ paired = FALSE /\ wrap_age = 0 /\ shift_age = 0
    /\ sys_counter = 0 /\ focus \in {"Timer", "Ports"}

(* Clocks since the last wrap, as long as TIMA is not written. *)
RecordWrap(write) ==
    wrap_age' = IF write.reg = "TIMA" THEN 0
                ELSE IF wrap_age \in 1 .. 4 THEN wrap_age + 1
                ELSE IF tima = TimaMod - 1 /\ tima' = 0 THEN 1 ELSE 0

(* The M-cycle of the transfer: a start counts as the first. *)
RecordShift(write) ==
    shift_age' = IF write.reg = "SC" THEN (IF write.data = {0, 7} THEN 1 ELSE 0)
                 ELSE IF ~ m_ce \/ shift_age = 0 THEN shift_age
                 ELSE (shift_age + 1) % 9

Clock(write) ==
    /\ TimerClock(sys_counter, write)
    /\ SerialClock(m_ce, write)
    /\ JoypadClock(write, keys)
    /\ sys_counter' = (sys_counter + 1) % CounterMod
    /\ last_write' = IF m_ce THEN write.reg ELSE last_write
    /\ paired' = IF m_ce THEN write.reg # "-" /\ last_write # "-" ELSE paired
    /\ keys' \in (IF focus = "Ports" THEN SUBSET Keys ELSE {{}})
    /\ RecordWrap(write) /\ RecordShift(write)
    /\ UNCHANGED focus

PeriphReset ==
    /\ TimerReset /\ SerialReset /\ JoypadReset
    /\ keys' = {} /\ last_write' = "-" /\ paired' = FALSE /\ wrap_age' = 0
    /\ shift_age' = 0 /\ sys_counter' = 0 /\ UNCHANGED focus

PeriphNext == (\E write \in PossibleWrites : Clock(write)) \/ PeriphReset

PeriphSpec == PeriphInit /\ [][PeriphNext]_periphVars
-----------------------------------------------------------------------------
PeripheralsTypeOK ==
    /\ TimerTypeOK /\ SerialTypeOK /\ JoypadTypeOK
    /\ sys_counter \in 0 .. CounterMod - 1 /\ keys \subseteq Keys
    /\ last_write \in {"-"} \cup DOMAIN Address /\ paired \in BOOLEAN
    /\ wrap_age \in 0 .. 5 /\ shift_age \in 0 .. 8

(* TIMA misses no tick: the reload, which takes precedence over the tick,    *)
(* is never in progress when the selected counter bit falls, whichever       *)
(* register the program has written or is writing (timer, the order of the   *)
(* branches that compute next_tima_reg).                                     *)
NoTickSwallowed ==
    \A write \in PossibleWrites :
        overflow_delay > 0 /\ write.reg # "TIMA" => ~ TimerTick(sys_counter, write)

(* Unless TIMA is written meanwhile, the fifth clock after a wrap and no     *)
(* other shows the request, together with the TMA of that very clock; in     *)
(* between TIMA reads zero (timer, overflow_delay_reg).                      *)
ReloadOnTime ==
    /\ timer_irq <=> wrap_age = 5
    /\ wrap_age = 5 => tima = tma
    /\ wrap_age \in 1 .. 4 => tima = 0

(* A transfer requests its interrupt exactly when its eighth M-cycle ends,   *)
(* and a transfer that is restarted before starts over; SC shows a transfer  *)
(* in progress for just that long (serial, start against progress).          *)
TransferOnTime ==
    /\ [][\/ PeriphReset
          \/ serial_irq' <=> m_ce /\ shift_age = 8 /\ shift_age' # 1]_periphVars
    /\ [](TransferActive <=> shift_age # 0)

(* After a write to DIV the counter starts again from zero, so DIV reads     *)
(* zero in the next M-cycle (test/unit/test_timer.py).                       *)
DivWriteRestarts == last_write = "DIV" => sys_counter \div DivUnit = 0
=============================================================================

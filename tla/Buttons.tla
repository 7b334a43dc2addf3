------------------------------ MODULE Buttons ------------------------------
(* The two debouncers of the boards: board/reset_bridge, which turns the     *)
(* button BTN_N into the reset, and one button of periph/button_bank.  Both  *)
(* pass a pin that bounces at will through two registers.  A step is one     *)
(* clock of one of them; they share nothing.                                 *)
EXTENDS Integers

CONSTANTS
    MaxTicks,      \* 65535, where the counter of the bridge saturates
    TickSettings,  \* pairs of debounce_ticks_i and release_hold_ticks_i
    HalfCount      \* 2^(DEBOUNCE_BITS - 1)

ASSUME ButtonAssumption ==
    /\ MaxTicks \in Nat \ {0} /\ HalfCount \in Nat \ {0}
    /\ TickSettings \subseteq (0 .. MaxTicks) \X (0 .. MaxTicks)

VARIABLES
    ticks,        \* the inputs debounce_ticks_i and release_hold_ticks_i
    bridge,       \* sync_stage0, sync_stage1, debounced_btn_n, counter
    bank,         \* the same of one button, and its two edge registers
    bridge_pins,  \* history: what the pin was in the last clocks, newest first
    bank_pins

buttonVars == <<ticks, bridge, bank, bridge_pins, bank_pins>>

AtMost(n, bound) == IF n > bound THEN bound ELSE n
Shifted(pins, pin) == [i \in DOMAIN pins |-> IF i = 1 THEN pin ELSE pins[i - 1]]

saturating_inc(n) == AtMost(n + 1, MaxTicks)
(* A release has to last longer than a press.                                *)
stable_ticks_required(btn_n) == IF btn_n THEN AtMost(ticks[1] + ticks[2], MaxTicks) ELSE ticks[1]
transition_ready ==
    LET required == stable_ticks_required(bridge.stage1)
    IN required = 0 \/ saturating_inc(bridge.counter) >= required

next_debounced_btn_n ==
    IF bridge.stage1 # bridge.debounced /\ transition_ready THEN bridge.stage1 ELSE bridge.debounced

(* Plausible defect: the bounces back do not clear the count.                *)
CountKept ==
    IF bridge.stage1 = bridge.debounced THEN bridge.counter
    ELSE IF transition_ready THEN 0 ELSE saturating_inc(bridge.counter)
next_counter ==
    IF bridge.stage1 = bridge.debounced \/ transition_ready THEN 0 ELSE saturating_inc(bridge.counter)

reset_bridge(btn_n) ==
    [stage0 |-> btn_n, stage1 |-> bridge.stage0,
     debounced |-> next_debounced_btn_n, counter |-> next_counter]

(* The counter goes up while the button is pressed and down while it is not; *)
(* its highest bit is the debounced button.                                  *)
NextCount ==
    IF bank.stage1 THEN AtMost(bank.counter + 1, 2 * HalfCount - 1)
    ELSE IF bank.counter = 0 THEN 0 ELSE bank.counter - 1

button_bank_raw(button) ==
    LET pressed == NextCount >= HalfCount
    IN [stage0 |-> button, stage1 |-> bank.stage0, debounced |-> pressed, counter |-> NextCount,
        rising |-> pressed /\ ~ bank.debounced, falling |-> ~ pressed /\ bank.debounced]
-----------------------------------------------------------------------------
ButtonInit(settings) ==
    /\ ticks \in settings
    /\ bridge = [stage0 |-> FALSE, stage1 |-> FALSE, debounced |-> FALSE, counter |-> 0]
    /\ bank = [stage0 |-> FALSE, stage1 |-> FALSE, debounced |-> FALSE, counter |-> 0,
               rising |-> FALSE, falling |-> FALSE]
    /\ bridge_pins = [i \in 1 .. MaxTicks + 1 |-> FALSE]
    /\ bank_pins = [i \in 1 .. 3 * HalfCount |-> FALSE]

BridgeClock ==
    /\ \E btn_n \in BOOLEAN :
          bridge' = reset_bridge(btn_n) /\ bridge_pins' = Shifted(bridge_pins, btn_n)
    /\ UNCHANGED <<ticks, bank, bank_pins>>
BankClock ==
    /\ \E button \in BOOLEAN :
          bank' = button_bank_raw(button) /\ bank_pins' = Shifted(bank_pins, button)
    /\ UNCHANGED <<ticks, bridge, bridge_pins>>

ButtonNext == BridgeClock \/ BankClock
ButtonSpec == ButtonInit(TickSettings) /\ [][ButtonNext]_buttonVars
-----------------------------------------------------------------------------
(* The counters keep to their widths and the bridge's stays below the dwell. *)
ButtonTypeOK ==
    /\ bridge.counter \in 0 .. MaxTicks /\ bank.counter \in 0 .. 2 * HalfCount - 1
    /\ bridge.counter > 0 => bridge.counter < stable_ticks_required(~ bridge.debounced)

(* How long a level has to last to be taken: a sample at least.              *)
Dwell(btn_n) == LET n == stable_ticks_required(btn_n) IN IF n = 0 THEN 1 ELSE n
Steady(pins, first, last, level) == \A i \in first .. last : pins[i] = level

(* The reset is asserted or released in the clock in which the last samples  *)
(* of the pin, as many as that direction needs, agree on it, and in no other:*)
(* bounces neither add up nor hold it for ever, and from power-on it is      *)
(* asserted until a whole window of release (reset_bridge).                  *)
BridgeSwitches ==
    LET other == ~ bridge.debounced
    IN bridge'.debounced = other <=> Steady(bridge_pins, 2, 1 + Dwell(other), other)

(* A button that has been steady for half the counter's range is taken, and  *)
(* after a rest of the whole range a disturbance of less than half of it is  *)
(* never seen, however it bounces (button_bank_raw).  The two newest samples *)
(* are in the registers before the counter.                                  *)
ButtonSettles ==
    LET Disturbed(level) ==
            \E k \in 1 .. HalfCount - 1 : Steady(bank_pins', k + 3, k + 2 * HalfCount + 1, level)
    IN \A level \in BOOLEAN :
          Steady(bank_pins', 3, HalfCount + 2, level) \/ Disturbed(level) => bank'.debounced = level

(* Both debouncers follow their pins as described, bouncing or not.          *)
SwitchesWhenSteady ==
    [][[BridgeSwitches]_<<bridge, bridge_pins>> /\ [ButtonSettles]_<<bank, bank_pins>>]_buttonVars
=============================================================================

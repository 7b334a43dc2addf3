----------------------------- MODULE BoardProofs -----------------------------
(* Both debouncers of Buttons follow their pins as SwitchesWhenSteady says,  *)
(* for every width of the counters and every dwell; Display sends the pixels *)
(* of every frame in order, for every size of the panel; and the four clocks *)
(* of MemoryBus are one access, for every program.                           *)
EXTENDS Buttons, Display, MemoryBus, TLAPS

Bridges == [stage0 : BOOLEAN, stage1 : BOOLEAN, debounced : BOOLEAN, counter : 0 .. MaxTicks]
Banks == [stage0 : BOOLEAN, stage1 : BOOLEAN, debounced : BOOLEAN, counter : 0 .. 2 * HalfCount - 1,
          rising : BOOLEAN, falling : BOOLEAN]

(* The bridge counts the samples, behind the two in its registers, that      *)
(* differ from the button as it is taken, up to the first that does not.     *)
BridgeCounts ==
    /\ ticks \in (0 .. MaxTicks) \X (0 .. MaxTicks)
    /\ bridge \in Bridges
    /\ bridge_pins \in [1 .. MaxTicks + 1 -> BOOLEAN]
    /\ bridge.stage0 = bridge_pins[1] /\ bridge.stage1 = bridge_pins[2]
    /\ \A i \in 3 .. MaxTicks + 1 : i <= bridge.counter + 2 => bridge_pins[i] = ~ bridge.debounced
    /\ bridge.counter + 3 <= MaxTicks + 1 => bridge_pins[bridge.counter + 3] = bridge.debounced
    /\ bridge.counter < Dwell(~ bridge.debounced)

(* The counter of a button is at least as far up as the newest samples that  *)
(* are pressed say, and at least the whole range less the samples since a    *)
(* rest of that range; and the other way round.                              *)
BankCounts ==
    /\ bank \in Banks
    /\ bank_pins \in [1 .. 3 * HalfCount -> BOOLEAN]
    /\ bank.stage0 = bank_pins[1] /\ bank.stage1 = bank_pins[2]
    /\ \A n \in 0 .. 2 * HalfCount - 1 :
          /\ Steady(bank_pins, 3, n + 2, TRUE) => bank.counter >= n
          /\ Steady(bank_pins, 3, n + 2, FALSE) => bank.counter <= 2 * HalfCount - 1 - n
    /\ \A k \in 1 .. HalfCount - 1 :
          /\ Steady(bank_pins, k + 3, k + 2 * HalfCount + 1, TRUE) => bank.counter >= 2 * HalfCount - 1 - k
          /\ Steady(bank_pins, k + 3, k + 2 * HalfCount + 1, FALSE) => bank.counter <= k
-----------------------------------------------------------------------------
(* A dwell is a sample at least and never longer than the counter reaches.   *)
LEMMA DwellBound ==
    ASSUME ticks \in (0 .. MaxTicks) \X (0 .. MaxTicks), NEW level \in BOOLEAN
    PROVE  /\ Dwell(level) \in 1 .. MaxTicks
           /\ stable_ticks_required(level) \in 0 .. MaxTicks
           /\ Dwell(level) = IF stable_ticks_required(level) = 0 THEN 1 ELSE stable_ticks_required(level)
  <1>1. ticks[1] \in 0 .. MaxTicks /\ ticks[2] \in 0 .. MaxTicks
    OBVIOUS
  <1>2. stable_ticks_required(level) \in 0 .. MaxTicks
    BY <1>1, ButtonAssumption DEF stable_ticks_required, AtMost
  <1> QED
    BY <1>2, ButtonAssumption DEF Dwell

(* A debouncer starts with its button pressed, and so do the samples.        *)
LEMMA BridgeInit == ButtonInit(TickSettings) => BridgeCounts
  <1> SUFFICES ASSUME ButtonInit(TickSettings) PROVE BridgeCounts
    OBVIOUS
  <1>1. ticks \in (0 .. MaxTicks) \X (0 .. MaxTicks)
    BY ButtonAssumption DEF ButtonInit
  <1>2. Dwell(~ bridge.debounced) \in 1 .. MaxTicks
    BY <1>1, DwellBound DEF ButtonInit
  <1>3. /\ bridge = [stage0 |-> FALSE, stage1 |-> FALSE, debounced |-> FALSE, counter |-> 0]
        /\ bridge_pins = [i \in 1 .. MaxTicks + 1 |-> FALSE]
        /\ MaxTicks \in Nat \ {0}
    BY ButtonAssumption DEF ButtonInit
  <1>4. /\ bridge \in Bridges /\ bridge_pins \in [1 .. MaxTicks + 1 -> BOOLEAN]
        /\ bridge.counter = 0 /\ bridge.debounced = FALSE
        /\ bridge.stage0 = FALSE /\ bridge.stage1 = FALSE
    BY <1>3 DEF Bridges
  <1>5. \A i \in 1 .. MaxTicks + 1 : bridge_pins[i] = FALSE
    BY <1>3
  <1>6. 1 \in 1 .. MaxTicks + 1 /\ 2 \in 1 .. MaxTicks + 1
    BY <1>3
  <1>7. bridge.counter + 3 <= MaxTicks + 1 => bridge.counter + 3 \in 1 .. MaxTicks + 1
    BY <1>3, <1>4
  <1>8. \A i \in 3 .. MaxTicks + 1 : ~ (i <= bridge.counter + 2)
    BY <1>3, <1>4
  <1>9. bridge.counter < Dwell(~ bridge.debounced)
    BY <1>2, <1>4
  <1> QED
    BY <1>1, <1>4, <1>5, <1>6, <1>7, <1>8, <1>9 DEF BridgeCounts

(* So does the counter of a button, at rest.                                 *)
LEMMA BankInit == ButtonInit(TickSettings) => BankCounts
  <1> SUFFICES ASSUME ButtonInit(TickSettings) PROVE BankCounts
    OBVIOUS
  <1>1. /\ bank = [stage0 |-> FALSE, stage1 |-> FALSE, debounced |-> FALSE, counter |-> 0,
                   rising |-> FALSE, falling |-> FALSE]
        /\ bank_pins = [i \in 1 .. 3 * HalfCount |-> FALSE]
        /\ HalfCount \in Nat \ {0}
    BY ButtonAssumption DEF ButtonInit
  <1>2. /\ bank \in Banks /\ bank_pins \in [1 .. 3 * HalfCount -> BOOLEAN]
        /\ bank.counter = 0 /\ bank.stage0 = FALSE /\ bank.stage1 = FALSE
    BY <1>1 DEF Banks
  <1>3. \A i \in 1 .. 3 * HalfCount : bank_pins[i] = FALSE
    BY <1>1
  <1>4. \A n \in 1 .. 2 * HalfCount - 1 : ~ Steady(bank_pins, 3, n + 2, TRUE)
    BY <1>1, <1>3 DEF Steady
  <1>5. \A k \in 1 .. HalfCount - 1 : ~ Steady(bank_pins, k + 3, k + 2 * HalfCount + 1, TRUE)
    BY <1>1, <1>3 DEF Steady
  <1>6. bank.stage0 = bank_pins[1] /\ bank.stage1 = bank_pins[2]
    <2>1. 1 \in 1 .. 3 * HalfCount /\ 2 \in 1 .. 3 * HalfCount
      BY <1>1
    <2> QED
      BY <2>1, <1>2, <1>3
  <1>7. \A n \in 0 .. 2 * HalfCount - 1 :
          /\ Steady(bank_pins, 3, n + 2, TRUE) => bank.counter >= n
          /\ Steady(bank_pins, 3, n + 2, FALSE) => bank.counter <= 2 * HalfCount - 1 - n
    <2> SUFFICES ASSUME NEW n \in 0 .. 2 * HalfCount - 1
                 PROVE  /\ Steady(bank_pins, 3, n + 2, TRUE) => 0 >= n
                        /\ 0 <= 2 * HalfCount - 1 - n
      BY <1>2
    <2>1. 0 <= 2 * HalfCount - 1 - n
      BY <1>1
    <2>2. CASE n = 0
      BY <2>1, <2>2
    <2>3. CASE n \in 1 .. 2 * HalfCount - 1
      <3>1. ~ Steady(bank_pins, 3, n + 2, TRUE)
        BY <2>3, <1>4
      <3> QED
        BY <3>1, <2>1
    <2>4. n = 0 \/ n \in 1 .. 2 * HalfCount - 1
      BY <1>1
    <2> QED
      BY <2>2, <2>3, <2>4
  <1>8. \A k \in 1 .. HalfCount - 1 :
          /\ Steady(bank_pins, k + 3, k + 2 * HalfCount + 1, TRUE) => bank.counter >= 2 * HalfCount - 1 - k
          /\ Steady(bank_pins, k + 3, k + 2 * HalfCount + 1, FALSE) => bank.counter <= k
    <2> SUFFICES ASSUME NEW k \in 1 .. HalfCount - 1
                 PROVE  ~ Steady(bank_pins, k + 3, k + 2 * HalfCount + 1, TRUE) /\ 0 <= k
      BY <1>2
    <2>1. ~ Steady(bank_pins, k + 3, k + 2 * HalfCount + 1, TRUE)
      BY <1>5
    <2>2. 0 <= k
      BY <1>1
    <2> QED
      BY <2>1, <2>2
  <1> QED
    BY <1>2, <1>6, <1>7, <1>8 DEF BankCounts

(* A clock of the bridge: what it makes of the pin, and the count it keeps.  *)
LEMMA BridgeStep ==
    ASSUME BridgeCounts, BridgeClock
    PROVE  BridgeCounts' /\ BridgeSwitches
  <1> DEFINE other == ~ bridge.debounced
             c == bridge.counter
             dwell == Dwell(other)
  <1>1. /\ bridge \in Bridges /\ other \in BOOLEAN /\ c \in 0 .. MaxTicks
        /\ bridge_pins \in [1 .. MaxTicks + 1 -> BOOLEAN]
        /\ MaxTicks \in Nat \ {0}
    BY ButtonAssumption DEF BridgeCounts, Bridges
  <1>2. dwell \in 1 .. MaxTicks /\ c < dwell
    BY <1>1, DwellBound DEF BridgeCounts
  <1>3. PICK btn_n \in BOOLEAN :
          bridge' = reset_bridge(btn_n) /\ bridge_pins' = Shifted(bridge_pins, btn_n)
    BY DEF BridgeClock
  <1>4. ticks' = ticks
    BY DEF BridgeClock
  <1>5. /\ bridge_pins' \in [1 .. MaxTicks + 1 -> BOOLEAN]
        /\ bridge_pins'[1] = btn_n
        /\ \A i \in 2 .. MaxTicks + 1 : bridge_pins'[i] = bridge_pins[i - 1]
    BY <1>1, <1>3 DEF Shifted
  <1>6. /\ bridge'.stage0 = btn_n /\ bridge'.stage1 = bridge.stage0
        /\ bridge'.debounced = next_debounced_btn_n /\ bridge'.counter = next_counter
        /\ bridge' = [stage0 |-> btn_n, stage1 |-> bridge.stage0,
                      debounced |-> next_debounced_btn_n, counter |-> next_counter]
    BY <1>3 DEF reset_bridge
  <1>7. /\ bridge.stage0 = bridge_pins[1] /\ bridge.stage1 = bridge_pins[2]
        /\ \A i \in 3 .. MaxTicks + 1 : i <= c + 2 => bridge_pins[i] = other
        /\ c + 3 <= MaxTicks + 1 => bridge_pins[c + 3] = bridge.debounced
    BY DEF BridgeCounts
  <1>8. ASSUME bridge'.debounced \in BOOLEAN, bridge'.counter \in 0 .. MaxTicks
        PROVE  /\ bridge' \in Bridges
               /\ bridge'.stage0 = bridge_pins'[1] /\ bridge'.stage1 = bridge_pins'[2]
    <2>1. bridge.stage0 \in BOOLEAN /\ 2 \in 2 .. MaxTicks + 1
      BY <1>1 DEF Bridges
    <2> QED
      BY <2>1, <1>8, <1>5, <1>6, <1>7 DEF Bridges
  <1>9. 3 <= MaxTicks + 1 => bridge_pins'[3] = bridge.stage1
    BY <1>1, <1>5, <1>7
  <1>10. (Dwell(~ bridge.debounced))' = Dwell(~ (bridge'.debounced))
    BY <1>4 DEF Dwell, stable_ticks_required
  <1>11. CASE bridge.stage1 = bridge.debounced
    <2>1. bridge'.debounced = bridge.debounced /\ bridge'.counter = 0
      BY <1>6, <1>11 DEF next_debounced_btn_n, next_counter
    <2>2. BridgeSwitches
      BY <2>1, <1>11, <1>7, <1>2, <1>1 DEF BridgeSwitches, Steady
    <2>3. 0 < (Dwell(~ bridge.debounced))'
      BY <2>1, <1>10, <1>2, <1>1
    <2>4. bridge'.debounced \in BOOLEAN /\ bridge'.counter \in 0 .. MaxTicks
      BY <2>1, <1>1 DEF Bridges
    <2>5. /\ bridge' \in Bridges
          /\ bridge'.stage0 = bridge_pins'[1] /\ bridge'.stage1 = bridge_pins'[2]
      BY <2>4, <1>8
    <2>6. 3 <= MaxTicks + 1 => bridge_pins'[3] = bridge'.debounced
      BY <2>1, <1>11, <1>9
    <2> QED
      BY <2>1, <2>2, <2>3, <2>4, <2>5, <2>6, <1>1, <1>4, <1>5 DEF BridgeCounts
  <1>12. CASE bridge.stage1 = other /\ c + 1 = dwell
    <2>1. bridge'.debounced = other /\ bridge'.counter = 0
      <3>1. transition_ready
        <4>1. Dwell(other) = IF stable_ticks_required(other) = 0 THEN 1 ELSE stable_ticks_required(other)
          BY <1>1, DwellBound DEF BridgeCounts
        <4>2. saturating_inc(c) = dwell
          BY <1>12, <1>1, <1>2 DEF saturating_inc, AtMost
        <4>3. stable_ticks_required(other) = 0 \/ stable_ticks_required(other) = dwell
          BY <4>1
        <4> QED
          BY <4>2, <4>3, <1>12, <1>2 DEF transition_ready
      <3> QED
        BY <3>1, <1>1, <1>6, <1>12 DEF next_debounced_btn_n, next_counter, Bridges
    <2>2. Steady(bridge_pins, 2, 1 + dwell, other)
      BY <1>12, <1>7, <1>2, <1>1 DEF Steady
    <2>3. BridgeSwitches
      BY <2>1, <2>2 DEF BridgeSwitches
    <2>4. 0 < (Dwell(~ bridge.debounced))'
      <3>1. (~ (bridge'.debounced)) \in BOOLEAN
        OBVIOUS
      <3>2. Dwell(~ (bridge'.debounced)) \in 1 .. MaxTicks
        BY <3>1, DwellBound DEF BridgeCounts
      <3> QED
        BY <3>2, <1>10, <1>1
    <2>5. bridge'.debounced \in BOOLEAN /\ bridge'.counter \in 0 .. MaxTicks
      BY <2>1, <1>1
    <2>6. /\ bridge' \in Bridges
          /\ bridge'.stage0 = bridge_pins'[1] /\ bridge'.stage1 = bridge_pins'[2]
      BY <2>5, <1>8
    <2>7. 3 <= MaxTicks + 1 => bridge_pins'[3] = bridge'.debounced
      BY <2>1, <1>12, <1>9
    <2> QED
      BY <2>1, <2>3, <2>4, <2>5, <2>6, <2>7, <1>1, <1>4, <1>5 DEF BridgeCounts
  <1>13. CASE bridge.stage1 = other /\ c + 1 < dwell
    <2>1. bridge'.debounced = bridge.debounced /\ bridge'.counter = c + 1
      <3>1. ~ transition_ready /\ saturating_inc(c) = c + 1
        <4>1. Dwell(other) = IF stable_ticks_required(other) = 0 THEN 1 ELSE stable_ticks_required(other)
          BY <1>1, DwellBound DEF BridgeCounts
        <4>2. saturating_inc(c) = c + 1
          BY <1>13, <1>1, <1>2 DEF saturating_inc, AtMost
        <4>3. stable_ticks_required(other) = dwell
          BY <4>1, <1>13, <1>1
        <4> QED
          BY <4>2, <4>3, <1>13, <1>1, <1>2 DEF transition_ready
      <3> QED
        BY <3>1, <1>1, <1>6, <1>13 DEF next_debounced_btn_n, next_counter, Bridges
    <2>2. ~ Steady(bridge_pins, 2, 1 + dwell, other)
      <3>1. c + 3 \in 2 .. 1 + dwell /\ bridge_pins[c + 3] # other
        BY <1>13, <1>7, <1>2, <1>1 DEF Bridges
      <3> QED
        BY <3>1 DEF Steady
    <2>3. BridgeSwitches
      BY <2>1, <2>2, <1>1 DEF BridgeSwitches, Bridges
    <2>4. bridge'.counter < (Dwell(~ bridge.debounced))'
      BY <2>1, <1>10, <1>2, <1>1, <1>13
    <2>5. bridge'.debounced \in BOOLEAN /\ bridge'.counter \in 0 .. MaxTicks
      BY <2>1, <1>1, <1>2, <1>13 DEF Bridges
    <2>6. /\ bridge' \in Bridges
          /\ bridge'.stage0 = bridge_pins'[1] /\ bridge'.stage1 = bridge_pins'[2]
      BY <2>5, <1>8
    <2>7. \A i \in 3 .. MaxTicks + 1 : i <= bridge'.counter + 2 => bridge_pins'[i] = ~ bridge'.debounced
      <3> SUFFICES ASSUME NEW i \in 3 .. MaxTicks + 1, i <= c + 3 PROVE bridge_pins'[i] = other
        <4>1. \A i \in 3 .. MaxTicks + 1 : i <= bridge'.counter + 2 => i <= c + 3
          BY <2>1, <1>1
        <4> QED
          BY <4>1, <2>1
      <3>1. CASE i = 3
        BY <3>1, <1>13, <1>9
      <3>2. CASE i # 3
        <4>1. i - 1 \in 3 .. MaxTicks + 1 /\ i - 1 <= c + 2 /\ i \in 2 .. MaxTicks + 1
          BY <3>2, <1>1
        <4> QED
          BY <4>1, <1>5, <1>7
      <3> QED
        BY <3>1, <3>2
    <2>8. bridge'.counter + 3 <= MaxTicks + 1 => bridge_pins'[bridge'.counter + 3] = bridge'.debounced
      BY <2>1, <1>1, <1>5, <1>7
    <2> QED
      BY <2>3, <2>4, <2>5, <2>6, <2>7, <2>8, <1>4, <1>5 DEF BridgeCounts
  <1> QED
    BY <1>1, <1>2, <1>11, <1>12, <1>13 DEF Bridges

(* A clock of a button's counter: every window of pins ages by one sample.   *)
LEMMA BankStep ==
    ASSUME BankCounts, BankClock
    PROVE  BankCounts' /\ ButtonSettles
  <1> DEFINE h == HalfCount
             n == bank.counter
  <1>1. /\ bank \in Banks /\ n \in 0 .. 2 * h - 1
        /\ bank_pins \in [1 .. 3 * h -> BOOLEAN] /\ h \in Nat \ {0}
        /\ bank.stage0 = bank_pins[1] /\ bank.stage1 = bank_pins[2]
    BY ButtonAssumption DEF BankCounts, Banks
  <1>2. PICK button \in BOOLEAN :
          bank' = button_bank_raw(button) /\ bank_pins' = Shifted(bank_pins, button)
    BY DEF BankClock
  <1>3. /\ bank_pins' \in [1 .. 3 * h -> BOOLEAN]
        /\ bank_pins'[1] = button
        /\ \A i \in 2 .. 3 * h : bank_pins'[i] = bank_pins[i - 1]
    BY <1>1, <1>2 DEF Shifted
  <1>4. /\ bank'.stage0 = button /\ bank'.stage1 = bank.stage0
        /\ bank'.counter = NextCount /\ bank'.debounced = (NextCount >= h)
        /\ bank'.rising \in BOOLEAN /\ bank'.falling \in BOOLEAN
    BY <1>2, <1>1 DEF button_bank_raw, Banks
  <1>5. /\ NextCount \in 0 .. 2 * h - 1 /\ NextCount >= n - 1 /\ NextCount <= n + 1
        /\ bank_pins'[3] = TRUE => NextCount = IF n = 2 * h - 1 THEN n ELSE n + 1
        /\ bank_pins'[3] = FALSE => NextCount = IF n = 0 THEN 0 ELSE n - 1
    <2>1. bank_pins'[3] = bank.stage1 /\ bank.stage1 \in BOOLEAN
      BY <1>1, <1>3 DEF Banks
    <2> QED
      BY <2>1, <1>1 DEF NextCount, AtMost
  <1>6. ASSUME NEW m \in 1 .. 2 * h - 1, NEW level \in BOOLEAN, Steady(bank_pins', 3, m + 2, level)
        PROVE  Steady(bank_pins, 3, (m - 1) + 2, level) /\ bank_pins'[3] = level
    <2>1. \A i \in 3 .. m + 2 : bank_pins'[i] = level
      BY <1>6 DEF Steady
    <2>2. \A i \in 3 .. m + 1 : bank_pins[i] = level
      <3> SUFFICES ASSUME NEW i \in 3 .. m + 1 PROVE bank_pins[i] = level
        OBVIOUS
      <3>1. i + 1 \in 3 .. m + 2 /\ i + 1 \in 2 .. 3 * h /\ (i + 1) - 1 = i
        BY <1>1
      <3> QED
        BY <3>1, <2>1, <1>3
    <2>3. (m - 1) + 2 = m + 1 /\ 3 \in 3 .. m + 2
      OBVIOUS
    <2> QED
      BY <2>1, <2>2, <2>3 DEF Steady
  <1>7. \A m \in 0 .. 2 * h - 1 :
          /\ Steady(bank_pins', 3, m + 2, TRUE) => NextCount >= m
          /\ Steady(bank_pins', 3, m + 2, FALSE) => NextCount <= 2 * h - 1 - m
    <2> SUFFICES ASSUME NEW m \in 1 .. 2 * h - 1
                 PROVE  /\ Steady(bank_pins', 3, m + 2, TRUE) => NextCount >= m
                        /\ Steady(bank_pins', 3, m + 2, FALSE) => NextCount <= 2 * h - 1 - m
      <3>1. NextCount >= 0 /\ NextCount <= 2 * h - 1 - 0
        BY <1>5, <1>1
      <3>2. \A m \in 0 .. 2 * h - 1 : m = 0 \/ m \in 1 .. 2 * h - 1
        BY <1>1
      <3> QED
        BY <3>1, <3>2
    <2>1. m - 1 \in 0 .. 2 * h - 1
      BY <1>1
    <2>2. /\ Steady(bank_pins, 3, (m - 1) + 2, TRUE) => n >= m - 1
          /\ Steady(bank_pins, 3, (m - 1) + 2, FALSE) => n <= 2 * h - 1 - (m - 1)
      BY <2>1 DEF BankCounts
    <2>3. CASE Steady(bank_pins', 3, m + 2, TRUE)
      <3>1. bank_pins'[3] = TRUE /\ n >= m - 1
        BY <2>2, <2>3, <1>6
      <3>2. NextCount >= m
        BY <3>1, <1>5, <1>1
      <3>3. ~ Steady(bank_pins', 3, m + 2, FALSE)
        BY <3>1, <1>6
      <3> QED
        BY <3>2, <3>3
    <2>4. CASE Steady(bank_pins', 3, m + 2, FALSE)
      <3>1. bank_pins'[3] = FALSE /\ n <= 2 * h - 1 - (m - 1)
        BY <2>2, <2>4, <1>6
      <3>2. NextCount <= 2 * h - 1 - m
        BY <3>1, <1>5, <1>1
      <3>3. ~ Steady(bank_pins', 3, m + 2, TRUE)
        BY <3>1, <1>6
      <3> QED
        BY <3>2, <3>3
    <2> QED
      BY <2>3, <2>4
  <1>8. ASSUME NEW k \in 1 .. h - 1, NEW level \in BOOLEAN, Steady(bank_pins', k + 3, k + 2 * h + 1, level)
        PROVE  Steady(bank_pins, (k - 1) + 3, (k - 1) + 2 * h + 1, level)
    <2>1. \A i \in k + 3 .. k + 2 * h + 1 : bank_pins'[i] = level
      BY <1>8 DEF Steady
    <2>2. \A i \in (k - 1) + 3 .. (k - 1) + 2 * h + 1 : bank_pins[i] = level
      <3> SUFFICES ASSUME NEW i \in (k - 1) + 3 .. (k - 1) + 2 * h + 1 PROVE bank_pins[i] = level
        OBVIOUS
      <3>1. i + 1 \in k + 3 .. k + 2 * h + 1 /\ i + 1 \in 2 .. 3 * h /\ (i + 1) - 1 = i
        BY <1>1
      <3> QED
        BY <3>1, <2>1, <1>3
    <2> QED
      BY <2>2 DEF Steady
  <1>9. \A k \in 1 .. h - 1 :
          /\ Steady(bank_pins', k + 3, k + 2 * h + 1, TRUE) => NextCount >= 2 * h - 1 - k
          /\ Steady(bank_pins', k + 3, k + 2 * h + 1, FALSE) => NextCount <= k
    <2> SUFFICES ASSUME NEW k \in 1 .. h - 1
                 PROVE  /\ Steady(bank_pins', k + 3, k + 2 * h + 1, TRUE) => NextCount >= 2 * h - 1 - k
                        /\ Steady(bank_pins', k + 3, k + 2 * h + 1, FALSE) => NextCount <= k
      OBVIOUS
    <2>1. /\ Steady(bank_pins, (k - 1) + 3, (k - 1) + 2 * h + 1, TRUE) => n >= 2 * h - 1 - (k - 1)
          /\ Steady(bank_pins, (k - 1) + 3, (k - 1) + 2 * h + 1, FALSE) => n <= k - 1
      <3>1. CASE k = 1
        <4>1. 2 * h - 1 \in 0 .. 2 * h - 1
          BY <1>1
        <4>2. /\ Steady(bank_pins, 3, (2 * h - 1) + 2, TRUE) => n >= 2 * h - 1
              /\ Steady(bank_pins, 3, (2 * h - 1) + 2, FALSE) => n <= 2 * h - 1 - (2 * h - 1)
          BY <4>1 DEF BankCounts
        <4>3. (k - 1) + 3 = 3 /\ (k - 1) + 2 * h + 1 = (2 * h - 1) + 2
          BY <3>1, <1>1
        <4>4. 2 * h - 1 - (k - 1) = 2 * h - 1 /\ 2 * h - 1 - (2 * h - 1) = k - 1
          BY <3>1, <1>1
        <4> QED
          BY <4>2, <4>3, <4>4
      <3>2. CASE k # 1
        <4>1. k - 1 \in 1 .. h - 1
          BY <3>2, <1>1
        <4> QED
          BY <4>1, <1>1 DEF BankCounts
      <3> QED
        BY <3>1, <3>2
    <2>2. ASSUME Steady(bank_pins', k + 3, k + 2 * h + 1, TRUE) PROVE NextCount >= 2 * h - 1 - k
      <3>1. n >= 2 * h - 1 - (k - 1)
        BY <2>1, <2>2, <1>8
      <3> QED
        BY <3>1, <1>5, <1>1
    <2>3. ASSUME Steady(bank_pins', k + 3, k + 2 * h + 1, FALSE) PROVE NextCount <= k
      <3>1. n <= k - 1
        BY <2>1, <2>3, <1>8
      <3> QED
        BY <3>1, <1>5, <1>1
    <2> QED
      BY <2>2, <2>3
  <1>10. BankCounts'
    <2>1. bank' \in Banks
      BY <1>1, <1>2, <1>5 DEF Banks, button_bank_raw
    <2>2. bank'.stage0 = bank_pins'[1] /\ bank'.stage1 = bank_pins'[2]
      BY <1>1, <1>3, <1>4
    <2> QED
      BY <2>1, <2>2, <1>3, <1>4, <1>7, <1>9 DEF BankCounts, Steady
  <1>11. ButtonSettles
    <2> SUFFICES ASSUME NEW level \in BOOLEAN,
                        \/ Steady(bank_pins', 3, h + 2, level)
                        \/ \E k \in 1 .. h - 1 : Steady(bank_pins', k + 3, k + 2 * h + 1, level)
                 PROVE  bank'.debounced = level
      BY DEF ButtonSettles
    <2>1. h \in 0 .. 2 * h - 1
      BY <1>1
    <2>3. 2 * h - 1 - h = h - 1
      BY <1>1
    <2>4. ASSUME level = TRUE PROVE NextCount >= h
      <3>1. CASE Steady(bank_pins', 3, h + 2, level)
        BY <3>1, <2>1, <2>4, <1>7
      <3>2. ASSUME NEW k \in 1 .. h - 1, Steady(bank_pins', k + 3, k + 2 * h + 1, level)
            PROVE  NextCount >= h
        <4>1. NextCount >= 2 * h - 1 - k
          BY <3>2, <2>4, <1>9
        <4> QED
          BY <4>1, <1>1, <1>5
      <3> QED
        BY <3>1, <3>2
    <2>5. ASSUME level = FALSE PROVE NextCount <= h - 1
      <3>1. CASE Steady(bank_pins', 3, h + 2, level)
        BY <3>1, <2>1, <2>3, <2>5, <1>7
      <3>2. ASSUME NEW k \in 1 .. h - 1, Steady(bank_pins', k + 3, k + 2 * h + 1, level)
            PROVE  NextCount <= h - 1
        <4>1. NextCount <= k
          BY <3>2, <2>5, <1>9
        <4> QED
          BY <4>1, <1>1, <1>5
      <3> QED
        BY <3>1, <3>2
    <2> QED
      <3>1. CASE level = TRUE
        BY <3>1, <2>4, <1>4
      <3>2. CASE level = FALSE
        <4>1. ~ (NextCount >= h)
          <5>1. NextCount <= h - 1
            BY <3>2, <2>5
          <5> QED
            BY <5>1, <1>1, <1>5
        <4> QED
          BY <4>1, <3>2, <1>4
      <3> QED
        BY <3>1, <3>2
  <1> QED
    BY <1>10, <1>11

-----------------------------------------------------------------------------
(* The counters of both debouncers say what their pins have been             *)
(* (reset_bridge, button_bank_raw).                                          *)
THEOREM CountsFollowPins == ButtonSpec => [](BridgeCounts /\ BankCounts)
  <1>1. BridgeCounts /\ BankCounts /\ [ButtonNext]_buttonVars => BridgeCounts' /\ BankCounts'
    <2> SUFFICES ASSUME BridgeCounts, BankCounts, [ButtonNext]_buttonVars
                 PROVE  BridgeCounts' /\ BankCounts'
      OBVIOUS
    <2>1. CASE BridgeClock
      BY <2>1, BridgeStep DEF BridgeClock, BankCounts, Steady
    <2>2. CASE BankClock
      BY <2>2, BankStep DEF BankClock, BridgeCounts, Dwell, stable_ticks_required
    <2>3. CASE UNCHANGED buttonVars
      BY <2>3 DEF buttonVars, BridgeCounts, BankCounts, Dwell, stable_ticks_required, Steady
    <2> QED
      BY <2>1, <2>2, <2>3 DEF ButtonNext
  <1> QED
    BY <1>1, BridgeInit, BankInit, PTL DEF ButtonSpec

(* The reset switches exactly when its pin has been steady for the dwell, and*)
(* a button follows its pin and ignores disturbances, for every dwell and    *)
(* every width of the counters.                                              *)
THEOREM DebounceTheorem == ButtonSpec => SwitchesWhenSteady
  <1>1. BridgeCounts /\ BankCounts /\ [ButtonNext]_buttonVars =>
          [[BridgeSwitches]_<<bridge, bridge_pins>> /\ [ButtonSettles]_<<bank, bank_pins>>]_buttonVars
    <2>1. ASSUME BridgeCounts, BankCounts, BridgeClock
          PROVE  [BridgeSwitches]_<<bridge, bridge_pins>> /\ [ButtonSettles]_<<bank, bank_pins>>
      BY <2>1, BridgeStep DEF BridgeClock
    <2>2. ASSUME BridgeCounts, BankCounts, BankClock
          PROVE  [BridgeSwitches]_<<bridge, bridge_pins>> /\ [ButtonSettles]_<<bank, bank_pins>>
      BY <2>2, BankStep DEF BankClock
    <2> QED
      BY <2>1, <2>2 DEF ButtonNext, buttonVars
  <1> QED
    BY <1>1, CountsFollowPins, PTL DEF ButtonSpec, SwitchesWhenSteady
-----------------------------------------------------------------------------
(* Pixels the controller has taken of the reader's frame. *)
Taken == next_read_addr - (IF read_pending \/ pixel_valid THEN 1 ELSE 0)

(* The reader has one pixel at most, on its way or held, and it is the one   *)
(* before the address it reads next; without a frame it has none.            *)
ReaderHolds ==
    /\ read_pending \/ pixel_valid => reader_active /\ next_read_addr >= 1
    /\ ~ (read_pending /\ pixel_valid)
    /\ pixel_valid => pixel_shade = next_read_addr - 1

(* While the controller has pixels to send, the reader is in the same frame  *)
(* and as far.  After the last pixel and between frames it may already hold  *)
(* the first one of a frame the controller never sees.                       *)
FrameAgrees ==
    /\ state \in {"FrameGap", "FrameSend"} => reader_active /\ Taken = 0 /\ pixel_count = 0
    /\ state = "PixelStream" /\ pixel_count < FramePixels => reader_active /\ Taken = pixel_count
    /\ state # "PixelStream" => ~ pixel_word_pending
    /\ PixelsInOrder

DisplayInv == DisplayTypeOK /\ ReaderHolds /\ FrameAgrees
-----------------------------------------------------------------------------
(* A clock of the reader keeps what it holds, and takes exactly the pixels   *)
(* the controller latches.                                                   *)
LEMMA ReaderStep ==
    ASSUME FramebufferTypeOK, ReaderHolds, NEW ev \in Scanout, NEW advance \in BOOLEAN,
           FramebufferClock(ev, advance)
    PROVE  /\ FramebufferTypeOK' /\ ReaderHolds'
           /\ FrameStartAccept(ev) => reader_active' /\ Taken' = 0
           /\ reader_active /\ ~ (pixel_valid /\ advance) => reader_active' /\ Taken' = Taken
           /\ pixel_valid /\ advance => /\ Taken' = Taken + 1
                                        /\ Taken + 1 < TotalPixels => reader_active'
<1>1. /\ TotalPixels \in Nat /\ TotalPixels >= 1 /\ next_read_addr \in 0 .. TotalPixels
      /\ read_pending \in BOOLEAN /\ pixel_valid \in BOOLEAN /\ reader_active \in BOOLEAN
      /\ pixel_shade \in 0 .. TotalPixels - 1
  BY TotalPixelsAssumption DEF FramebufferTypeOK
<1>2. /\ read_pending' \in BOOLEAN /\ pixel_valid' \in BOOLEAN /\ reader_active' \in BOOLEAN
  BY DEF FramebufferClock, ReadIssue, FrameStartAccept
<1>3. FrameStartAccept(ev) => ~ reader_active /\ ~ read_pending /\ ~ pixel_valid
  BY DEF FrameStartAccept, ReaderHolds
<1>4. /\ SeededAddr(ev) \in 0 .. TotalPixels
      /\ ~ FrameStartAccept(ev) => SeededAddr(ev) = next_read_addr
      /\ FrameStartAccept(ev) => SeededAddr(ev) = 0
  BY <1>1 DEF SeededAddr
<1>5. ReadIssue(ev) =>
        /\ ~ pixel_valid /\ ~ read_pending /\ SeededAddr(ev) < TotalPixels
        /\ reader_active \/ FrameStartAccept(ev)
  BY DEF ReadIssue
<1>6. /\ read_pending' <=> ReadIssue(ev)
      /\ next_read_addr' = IF ReadIssue(ev) THEN SeededAddr(ev) + 1 ELSE SeededAddr(ev)
      /\ pixel_valid' <=> read_pending \/ (pixel_valid /\ ~ advance /\ ~ FrameStartAccept(ev))
      /\ pixel_shade' = IF read_pending THEN next_read_addr - 1 ELSE pixel_shade
      /\ reader_active' <=> \/ FrameStartAccept(ev)
                            \/ reader_active /\ ~ (pixel_valid /\ advance /\ SeededAddr(ev) = TotalPixels)
  BY <1>2 DEF FramebufferClock, AdvanceAddr
<1>7. /\ read_pending \/ pixel_valid => reader_active /\ next_read_addr >= 1
      /\ ~ (read_pending /\ pixel_valid)
      /\ pixel_valid => pixel_shade = next_read_addr - 1
  BY DEF ReaderHolds
<1>8. FramebufferTypeOK'
  <2>1. next_read_addr' \in 0 .. TotalPixels
    BY <1>1, <1>4, <1>5, <1>6
  <2>2. pixel_shade' \in 0 .. TotalPixels - 1
    BY <1>1, <1>6, <1>7
  <2> QED
    BY <1>2, <2>1, <2>2 DEF FramebufferTypeOK
<1>9. ReaderHolds'
  <2>1. read_pending' \/ pixel_valid' => reader_active' /\ next_read_addr' >= 1
    BY <1>1, <1>3, <1>4, <1>5, <1>6, <1>7
  <2>2. ~ (read_pending' /\ pixel_valid')
    BY <1>5, <1>6
  <2>3. pixel_valid' => pixel_shade' = next_read_addr' - 1
    BY <1>1, <1>3, <1>4, <1>5, <1>6, <1>7
  <2> QED
    BY <2>1, <2>2, <2>3 DEF ReaderHolds
<1>10. Taken' = next_read_addr' - (IF read_pending' \/ pixel_valid' THEN 1 ELSE 0)
  BY DEF Taken
<1>11. FrameStartAccept(ev) => reader_active' /\ Taken' = 0
  BY <1>3, <1>4, <1>5, <1>6, <1>10
<1>12. reader_active /\ ~ (pixel_valid /\ advance) => reader_active' /\ Taken' = Taken
  BY <1>1, <1>3, <1>4, <1>5, <1>6, <1>7, <1>10 DEF Taken
<1>13. pixel_valid /\ advance => Taken' = Taken + 1 /\ (Taken + 1 < TotalPixels => reader_active')
  BY <1>1, <1>3, <1>4, <1>5, <1>6, <1>7, <1>10 DEF Taken
<1> QED
  BY <1>8, <1>9, <1>11, <1>12, <1>13

(* A clock of the controller keeps its registers in their ranges.            *)
LEMMA ControllerTypes ==
    ASSUME LcdTypeOK, NEW frame_start \in BOOLEAN, pixel_valid \in BOOLEAN,
           pixel_shade \in 0 .. FramePixels - 1,
           LcdClock(frame_start, pixel_valid, pixel_shade)
    PROVE  LcdTypeOK'
<1>1. /\ tx \in 0 .. TxHalves /\ delay_counter \in 0 .. Ticks - 1 /\ data_index \in Nat
      /\ command_index \in Nat /\ command_index >= 1
      /\ command_index <= (IF state \in {"FrameGap", "FrameSend", "PixelStream"}
                           THEN Len(FrameData) ELSE Len(InitData) + Len(FrameData))
      /\ Len(InitData) \in Nat /\ Len(FrameData) \in Nat
      /\ Len(InitData) >= 1 /\ Len(FrameData) >= 1
      /\ TxHalves \in Nat /\ TxHalves >= 1 /\ Ticks \in Nat /\ Ticks >= 1
      /\ FramePixels \in Nat /\ FramePixels >= 1
  BY LcdAssumption DEF LcdTypeOK
<1>2. /\ Transmit(FALSE) => tx' \in 0 .. TxHalves
      /\ Transmit(TRUE) => tx' \in 0 .. TxHalves
      /\ Transmit(pixel_word_pending) => tx' \in 0 .. TxHalves
  BY <1>1 DEF Transmit, TxDone
<1>3. CountDelay => delay_counter' \in 0 .. Ticks - 1
  BY <1>1 DEF CountDelay, DelayOver
<1>4. ASSUME NEW from \in {"ResetPulse", "PostResetDelay"}, NEW to \in {"PostResetDelay", "InitGap"},
             Delay(from, to)
      PROVE  LcdTypeOK'
  <2>1. tx' \in 0 .. TxHalves /\ delay_counter' \in 0 .. Ticks - 1
    BY <1>2, <1>3, <1>4 DEF Delay
  <2>2. state' \in State /\ state' \notin {"FrameGap", "FrameSend", "PixelStream"}
    BY <1>4 DEF Delay, State
  <2>3. UNCHANGED <<command_index, data_index, sending_data, pixelVars>> /\ cs_asserted' = FALSE
    BY <1>4 DEF Delay
  <2>4. state \notin {"FrameGap", "FrameSend", "PixelStream"}
    BY <1>4 DEF Delay
  <2> QED
    BY <2>1, <2>2, <2>3, <2>4 DEF LcdTypeOK, pixelVars
<1>5. ASSUME NEW from, NEW to, <<from, to>> \in {<<"InitGap", "InitSend">>, <<"FrameGap", "FrameSend">>},
             Gap(from, to)
      PROVE  LcdTypeOK'
  <2>1. tx' \in 0 .. TxHalves /\ delay_counter' \in 0 .. Ticks - 1
    <3>1. Transmit(FALSE) /\ delay_counter' = 0
      BY <1>5 DEF Gap
    <3> QED
      BY <3>1, <1>1, <1>2
  <2>2. /\ state' \in State
        /\ state' \in {"FrameGap", "FrameSend", "PixelStream"}
             <=> state \in {"FrameGap", "FrameSend", "PixelStream"}
    BY <1>5 DEF Gap, State
  <2>3. UNCHANGED <<command_index, sending_data, pixelVars>> /\ cs_asserted' = FALSE /\ data_index' = 0
    BY <1>5 DEF Gap
  <2> QED
    BY <2>1, <2>2, <2>3 DEF LcdTypeOK, pixelVars
<1>6. ASSUME NextInit, state \notin {"FrameGap", "FrameSend", "PixelStream"}
      PROVE  /\ state' \in {"InitGap", "WaitFrame"}
             /\ command_index' \in 1 .. Len(InitData) + Len(FrameData)
  BY <1>1, <1>6 DEF NextInit
<1>7. CASE InitSend
  <2>1. tx' \in 0 .. TxHalves /\ delay_counter' = 0 /\ UNCHANGED pixelVars /\ state = "InitSend"
    BY <1>2, <1>7 DEF InitSend, Send
  <2>2. /\ state' \in {"InitSend", "InitDelay", "InitGap", "WaitFrame"}
        /\ command_index' \in 1 .. Len(InitData) + Len(FrameData)
    BY <1>1, <1>6, <1>7, <2>1 DEF InitSend, Send
  <2>3. cs_asserted' \in BOOLEAN
    BY <1>7 DEF InitSend, Send, LcdTypeOK
  <2>4. sending_data' \in BOOLEAN
    <3> DEFINE more == IF sending_data THEN data_index + 1 < InitData[command_index]
                       ELSE InitData[command_index] # 0
    <3>1. more \in BOOLEAN
      <4>1. \A x, y : (x < y) \in BOOLEAN /\ (x # y) \in BOOLEAN
        OBVIOUS
      <4> QED
        BY <4>1
    <3>2. sending_data' = sending_data \/ sending_data' = more
      BY <1>7 DEF InitSend, Send
    <3> QED
      BY <3>1, <3>2 DEF LcdTypeOK
  <2>5. data_index' \in Nat
    BY <1>1, <1>7 DEF InitSend, Send
  <2>6. 0 \in 0 .. Ticks - 1
    BY <1>1
  <2> QED
    BY <2>1, <2>2, <2>3, <2>4, <2>5, <2>6 DEF LcdTypeOK, pixelVars, State
<1>8. CASE InitDelay
  <2>1. tx' \in 0 .. TxHalves /\ delay_counter' \in 0 .. Ticks - 1 /\ cs_asserted' = FALSE
    BY <1>2, <1>3, <1>8 DEF InitDelay
  <2>2. /\ state' \in {"InitDelay", "InitGap", "WaitFrame"}
        /\ command_index' \in 1 .. Len(InitData) + Len(FrameData)
    BY <1>1, <1>6, <1>8 DEF InitDelay
  <2>3. UNCHANGED <<data_index, sending_data, pixelVars>>
    BY <1>8 DEF InitDelay
  <2> QED
    BY <2>1, <2>2, <2>3 DEF LcdTypeOK, pixelVars, State
<1>9. CASE WaitFrame(frame_start)
  <2>1. tx' \in 0 .. TxHalves /\ delay_counter' = 0 /\ cs_asserted' = FALSE
    BY <1>2, <1>9 DEF WaitFrame
  <2>2. UNCHANGED <<pixel_word, pixel_word_pending, pixel_high_sent>> /\ state = "WaitFrame"
    BY <1>9 DEF WaitFrame
  <2>3. CASE frame_start
    <3>1. /\ state' = "FrameGap" /\ command_index' = 1 /\ data_index' = 0
          /\ sending_data' = FALSE /\ pixel_count' = 0
      BY <1>9, <2>3 DEF WaitFrame
    <3>2. 1 \in 1 .. Len(FrameData) /\ 0 \in 0 .. FramePixels /\ 0 \in 0 .. Ticks - 1
      BY <1>1
    <3> QED
      BY <2>1, <2>2, <3>1, <3>2 DEF LcdTypeOK, State
  <2>4. CASE ~ frame_start
    <3>1. UNCHANGED <<state, command_index, data_index, sending_data, pixel_count>>
      BY <1>9, <2>4 DEF WaitFrame
    <3>2. 0 \in 0 .. Ticks - 1
      BY <1>1
    <3> QED
      BY <2>1, <2>2, <3>1, <3>2 DEF LcdTypeOK, State
  <2> QED
    BY <2>3, <2>4
<1>10. CASE FrameSend
  <2>1. tx' \in 0 .. TxHalves /\ delay_counter' = 0 /\ UNCHANGED pixelVars /\ state = "FrameSend"
    BY <1>2, <1>10 DEF FrameSend, Send
  <2>2. /\ state' \in {"FrameSend", "FrameGap", "PixelStream"}
        /\ command_index' \in 1 .. Len(FrameData)
    BY <1>1, <1>10, <2>1 DEF FrameSend, Send
  <2>3. cs_asserted' \in BOOLEAN
    BY <1>10 DEF FrameSend, Send, LcdTypeOK, KeepsCs
  <2>4. sending_data' \in BOOLEAN
    <3> DEFINE more == IF sending_data THEN data_index + 1 < FrameData[command_index]
                       ELSE FrameData[command_index] # 0
    <3>1. more \in BOOLEAN
      <4>1. \A x, y : (x < y) \in BOOLEAN /\ (x # y) \in BOOLEAN
        OBVIOUS
      <4> QED
        BY <4>1
    <3>2. sending_data' = sending_data \/ sending_data' = more
      BY <1>10 DEF FrameSend, Send
    <3> QED
      BY <3>1, <3>2 DEF LcdTypeOK
  <2>5. data_index' \in Nat
    BY <1>1, <1>10 DEF FrameSend, Send
  <2>6. 0 \in 0 .. Ticks - 1
    BY <1>1
  <2> QED
    BY <2>1, <2>2, <2>3, <2>4, <2>5, <2>6 DEF LcdTypeOK, pixelVars, State
<1>11. CASE PixelStream(pixel_valid, pixel_shade)
  <2>1. /\ tx' \in 0 .. TxHalves /\ delay_counter' = 0 /\ state = "PixelStream"
        /\ state' \in {"PixelStream", "WaitFrame"}
    BY <1>2, <1>11 DEF PixelStream
  <2>2. UNCHANGED <<command_index, data_index, sending_data>>
    BY <1>11 DEF PixelStream
  <2>3. cs_asserted' \in BOOLEAN /\ pixel_word_pending' \in BOOLEAN /\ pixel_high_sent' \in BOOLEAN
    BY <1>11 DEF PixelStream
  <2>4. pixel_word' \in 0 .. FramePixels - 1 /\ pixel_count' \in 0 .. FramePixels
    BY <1>1, <1>11 DEF PixelStream, LcdTypeOK, WillLatch
  <2> QED
    BY <2>1, <2>2, <2>3, <2>4, <1>1 DEF LcdTypeOK, State
<1> QED
  <2>1. ResetPulse \/ PostResetDelay => LcdTypeOK'
    BY <1>4 DEF ResetPulse, PostResetDelay
  <2>2. InitGap \/ FrameGap => LcdTypeOK'
    BY <1>5 DEF InitGap, FrameGap
  <2> QED
    BY <2>1, <2>2, <1>7, <1>8, <1>9, <1>10, <1>11 DEF LcdClock

(* A clock of the display keeps the invariant.                               *)
LEMMA DisplayStep == DisplayInv /\ [DisplayNext]_displayVars => DisplayInv'
<1> SUFFICES ASSUME DisplayInv, [DisplayNext]_displayVars PROVE DisplayInv'
  OBVIOUS
<1>1. CASE UNCHANGED displayVars
  BY <1>1 DEF displayVars, DisplayInv, DisplayTypeOK, FramebufferTypeOK, LcdTypeOK, ReaderHolds,
              FrameAgrees, Taken, PixelsInOrder
<1>2. ASSUME NEW ev \in Scanout, Clock(ev) PROVE DisplayInv'
  <2> DEFINE start == FrameStartAccept(Seen(ev))
             advance == WillLatch(pixel_valid)
  <2>1. Seen(ev) \in Scanout /\ start \in BOOLEAN /\ advance \in BOOLEAN
    BY DEF Seen, Scanout, FrameStartAccept, WillLatch
  <2>2. /\ FramebufferClock(Seen(ev), advance)
        /\ LcdClock(start, pixel_valid, pixel_shade)
        /\ heartbeat' = IF start THEN ~ heartbeat ELSE heartbeat
    BY <1>2 DEF Clock
  <2>3. FramebufferTypeOK /\ LcdTypeOK /\ ReaderHolds /\ FrameAgrees /\ heartbeat \in BOOLEAN
    BY DEF DisplayInv, DisplayTypeOK
  <2>4. /\ FramebufferTypeOK' /\ ReaderHolds'
        /\ start => reader_active' /\ Taken' = 0
        /\ reader_active /\ ~ (pixel_valid /\ advance) => reader_active' /\ Taken' = Taken
        /\ pixel_valid /\ advance => /\ Taken' = Taken + 1
                                     /\ Taken + 1 < TotalPixels => reader_active'
    BY <2>1, <2>2, <2>3, ReaderStep
  <2>5. LcdTypeOK'
    <3>1. pixel_valid \in BOOLEAN /\ pixel_shade \in 0 .. FramePixels - 1
      BY <2>3, DisplayAssumption DEF FramebufferTypeOK
    <3> QED
      BY <3>1, <2>1, <2>2, <2>3, ControllerTypes
  <2>6. DisplayTypeOK'
    BY <2>2, <2>3, <2>4, <2>5 DEF DisplayTypeOK
  <2>7. advance <=> /\ state = "PixelStream" /\ tx = 0 /\ ~ pixel_word_pending
                    /\ pixel_count < FramePixels /\ pixel_valid
    BY <2>3 DEF WillLatch, LcdTypeOK
  <2>8. start => ~ reader_active
    BY DEF FrameStartAccept
  <2>9. /\ pixel_count \in 0 .. FramePixels /\ Taken \in Int /\ FramePixels \in Nat
        /\ TotalPixels = FramePixels /\ pixel_word_pending \in BOOLEAN /\ pixel_valid \in BOOLEAN
    BY <2>3, DisplayAssumption, LcdAssumption DEF LcdTypeOK, FramebufferTypeOK, Taken
  <2>10. ASSUME UNCHANGED pixelVars, state # "PixelStream",
                state \notin {"FrameGap", "FrameSend"} =>
                  state' \notin {"FrameGap", "FrameSend", "PixelStream"}
         PROVE  FrameAgrees'
    <3>1. ~ pixel_word_pending' /\ pixel_count' = pixel_count
      BY <2>3, <2>10 DEF FrameAgrees, pixelVars
    <3>2. CASE state \in {"FrameGap", "FrameSend"}
      <4>1. reader_active' /\ Taken' = 0 /\ pixel_count' = 0
        BY <2>3, <2>4, <2>7, <2>10, <3>1, <3>2 DEF FrameAgrees
      <4> QED
        BY <3>1, <4>1 DEF FrameAgrees, PixelsInOrder
    <3>3. CASE state \notin {"FrameGap", "FrameSend"}
      BY <2>10, <3>1, <3>3 DEF FrameAgrees, PixelsInOrder
    <3> QED
      BY <3>2, <3>3
  <2>11. ASSUME ResetPulse \/ PostResetDelay \/ InitGap \/ InitSend \/ InitDelay
         PROVE  FrameAgrees'
    <3>1. UNCHANGED pixelVars
      BY <2>11 DEF ResetPulse, PostResetDelay, Delay, InitGap, Gap, InitSend, Send, InitDelay
    <3>2. state \in {"ResetPulse", "PostResetDelay", "InitGap", "InitSend", "InitDelay"}
      BY <2>11 DEF ResetPulse, PostResetDelay, Delay, InitGap, Gap, InitSend, Send, InitDelay
    <3>3. NextInit => state' \in {"InitGap", "WaitFrame"}
      BY DEF NextInit
    <3>4. state' \notin {"FrameGap", "FrameSend", "PixelStream"}
      <4>1. CASE ResetPulse \/ PostResetDelay
        BY <4>1 DEF ResetPulse, PostResetDelay, Delay
      <4>2. CASE InitGap
        BY <4>2 DEF InitGap, Gap
      <4>3. CASE InitSend
        BY <4>3, <3>3 DEF InitSend, Send
      <4>4. CASE InitDelay
        BY <4>4, <3>3 DEF InitDelay
      <4> QED
        BY <2>11, <4>1, <4>2, <4>3, <4>4
    <3> QED
      BY <3>1, <3>2, <3>4, <2>10
  <2>12. ASSUME FrameGap \/ FrameSend
         PROVE  FrameAgrees'
    <3>1. UNCHANGED pixelVars /\ state \in {"FrameGap", "FrameSend"}
      BY <2>12 DEF FrameGap, Gap, FrameSend, Send
    <3> QED
      BY <3>1, <2>10
  <2>13. ASSUME WaitFrame(start)
         PROVE  FrameAgrees'
    <3>1. state = "WaitFrame" /\ pixel_word_pending' = pixel_word_pending /\ ~ pixel_word_pending
      BY <2>3, <2>13 DEF WaitFrame, FrameAgrees
    <3>2. IF start THEN state' = "FrameGap" /\ pixel_count' = 0 ELSE state' = "WaitFrame"
      BY <2>13 DEF WaitFrame
    <3>3. CASE start
      <4>1. reader_active' /\ Taken' = 0 /\ state' = "FrameGap" /\ pixel_count' = 0
        BY <2>4, <3>2, <3>3
      <4> QED
        BY <3>1, <4>1 DEF FrameAgrees, PixelsInOrder
    <3>4. CASE ~ start
      BY <3>1, <3>2, <3>4 DEF FrameAgrees, PixelsInOrder
    <3> QED
      BY <3>3, <3>4
  <2>14. ASSUME PixelStream(pixel_valid, pixel_shade)
         PROVE  FrameAgrees'
    <3>1. /\ state = "PixelStream"
          /\ state' = IF FrameComplete THEN "WaitFrame" ELSE "PixelStream"
          /\ pixel_word' = IF advance THEN pixel_shade ELSE pixel_word
          /\ pixel_count' = IF advance THEN pixel_count + 1 ELSE pixel_count
      BY <2>14 DEF PixelStream
    <3>2. /\ advance => pixel_word_pending'
          /\ ~ advance /\ pixel_word_pending' => pixel_word_pending
      BY <2>14, <2>5 DEF PixelStream, LcdTypeOK
    <3>3. FrameComplete => ~ pixel_word_pending'
      BY <2>14, <2>5, <2>7 DEF PixelStream, FrameComplete, LcdTypeOK
    <3>4. pixel_count < FramePixels => reader_active /\ Taken = pixel_count
      BY <2>3, <3>1 DEF FrameAgrees
    <3>5. pixel_word_pending => pixel_word = pixel_count - 1
      BY <2>3, <3>1 DEF FrameAgrees, PixelsInOrder
    <3>6. pixel_count' < FramePixels => reader_active' /\ Taken' = pixel_count'
      BY <2>4, <2>7, <2>9, <3>1, <3>4
    <3>7. pixel_word_pending' => pixel_word' = pixel_count' - 1
      <4>1. CASE advance
        <5>1. pixel_shade = next_read_addr - 1 /\ Taken = next_read_addr - 1 /\ pixel_valid
          BY <4>1, <2>3, <2>7 DEF ReaderHolds, Taken
        <5> QED
          BY <4>1, <5>1, <2>7, <2>9, <3>1, <3>4
      <4>2. CASE ~ advance
        BY <4>2, <3>1, <3>2, <3>5
      <4> QED
        BY <4>1, <4>2
    <3>8. CASE FrameComplete
      BY <3>1, <3>3, <3>8 DEF FrameAgrees, PixelsInOrder
    <3>9. CASE ~ FrameComplete
      <4>1. state' = "PixelStream"
        BY <3>1, <3>9
      <4> QED
        BY <4>1, <3>6, <3>7 DEF FrameAgrees, PixelsInOrder
    <3> QED
      BY <3>8, <3>9
  <2>15. FrameAgrees'
    BY <2>2, <2>11, <2>12, <2>13, <2>14 DEF LcdClock
  <2> QED
    BY <2>4, <2>6, <2>15 DEF DisplayInv
<1> QED
  BY <1>1, <1>2 DEF DisplayNext

(* Power-on: no frame, nothing held.                                         *)
LEMMA DisplayStart == DisplayInit => DisplayInv
<1> USE LcdAssumption, TotalPixelsAssumption
<1> SUFFICES ASSUME DisplayInit PROVE DisplayInv
  OBVIOUS
<1>1. FramebufferTypeOK /\ ReaderHolds
  <2>1. 0 \in 0 .. TotalPixels /\ 0 \in 0 .. TotalPixels - 1
    OBVIOUS
  <2> QED
    BY <2>1 DEF DisplayInit, FramebufferInit, FramebufferTypeOK, ReaderHolds
<1>2. LcdTypeOK
  <2>1. Len(InitData) \in Nat /\ Len(FrameData) \in Nat /\ Len(InitData) >= 1
    OBVIOUS
  <2>2. /\ 0 \in 0 .. Ticks - 1 /\ 0 \in 0 .. FramePixels - 1 /\ 0 \in 0 .. FramePixels
        /\ 0 \in 0 .. TxHalves /\ 1 \in 1 .. Len(InitData) + Len(FrameData)
    BY <2>1
  <2> QED
    BY <2>2 DEF DisplayInit, LcdInit, LcdTypeOK, State
<1>3. FrameAgrees /\ heartbeat \in BOOLEAN
  BY DEF DisplayInit, LcdInit, FrameAgrees, PixelsInOrder
<1> QED
  BY <1>1, <1>2, <1>3 DEF DisplayInv, DisplayTypeOK

-----------------------------------------------------------------------------
(* Every pixel of a frame is sent once and in order, whatever the writes of  *)
(* the picture unit do to the reader, for every panel and every length of    *)
(* the commands (read_issue, will_latch_pixel); and the registers of reader  *)
(* and controller keep to their ranges.                                      *)
THEOREM FrameInOrder == DisplaySpec => [](DisplayTypeOK /\ PixelsInOrder)
<1>1. DisplayInv => DisplayTypeOK /\ PixelsInOrder
  BY DEF DisplayInv, FrameAgrees, PixelsInOrder
<1> QED
  BY <1>1, DisplayStart, DisplayStep, PTL DEF DisplaySpec
-----------------------------------------------------------------------------
(* The core does not have region in a clock with mode m of the picture unit. *)
Refused(m) == blocked_req(req.addr[1], m)
DmaCell == <<"Oam", oam_dma.index>>
SourceCell == CellOf(source_addr(oam_dma, oam_dma.index))

(* The byte with index i of a page, in a memory.                             *)
PageIn(cells, d, i) ==
    LET c == CellOf(source_addr(d, i))
    IN IF c[1] \in Spram \cup {"Hram"} THEN cells[c] ELSE 255

BusRegs ==
    /\ t_index \in 0 .. 3 /\ touched \in Touched /\ req \in Requests
    /\ oam_dma \in [active : BOOLEAN, source_high : SourcePages, index : PageOffsets]
    /\ t_index = 0 => modes = {} /\ before = memory
    /\ t_index # 0 => ppu_mode \in modes

(* What has changed in memory since the M-cycle began.                       *)
Changed ==
    \A c \in MemoryCells :
        \/ memory[c] = before[c]
        \/ req.kind = "Write" /\ c = CellOf(req.addr)
        \/ oam_dma.active /\ c = DmaCell

(* A write is done when its region was the core's in a clock that writes.    *)
Written ==
    LET c == CellOf(req.addr)
    IN req.kind = "Write" /\ c[1] # "Rom" /\ ~ (oam_dma.active /\ c = DmaCell) =>
          memory[c] = IF /\ c[1] = "Wram" => t_index = 3
                         /\ \E m \in modes : ~ Refused(m)
                      THEN req.data ELSE before[c]

(* How far the byte of a read has come.                                      *)
OnItsWay ==
    LET c == CellOf(req.addr)
        region == c[1]
    IN req.kind = "Read" =>
        /\ t_index = 1 /\ region \in Spram => port.spram[region].last = <<FALSE, before[c]>>
        /\ t_index = 2 =>
             /\ region \in Spram => port.spram[region].primary = before[c]
             /\ region = "Hram" => port.hram = before[c]
             /\ region = "Oam" /\ ~ oam_dma.active => port.oam = before[c]
             /\ region = "Vram" /\ (\A m \in modes : ~ Refused(m)) => port.vram = before[c]
        /\ t_index = 3 =>
             /\ Refused(ppu_mode) => bus_read_data_reg = 255
             /\ ~ Refused(ppu_mode) /\ region # "Vram" => bus_read_data_reg = before[c]
             /\ (\A m \in modes : ~ Refused(m)) => bus_read_data_reg = before[c]

(* How far the byte of a DMA has come.                                       *)
Copying ==
    LET region == SourceCell[1]
    IN oam_dma.active =>
        /\ t_index = 2 /\ region \in Spram =>
              port.spram[region].last = <<TRUE, memory[SourceCell]>>
        /\ t_index = 3 /\ region \in Spram => port.spram[region].aux = memory[SourceCell]
        /\ t_index = 3 /\ region = "Hram" => port.hram = memory[SourceCell]

(* What a DMA has copied, where the core cannot write meanwhile.             *)
Copied ==
    oam_dma.active /\ oam_dma.source_high # "High" =>
        \A i \in PageOffsets : i < oam_dma.index =>
            memory[<<"Oam", i>>] = PageIn(memory, oam_dma, i)

BusInv == BusRegs /\ Changed /\ Written /\ OnItsWay /\ Copying /\ Copied

(* Where an address is.                                                      *)
LEMMA Decoded ==
    ASSUME NEW a \in Addresses
    PROVE  /\ CellOf(a) \in MemoryCells
           /\ CellOf(a) = <<CellOf(a)[1], CellOf(a)[2]>>
           /\ OffsetIn(CellOf(a)[1], a) = CellOf(a)[2]
           /\ a[1] = "Echo" => CellOf(a)[1] = "Wram"
           /\ a[1] # "Echo" => CellOf(a)[1] = a[1]
           /\ a[1] \in {"Rom", "Wram", "Vram", "Oam", "Hram", "Echo"}
           /\ CellOf(a)[1] = "Hram" => CellOf(a) = <<"Hram", 0>>
  <1>1. CASE a = <<"Hram", 0>>
    BY <1>1 DEF CellOf, OffsetIn, MemoryCells
  <1>2. CASE \E i \in PageOffsets : a = <<"Echo", i>>
    <2>1. PICK i \in PageOffsets : a = <<"Echo", i>>
      BY <1>2
    <2>2. CellOf(a) = <<"Wram", i>>
      BY <2>1 DEF CellOf
    <2> QED BY <2>1, <2>2 DEF OffsetIn, MemoryCells
  <1>3. CASE \E r \in {"Rom", "Wram", "Vram", "Oam"}, i \in PageOffsets : a = <<r, i>>
    <2>1. PICK r \in {"Rom", "Wram", "Vram", "Oam"}, i \in PageOffsets : a = <<r, i>>
      BY <1>3
    <2>2. CellOf(a) = <<r, i>>
      BY <2>1 DEF CellOf
    <2> QED BY <2>1, <2>2 DEF OffsetIn, MemoryCells
  <1> QED BY <1>1, <1>2, <1>3 DEF Addresses, MemoryCells

(* What the core can ask for.                                                *)
LEMMA RequestFacts ==
    ASSUME touched \in Touched, NEW r \in Requests
    PROVE  /\ r.kind \in {"Idle", "Read", "Write", "Start"}
           /\ r.kind \in {"Read", "Write"} => r.addr \in Addresses
           /\ r.kind = "Start" => r.addr[1] \in SourcePages
  <1>1. touched \subseteq Addresses /\ DmaPages \subseteq SourcePages
    BY AddressAssumption
  <1> QED BY <1>1 DEF Requests, IdleRequest, ReadOf, WriteOf, StartDma

(* Where the byte of a DMA comes from.                                       *)
LEMMA Sources ==
    ASSUME NEW d \in [active : BOOLEAN, source_high : SourcePages, index : PageOffsets],
           NEW i \in PageOffsets
    PROVE  LET a == source_addr(d, i) IN
           /\ a[1] \in {"Rom", "Wram", "Echo", "Vram", "Oam", "Hram", "Io"}
           /\ a[1] # "Io" => a \in Addresses
           /\ a[1] = "Io" => CellOf(a)[1] = "Io"
           /\ a[1] = "Hram" => d.source_high = "High"
  <1>1. CASE d.source_high # "High"
    BY <1>1 DEF source_addr, SourcePages, Addresses, MemoryCells
  <1>2. CASE d.source_high = "High"
    BY <1>2 DEF source_addr, Addresses, MemoryCells, CellOf
  <1> QED BY <1>1, <1>2

(* What one clock does to a cell.                                            *)
LEMMA ClockStores ==
    ASSUME BusRegs, NEW m, NEW fetch, BusClock(m, fetch), NEW c \in MemoryCells
    PROVE  /\ oam_dma.active /\ c = DmaCell => memory'[c] = dma_source_data
           /\ ~ (oam_dma.active /\ c = DmaCell) =>
                memory'[c] = IF /\ req.kind = "Write" /\ c = CellOf(req.addr) /\ c[1] # "Rom"
                                /\ ~ Refused(m) /\ (c[1] = "Wram" => t_index = 2)
                             THEN req.data ELSE memory[c]
  <1>1. memory'[c] = NextByte(c, m)
    BY DEF BusClock
  <1> QED BY <1>1 DEF NextByte, DmaCell, Refused

(* While a DMA runs the core writes nothing but HRAM.                        *)
LEMMA OnlyHram ==
    ASSUME BusRegs, NEW m, NEW fetch, BusClock(m, fetch), oam_dma.active,
           NEW c \in MemoryCells, c[1] # "Hram", c # DmaCell
    PROVE  memory'[c] = memory[c]
  <1>1. CASE req.kind = "Write" /\ c = CellOf(req.addr)
    <2>1. req.addr \in Addresses
      BY <1>1, RequestFacts DEF BusRegs
    <2>2. req.addr[1] # "Hram"
      BY <1>1, <2>1, Decoded
    <2>3. Refused(m)
      BY <2>2 DEF Refused, blocked_req
    <2> QED BY <2>3, ClockStores
  <1>2. CASE ~ (req.kind = "Write" /\ c = CellOf(req.addr))
    BY <1>2, ClockStores
  <1> QED BY <1>1, <1>2

(* A write to HRAM is done in the first clock of its M-cycle.                *)
LEMMA HramDone ==
    ASSUME BusRegs, Written, NEW m, NEW fetch, BusClock(m, fetch), t_index # 0
    PROVE  memory'[<<"Hram", 0>>] = memory[<<"Hram", 0>>]
  <1> DEFINE c == <<"Hram", 0>>
  <1>0. c \in MemoryCells /\ c[1] = "Hram" /\ c # DmaCell
    BY DEF MemoryCells, DmaCell
  <1>1. CASE req.kind = "Write" /\ c = CellOf(req.addr)
    <2>1. req.addr \in Addresses
      BY <1>1, RequestFacts DEF BusRegs
    <2>2. req.addr[1] = "Hram"
      BY <1>0, <1>1, <2>1, Decoded
    <2>3. \A x : ~ Refused(x)
      BY <2>2 DEF Refused, blocked_req
    <2>4. ppu_mode \in modes
      BY DEF BusRegs
    <2>5. memory[c] = req.data
      BY <1>0, <1>1, <2>3, <2>4 DEF Written
    <2> QED BY <1>0, <1>1, <2>5, ClockStores
  <1>2. CASE ~ (req.kind = "Write" /\ c = CellOf(req.addr))
    BY <1>0, <1>2, ClockStores
  <1> QED BY <1>1, <1>2

(* What a clock within an M-cycle keeps.                                     *)
LEMMA Within ==
    ASSUME BusRegs, NEW m, NEW fetch, BusClock(m, fetch), t_index # 3,
           req' = req, before' = before, modes' = modes \cup {m}
    PROVE  /\ BusRegs'
           /\ oam_dma' = oam_dma /\ ppu_mode' = m /\ t_index' = t_index + 1
           /\ \A x : Refused(x)' <=> Refused(x)
           /\ DmaCell' = DmaCell /\ SourceCell' = SourceCell
           /\ t_index \in 0 .. 2
  <1>1. t_index \in 0 .. 2
    BY DEF BusRegs
  <1>2. oam_dma' = oam_dma
    BY DEF BusClock, next_dma, Starting
  <1>3. t_index' = t_index + 1 /\ ppu_mode' = m /\ touched' = touched
    BY <1>1 DEF BusClock
  <1>4. Requests' = Requests
    BY <1>3 DEF Requests
  <1>5. BusRegs'
    BY <1>1, <1>2, <1>3, <1>4 DEF BusRegs
  <1>6. \A x : Refused(x)' <=> Refused(x)
    BY <1>2 DEF Refused, blocked_req
  <1>7. DmaCell' = DmaCell /\ SourceCell' = SourceCell
    BY <1>2 DEF DmaCell, SourceCell
  <1> QED BY <1>1, <1>2, <1>3, <1>5, <1>6, <1>7

(* Nothing else changes in memory, in the clocks before the commit ...       *)
LEMMA ChangedWithin ==
    ASSUME BusRegs, Changed, NEW m, NEW fetch, BusClock(m, fetch), t_index # 3,
           req' = req, before' = before, modes' = modes \cup {m}
    PROVE  Changed'
  <1>1. oam_dma' = oam_dma /\ DmaCell' = DmaCell
    BY Within
  <1>2. ASSUME NEW c \in MemoryCells, ~ (req.kind = "Write" /\ c = CellOf(req.addr)),
               ~ (oam_dma.active /\ c = DmaCell)
        PROVE  memory'[c] = before[c]
    <2>1. memory'[c] = memory[c]
      BY <1>2, ClockStores
    <2> QED BY <1>2, <2>1 DEF Changed
  <1> QED BY <1>1, <1>2 DEF Changed

(* ... and a write is done in the clocks that give the core its region.      *)
LEMMA WrittenWithin ==
    ASSUME BusRegs, Written, NEW m, NEW fetch, BusClock(m, fetch), t_index # 3,
           req' = req, before' = before, modes' = modes \cup {m}
    PROVE  Written'
  <1> DEFINE c == CellOf(req.addr)
  <1>1. /\ oam_dma' = oam_dma /\ DmaCell' = DmaCell /\ t_index' = t_index + 1 /\ t_index \in 0 .. 2
        /\ \A x : Refused(x)' <=> Refused(x)
    BY Within
  <1>2. SUFFICES ASSUME req.kind = "Write", c[1] # "Rom", ~ (oam_dma.active /\ c = DmaCell)
        PROVE  memory'[c] = IF /\ c[1] = "Wram" => t_index' = 3
                               /\ \E x \in modes \cup {m} : ~ Refused(x)
                            THEN req.data ELSE before[c]
    BY <1>1 DEF Written
  <1>3. req.addr \in Addresses /\ c \in MemoryCells
    BY <1>2, RequestFacts, Decoded DEF BusRegs
  <1>4. memory'[c] = IF ~ Refused(m) /\ (c[1] = "Wram" => t_index = 2) THEN req.data ELSE memory[c]
    BY <1>2, <1>3, ClockStores
  <1>5. memory[c] = IF (c[1] = "Wram" => t_index = 3) /\ \E x \in modes : ~ Refused(x)
                    THEN req.data ELSE before[c]
    BY <1>2 DEF Written
  <1>6. CASE c[1] = "Wram"
    <2>1. req.addr[1] \in {"Wram", "Echo"}
      BY <1>3, <1>6, Decoded
    <2>2. \A x, y : Refused(x) <=> Refused(y)
      BY <2>1 DEF Refused, blocked_req
    <2>3. memory[c] = before[c]
      BY <1>1, <1>5, <1>6
    <2> HIDE DEF c
    <2>4. (\E x \in modes \cup {m} : ~ Refused(x)) <=> ~ Refused(m)
      BY <2>2
    <2>5. t_index' = 3 <=> t_index = 2
      BY <1>1
    <2> QED BY <1>4, <1>6, <2>3, <2>4, <2>5
  <1>7. CASE c[1] # "Wram"
    <2> HIDE DEF c
    <2> QED BY <1>4, <1>5, <1>7
  <1> QED BY <1>6, <1>7

(* The byte of a read comes one register nearer with every clock.            *)
LEMMA ReadWithin ==
    ASSUME BusRegs, Changed, OnItsWay, NEW m, NEW fetch \in Fetches(m), BusClock(m, fetch),
           t_index # 3, req' = req, before' = before, modes' = modes \cup {m}
    PROVE  OnItsWay'
  <1> DEFINE c == CellOf(req.addr)
             r == c[1]
  <1>1. /\ oam_dma' = oam_dma /\ t_index' = t_index + 1 /\ ppu_mode' = m /\ t_index \in 0 .. 2
        /\ \A x : Refused(x)' <=> Refused(x)
    BY Within
  <1>2. SUFFICES ASSUME req.kind = "Read"
        PROVE  /\ t_index = 0 /\ r \in Spram => port'.spram[r].last = <<FALSE, before[c]>>
               /\ t_index = 1 =>
                    /\ r \in Spram => port'.spram[r].primary = before[c]
                    /\ r = "Hram" => port'.hram = before[c]
                    /\ r = "Oam" /\ ~ oam_dma.active => port'.oam = before[c]
                    /\ r = "Vram" /\ (\A x \in modes \cup {m} : ~ Refused(x)) => port'.vram = before[c]
               /\ t_index = 2 =>
                    /\ Refused(m) => bus_read_data_reg' = 255
                    /\ ~ Refused(m) /\ r # "Vram" => bus_read_data_reg' = before[c]
                    /\ (\A x \in modes \cup {m} : ~ Refused(x)) => bus_read_data_reg' = before[c]
    <2> HIDE DEF c
    <2>1. c' = c
      BY DEF c
    <2>2. r' = r
      BY <2>1
    <2>3. t_index' = 1 <=> t_index = 0
      BY <1>1
    <2>4. t_index' = 2 <=> t_index = 1
      BY <1>1
    <2>5. t_index' = 3 <=> t_index = 2
      BY <1>1
    <2> QED BY <1>1, <1>2, <2>1, <2>2, <2>3, <2>4, <2>5 DEF OnItsWay, c
  <1>3. req.addr \in Addresses
    BY <1>2, RequestFacts DEF BusRegs
  <1>4. /\ c \in MemoryCells /\ OffsetIn(r, req.addr) = c[2] /\ c = <<r, c[2]>>
        /\ req.addr[1] = "Echo" => r = "Wram"
        /\ req.addr[1] # "Echo" => r = req.addr[1]
        /\ r \in {"Rom", "Wram", "Vram", "Oam", "Hram"}
        /\ r = "Hram" => c = <<"Hram", 0>>
    BY <1>3, Decoded DEF MemoryCells
  <1>5. preview_cpu_bus_req = req /\ ~ Starting
    BY <1>2 DEF preview_cpu_bus_req, Starting
  <1>6. ~ (oam_dma.active /\ c = DmaCell) => memory[c] = before[c]
    BY <1>2, <1>4 DEF Changed
  <1>7. oam_dma.active /\ r # "Hram" => Refused(m)
    <2>1. r # "Hram" => req.addr[1] # "Hram"
      BY <1>4
    <2> QED BY <2>1 DEF Refused, blocked_req
  <1>8. r = "Vram" /\ ~ oam_dma.active => ~ DmaReadsVram
    BY <1>5 DEF DmaReadsVram
  <1> HIDE DEF c, r
  <1>9. CASE t_index = 0
    <2>1. ASSUME r \in Spram
          PROVE  port'.spram[r].last = <<FALSE, before[c]>>
      <3>1. port'.spram[r] = spram_dual_read_port(r)
        BY <2>1 DEF BusClock
      <3>2. port'.spram[r].last = rw8k_schedule(r)
        BY <3>1 DEF spram_dual_read_port
      <3>3. rw8k_schedule(r) = <<FALSE, memory[c]>>
        BY <1>4, <1>5, <1>9 DEF rw8k_schedule
      <3>4. memory = before
        BY <1>9 DEF BusRegs
      <3> QED BY <3>2, <3>3, <3>4
    <2>2. t_index # 1 /\ t_index # 2
      BY <1>9
    <2> QED BY <2>1, <2>2, Zenon
  <1>10. CASE t_index = 1
    <2>1. ASSUME r \in Spram
          PROVE  port'.spram[r].primary = before[c]
      <3>1. port'.spram[r] = spram_dual_read_port(r)
        BY <2>1 DEF BusClock
      <3>2. port.spram[r].last = <<FALSE, before[c]>>
        BY <1>2, <1>10, <2>1 DEF OnItsWay, c, r
      <3>3. update_read_capture(port.spram[r].primary, port.spram[r].last, FALSE) = before[c]
        BY <3>2 DEF update_read_capture
      <3>4. port'.spram[r].primary = update_read_capture(port.spram[r].primary, port.spram[r].last, FALSE)
        BY <3>1 DEF spram_dual_read_port
      <3> QED BY <3>3, <3>4
    <2>2. ASSUME r = "Hram"
          PROVE  port'.hram = before[c]
      <3>1. port'.hram = memory[c]
        BY <1>4, <2>2 DEF BusClock
      <3>2. c # DmaCell
        BY <1>4, <2>2 DEF DmaCell
      <3> QED BY <1>6, <3>1, <3>2
    <2>3. ASSUME r = "Oam", ~ oam_dma.active
          PROVE  port'.oam = before[c]
      <3>1. port'.oam = memory[c]
        BY <1>4, <2>3 DEF BusClock
      <3> QED BY <1>6, <2>3, <3>1
    <2>4. ASSUME r = "Vram", \A x \in modes \cup {m} : ~ Refused(x)
          PROVE  port'.vram = before[c]
      <3>1. ppu_mode \in modes
        BY <1>10 DEF BusRegs
      <3>2. ~ Refused(ppu_mode) /\ ~ Refused(m)
        BY <2>4, <3>1
      <3>3. req.addr[1] = "Vram"
        BY <1>4, <2>4
      <3>4. ppu_mode # "transfer" /\ m # "transfer"
        BY <3>2, <3>3 DEF Refused, blocked_req
      <3>5. fetch = {}
        BY <3>4 DEF Fetches
      <3>6. ~ oam_dma.active
        BY <1>7, <2>4, <3>2
      <3>7. port'.vram = memory[c]
        BY <1>4, <1>8, <2>4, <3>5, <3>6 DEF BusClock, vram_ebr
      <3> QED BY <1>6, <3>6, <3>7
    <2> QED BY <1>10, <2>1, <2>2, <2>3, <2>4
  <1>11. CASE t_index = 2
    <2>1. bus_read_data_reg' = bus_resp_next(m)
      BY <1>11 DEF BusClock
    <2>2. ASSUME Refused(m)
          PROVE  bus_read_data_reg' = 255
      BY <1>5, <2>1, <2>2 DEF bus_resp_next, Refused
    <2>3. ASSUME ~ Refused(m), r # "Vram"
          PROVE  bus_read_data_reg' = before[c]
      <3>1. /\ r \in Spram => port.spram[r].primary = before[c]
            /\ r = "Hram" => port.hram = before[c]
            /\ r = "Oam" /\ ~ oam_dma.active => port.oam = before[c]
        BY <1>2, <1>11 DEF OnItsWay, c, r
      <3>2. ~ blocked_req(req.addr[1], m)
        BY <2>3 DEF Refused
      <3>3. CASE r \in Spram
        BY <1>2, <1>4, <1>5, <2>1, <3>1, <3>2, <3>3 DEF bus_resp_next, Spram
      <3>4. CASE r = "Hram"
        BY <1>2, <1>4, <1>5, <2>1, <3>1, <3>2, <3>4 DEF bus_resp_next, Spram
      <3>5. CASE r = "Oam"
        BY <1>2, <1>4, <1>5, <1>7, <2>1, <2>3, <3>1, <3>2, <3>5 DEF bus_resp_next, Spram
      <3> QED BY <1>4, <2>3, <3>3, <3>4, <3>5 DEF Spram
    <2>4. ASSUME r = "Vram", \A x \in modes \cup {m} : ~ Refused(x)
          PROVE  bus_read_data_reg' = before[c]
      <3>1. ~ Refused(m) /\ \A x \in modes : ~ Refused(x)
        BY <2>4
      <3>2. port.vram = before[c]
        BY <1>2, <1>11, <2>4, <3>1 DEF OnItsWay, c, r
      <3>3. ~ oam_dma.active /\ req.addr[1] = "Vram" /\ ~ blocked_req(req.addr[1], m)
        BY <1>4, <1>7, <2>4, <3>1 DEF Refused
      <3> QED BY <1>2, <1>5, <1>8, <2>1, <2>4, <3>2, <3>3 DEF bus_resp_next, Spram
    <2> QED BY <1>11, <2>2, <2>3, <2>4
  <1> QED BY <1>1, <1>9, <1>10, <1>11

(* So does the byte of a DMA, ...                                            *)
LEMMA CopyingWithin ==
    ASSUME BusRegs, Written, Copying, NEW m, NEW fetch, BusClock(m, fetch),
           t_index # 3, req' = req, before' = before, modes' = modes \cup {m}
    PROVE  Copying'
  <1> DEFINE s == SourceCell
             a == source_addr(oam_dma, oam_dma.index)
             r == s[1]
  <1>1. /\ oam_dma' = oam_dma /\ t_index' = t_index + 1 /\ t_index \in 0 .. 2 /\ s' = s
    BY Within
  <1>2. SUFFICES ASSUME oam_dma.active
        PROVE  /\ t_index = 1 /\ r \in Spram => port'.spram[r].last = <<TRUE, memory'[s]>>
               /\ t_index = 2 /\ r \in Spram => port'.spram[r].aux = memory'[s]
               /\ t_index = 2 /\ r = "Hram" => port'.hram = memory'[s]
    <2>2. t_index' = 2 <=> t_index = 1
      BY <1>1
    <2>3. t_index' = 3 <=> t_index = 2
      BY <1>1
    <2> HIDE DEF s
    <2> QED BY <1>1, <1>2, <2>2, <2>3 DEF Copying, s
  <1>3. /\ a[1] # "Io" => a \in Addresses
        /\ a[1] = "Io" => r = "Io"
    BY Sources DEF BusRegs, SourceCell
  <1>4. s = CellOf(a)
    BY DEF SourceCell
  <1>5. r # "Io" => /\ s \in MemoryCells /\ s = <<r, s[2]>> /\ OffsetIn(r, a) = s[2]
                    /\ r = "Hram" => s = <<"Hram", 0>>
    <2> HIDE DEF a, s
    <2>1. r # "Io" => a \in Addresses
      BY <1>3
    <2> QED BY <1>4, <2>1, Decoded
  <1>6. r \in Spram => memory'[s] = memory[s]
    <2> SUFFICES ASSUME r \in Spram PROVE memory'[s] = memory[s]
      OBVIOUS
    <2>1. r # "Io" /\ r # "Hram" /\ s # DmaCell
      BY DEF Spram, DmaCell
    <2> HIDE DEF s
    <2> QED BY <1>2, <1>5, <2>1, OnlyHram
  <1>7. ASSUME t_index = 1, r \in Spram
        PROVE  port'.spram[r].last = <<TRUE, memory'[s]>>
    <2> HIDE DEF s
    <2>0. r # "Io"
      BY <1>7 DEF Spram
    <2>1. port'.spram[r] = spram_dual_read_port(r)
      BY <1>7 DEF BusClock
    <2>2. port'.spram[r].last = rw8k_schedule(r)
      BY <2>1 DEF spram_dual_read_port
    <2>3. rw8k_schedule(r) = <<TRUE, memory[s]>>
      BY <1>5, <1>7, <2>0 DEF rw8k_schedule
    <2> QED BY <1>6, <1>7, <2>2, <2>3
  <1>8. ASSUME t_index = 2, r \in Spram
        PROVE  port'.spram[r].aux = memory'[s]
    <2>1. port.spram[r].last = <<TRUE, memory[s]>>
      BY <1>2, <1>8 DEF Copying
    <2> HIDE DEF s
    <2>2. port'.spram[r] = spram_dual_read_port(r)
      BY <1>8 DEF BusClock
    <2>3. update_read_capture(port.spram[r].aux, port.spram[r].last, TRUE) = memory[s]
      BY <2>1 DEF update_read_capture
    <2>4. port'.spram[r].aux = update_read_capture(port.spram[r].aux, port.spram[r].last, TRUE)
      BY <2>2 DEF spram_dual_read_port
    <2> QED BY <1>6, <1>8, <2>3, <2>4
  <1>9. ASSUME t_index = 2, r = "Hram"
        PROVE  port'.hram = memory'[s]
    <2> HIDE DEF s
    <2>1. s = <<"Hram", 0>>
      BY <1>5, <1>9
    <2>2. port'.hram = memory[s]
      BY <2>1 DEF BusClock
    <2>3. memory'[s] = memory[s]
      BY <1>9, <2>1, HramDone
    <2> QED BY <2>2, <2>3
  <1> QED BY <1>7, <1>8, <1>9

(* A page in a memory the core does not write stays as it is.                *)
LEMMA PageKept ==
    ASSUME BusRegs, NEW m, NEW fetch, BusClock(m, fetch), oam_dma.active,
           oam_dma.source_high # "High", NEW i \in PageOffsets
    PROVE  PageIn(memory', oam_dma, i) = PageIn(memory, oam_dma, i)
  <1> DEFINE a == source_addr(oam_dma, i)
             c == CellOf(a)
  <1>1. /\ a[1] # "Io" => a \in Addresses
        /\ a[1] = "Io" => c[1] = "Io"
        /\ a[1] # "Hram"
    BY Sources DEF BusRegs
  <1>2. c[1] # "Io" => c \in MemoryCells /\ c[1] # "Hram"
    <2> HIDE DEF a
    <2> QED BY <1>1, Decoded
  <1>3. c[1] \in Spram \cup {"Hram"} => c[1] # "Oam" /\ c[1] # "Io"
    BY DEF Spram
  <1>4. c[1] # "Oam" => c # DmaCell
    BY DEF DmaCell
  <1> HIDE DEF c
  <1>5. c[1] \in Spram \cup {"Hram"} => memory'[c] = memory[c]
    BY <1>2, <1>3, <1>4, OnlyHram
  <1> QED BY <1>5 DEF PageIn, c

(* ... and what has been copied stays.                                       *)
LEMMA CopiedWithin ==
    ASSUME BusRegs, Copied, NEW m, NEW fetch, BusClock(m, fetch),
           t_index # 3, req' = req, before' = before, modes' = modes \cup {m}
    PROVE  Copied'
  <1>1. oam_dma' = oam_dma
    BY Within
  <1>2. SUFFICES ASSUME oam_dma.active, oam_dma.source_high # "High",
                        NEW i \in PageOffsets, i < oam_dma.index
        PROVE  memory'[<<"Oam", i>>] = PageIn(memory', oam_dma, i)
    BY <1>1 DEF Copied, PageIn
  <1>3. memory[<<"Oam", i>>] = PageIn(memory, oam_dma, i)
    BY <1>2 DEF Copied
  <1>4. PageIn(memory', oam_dma, i) = PageIn(memory, oam_dma, i)
    BY <1>2, PageKept
  <1>5. i # oam_dma.index
    BY <1>2 DEF BusRegs, PageOffsets
  <1>6. <<"Oam", i>> \in MemoryCells /\ <<"Oam", i>> # DmaCell
    BY <1>5 DEF MemoryCells, DmaCell
  <1>7. memory'[<<"Oam", i>>] = memory[<<"Oam", i>>]
    BY <1>2, <1>6, OnlyHram
  <1> QED BY <1>3, <1>4, <1>7

(* The registers of the DMA after a commit.                                  *)
LEMMA DmaSteps ==
    ASSUME BusRegs, NEW m, NEW fetch, BusClock(m, fetch), t_index = 3
    PROVE  /\ oam_dma' \in [active : BOOLEAN, source_high : SourcePages, index : PageOffsets]
           /\ Starting => oam_dma'.active /\ oam_dma'.index = 0
           /\ ~ Starting => oam_dma'.source_high = oam_dma.source_high
           /\ ~ Starting /\ ~ oam_dma.active => ~ oam_dma'.active
           /\ ~ Starting /\ oam_dma.active /\ oam_dma'.active =>
                oam_dma'.index = oam_dma.index + 1
           /\ oam_dma.active /\ ~ oam_dma'.active => oam_dma.index = PageBytes - 1
  <1>1. oam_dma' = next_dma
    BY DEF BusClock
  <1>2. oam_dma \in [active : BOOLEAN, source_high : SourcePages, index : PageOffsets]
    BY DEF BusRegs
  <1>3. CASE Starting
    <2>1. req.addr[1] \in SourcePages
      BY <1>3, RequestFacts DEF Starting, BusRegs
    <2>2. 0 \in PageOffsets
      BY PageBytesAssumption DEF PageOffsets
    <2> QED BY <1>1, <1>3, <2>1, <2>2 DEF next_dma
  <1>4. CASE ~ Starting /\ ~ oam_dma.active
    BY <1>1, <1>2, <1>4 DEF next_dma
  <1>5. CASE ~ Starting /\ oam_dma.active /\ oam_dma.index = PageBytes - 1
    <2>1. 0 \in PageOffsets
      BY PageBytesAssumption DEF PageOffsets
    <2> QED BY <1>1, <1>2, <1>5, <2>1 DEF next_dma
  <1>6. CASE ~ Starting /\ oam_dma.active /\ oam_dma.index # PageBytes - 1
    <2>1. oam_dma.index + 1 \in PageOffsets
      BY <1>2, <1>6, PageBytesAssumption DEF PageOffsets
    <2>2. oam_dma' = [oam_dma EXCEPT !.index = @ + 1]
      BY <1>1, <1>6 DEF next_dma
    <2>3. oam_dma'.active
      BY <1>2, <1>6, <2>2
    <2> QED BY <1>2, <1>6, <2>1, <2>2, <2>3
  <1> QED BY <1>3, <1>4, <1>5, <1>6

(* The byte a DMA puts into OAM at a commit is that of its page.             *)
LEMMA CopiesPage ==
    ASSUME BusInv, NEW m, NEW fetch, BusClock(m, fetch), t_index = 3, oam_dma.active
    PROVE  memory'[DmaCell] = PageIn(memory', oam_dma, oam_dma.index)
  <1> DEFINE s == SourceCell
             a == source_addr(oam_dma, oam_dma.index)
             r == s[1]
  <1>1. /\ a[1] \in {"Rom", "Wram", "Echo", "Vram", "Oam", "Hram", "Io"}
        /\ a[1] # "Io" => a \in Addresses
        /\ a[1] = "Io" => r = "Io"
    BY Sources DEF BusInv, BusRegs, SourceCell
  <1>2. s = CellOf(a) /\ SourceRegion = a[1]
    BY DEF SourceCell, SourceRegion
  <1>3. a[1] # "Io" => /\ s \in MemoryCells
                       /\ a[1] = "Echo" => r = "Wram"
                       /\ a[1] # "Echo" => r = a[1]
                       /\ r = "Hram" => s = <<"Hram", 0>>
    <2> HIDE DEF a, s
    <2> QED BY <1>1, <1>2, Decoded
  <1>4. /\ r \in Spram => port.spram[r].aux = memory[s]
        /\ r = "Hram" => port.hram = memory[s]
    BY DEF BusInv, Copying
  <1>5. s[1] # "Oam" => s # DmaCell
    BY DEF DmaCell
  <1>6. DmaCell \in MemoryCells
    BY DEF DmaCell, BusInv, BusRegs, MemoryCells
  <1>7. memory'[DmaCell] = dma_source_data
    BY <1>6, ClockStores DEF BusInv
  <1>8. PageIn(memory', oam_dma, oam_dma.index) = IF r \in Spram \cup {"Hram"} THEN memory'[s] ELSE 255
    BY DEF PageIn, SourceCell
  <1> HIDE DEF a, s
  <1>9. CASE a[1] \in {"Rom", "Wram", "Echo"}
    <2>1. r \in Spram /\ s \in MemoryCells /\ r # "Hram" /\ r # "Oam"
      BY <1>3, <1>9 DEF Spram
    <2>2. memory'[s] = memory[s]
      BY <1>5, <2>1, OnlyHram DEF BusInv
    <2>3. dma_source_data = port.spram[r].aux
      BY <1>2, <1>3, <1>9 DEF dma_source_data
    <2> QED BY <1>4, <1>7, <1>8, <2>1, <2>2, <2>3
  <1>10. CASE a[1] = "Hram"
    <2>1. r = "Hram" /\ s = <<"Hram", 0>>
      BY <1>3, <1>10
    <2>2. memory'[s] = memory[s]
      BY <2>1, HramDone DEF BusInv
    <2>3. dma_source_data = port.hram
      BY <1>2, <1>10 DEF dma_source_data
    <2> QED BY <1>4, <1>7, <1>8, <2>1, <2>2, <2>3
  <1>11. CASE a[1] \in {"Vram", "Oam", "Io"}
    <2>1. r \notin Spram \cup {"Hram"}
      BY <1>1, <1>3, <1>11 DEF Spram
    <2>2. dma_source_data = 255
      BY <1>2, <1>11 DEF dma_source_data
    <2> QED BY <1>7, <1>8, <2>1, <2>2
  <1> QED BY <1>1, <1>9, <1>10, <1>11

(* The bytes copied in earlier M-cycles are still those of the page.         *)
LEMMA EarlierCopied ==
    ASSUME BusInv, NEW m, NEW fetch, BusClock(m, fetch), oam_dma.active,
           oam_dma.source_high # "High", NEW i \in PageOffsets, i < oam_dma.index
    PROVE  memory'[<<"Oam", i>>] = PageIn(memory', oam_dma, i)
  <1>1. memory[<<"Oam", i>>] = PageIn(memory, oam_dma, i)
    BY DEF BusInv, Copied
  <1>2. PageIn(memory', oam_dma, i) = PageIn(memory, oam_dma, i)
    BY PageKept DEF BusInv
  <1>3. i # oam_dma.index
    BY DEF BusInv, BusRegs, PageOffsets
  <1>4. <<"Oam", i>> \in MemoryCells /\ <<"Oam", i>> # DmaCell
    BY <1>3 DEF MemoryCells, DmaCell
  <1>5. memory'[<<"Oam", i>>] = memory[<<"Oam", i>>]
    BY <1>4, OnlyHram DEF BusInv
  <1> QED BY <1>1, <1>2, <1>5

(* At a commit the invariant starts again, ...                               *)
LEMMA CommitKeeps ==
    ASSUME BusInv, BusCommit
    PROVE  BusInv'
  <1>0. PICK m \in NextModes : \E fetch \in Fetches(m) : BusClock(m, fetch)
    BY DEF BusCommit
  <1>1. PICK fetch \in Fetches(m) : BusClock(m, fetch)
    BY <1>0
  <1>2. t_index = 3 /\ req' \in Requests /\ before' = memory' /\ modes' = {} /\ BusRegs
    BY DEF BusCommit, BusInv
  <1>3. t_index' = 0 /\ touched' = touched
    BY <1>1, <1>2 DEF BusClock
  <1>4. BusRegs'
    <2>1. Requests' = Requests
      BY <1>3 DEF Requests
    <2>2. oam_dma' \in [active : BOOLEAN, source_high : SourcePages, index : PageOffsets]
      BY <1>1, <1>2, DmaSteps
    <2> QED BY <1>2, <1>3, <2>1, <2>2 DEF BusRegs
  <1>5. Changed' /\ Written' /\ OnItsWay' /\ Copying'
    BY <1>2, <1>3 DEF Changed, Written, OnItsWay, Copying
  <1>6. Copied'
    <2>1. SUFFICES ASSUME oam_dma'.active, oam_dma'.source_high # "High",
                          NEW i \in PageOffsets, i < oam_dma'.index
          PROVE  memory'[<<"Oam", i>>] = PageIn(memory', oam_dma', i)
      BY DEF Copied
    <2>2. ~ Starting
      <3>1. Starting => oam_dma'.index = 0
        BY <1>1, <1>2, DmaSteps
      <3> QED BY <2>1, <3>1 DEF PageOffsets
    <2>3. /\ oam_dma.active /\ oam_dma'.index = oam_dma.index + 1
          /\ oam_dma'.source_high = oam_dma.source_high
      BY <1>1, <1>2, <2>1, <2>2, DmaSteps
    <2>4. PageIn(memory', oam_dma', i) = PageIn(memory', oam_dma, i)
      BY <2>3 DEF PageIn, source_addr
    <2>5. CASE i = oam_dma.index
      BY <1>1, <1>2, <2>3, <2>4, <2>5, CopiesPage DEF DmaCell
    <2>6. CASE i < oam_dma.index
      BY <1>1, <2>1, <2>3, <2>4, <2>6, EarlierCopied
    <2>7. i = oam_dma.index \/ i < oam_dma.index
      BY <1>2, <2>1, <2>3 DEF BusRegs, PageOffsets
    <2> QED BY <2>5, <2>6, <2>7
  <1> QED BY <1>4, <1>5, <1>6 DEF BusInv

(* ... and the core has what one indivisible access gives,                   *)
LEMMA CommitAccess ==
    ASSUME BusInv, BusCommit
    PROVE  CoreAccess
  <1> DEFINE c == CellOf(req.addr)
             region == req.addr[1]
             taken == {blocked_req(region, x) : x \in modes \cup {ppu_mode'}}
  <1>0. PICK m \in NextModes : \E fetch \in Fetches(m) : BusClock(m, fetch)
    BY DEF BusCommit
  <1>1. PICK fetch \in Fetches(m) : BusClock(m, fetch)
    BY <1>0
  <1>2. t_index = 3 /\ BusRegs /\ ppu_mode \in modes /\ ppu_mode' = m
    BY <1>1 DEF BusCommit, BusInv, BusRegs, BusClock
  <1>3. \A x : Refused(x) = blocked_req(region, x)
    BY DEF Refused
  <1>4. bus_read_data_reg' = bus_read_data_reg
    BY <1>1, <1>2 DEF BusClock
  <1>5. taken = {FALSE} => \A x \in modes \cup {m} : ~ Refused(x)
    <2> SUFFICES ASSUME taken = {FALSE}, NEW x \in modes \cup {m}
                 PROVE  ~ Refused(x)
      OBVIOUS
    <2>1. blocked_req(region, x) \in taken
      BY <1>2
    <2> HIDE DEF taken
    <2>2. blocked_req(region, x) = FALSE
      BY <2>1
    <2> QED BY <1>3, <2>2
  <1>6. taken = {TRUE} => \A x \in modes \cup {m} : Refused(x)
    <2> SUFFICES ASSUME taken = {TRUE}, NEW x \in modes \cup {m}
                 PROVE  Refused(x)
      OBVIOUS
    <2>1. blocked_req(region, x) \in taken
      BY <1>2
    <2> HIDE DEF taken
    <2>2. blocked_req(region, x) = TRUE
      BY <2>1
    <2> QED BY <1>3, <2>2
  <1>7. ASSUME req.kind = "Read"
        PROVE  CASE taken = {FALSE} -> bus_read_data_reg = before[c]
                 [] taken = {TRUE} -> bus_read_data_reg = 255
                 [] OTHER -> region = "Vram" \/ bus_read_data_reg \in {before[c], 255}
    <2>1. /\ Refused(ppu_mode) => bus_read_data_reg = 255
          /\ ~ Refused(ppu_mode) /\ c[1] # "Vram" => bus_read_data_reg = before[c]
          /\ (\A x \in modes : ~ Refused(x)) => bus_read_data_reg = before[c]
      BY <1>2, <1>7 DEF BusInv, OnItsWay
    <2>2. c[1] = "Vram" => region = "Vram"
      BY <1>2, <1>7, RequestFacts, Decoded DEF BusRegs
    <2>3. taken = {FALSE} => bus_read_data_reg = before[c]
      BY <1>5, <2>1
    <2>4. taken = {TRUE} => bus_read_data_reg = 255
      BY <1>2, <1>6, <2>1
    <2>5. region = "Vram" \/ bus_read_data_reg \in {before[c], 255}
      BY <2>1, <2>2
    <2> HIDE DEF taken, c, region
    <2>6. {TRUE} # {FALSE}
      OBVIOUS
    <2> QED BY <2>3, <2>4, <2>5, <2>6
  <1>8. ASSUME req.kind = "Write", c[1] # "Rom", ~ (oam_dma.active /\ c = <<"Oam", oam_dma.index>>)
        PROVE  CASE taken = {FALSE} -> memory'[c] = req.data
                 [] taken = {TRUE} -> memory'[c] = before[c]
                 [] OTHER -> memory'[c] \in {before[c], req.data}
    <2>1. memory[c] = IF \E x \in modes : ~ Refused(x) THEN req.data ELSE before[c]
      BY <1>2, <1>8 DEF BusInv, Written, DmaCell
    <2>2. c \in MemoryCells
      BY <1>2, <1>8, RequestFacts, Decoded DEF BusRegs
    <2>3. memory'[c] = IF ~ Refused(m) /\ c[1] # "Wram" THEN req.data ELSE memory[c]
      BY <1>1, <1>2, <1>8, <2>2, ClockStores DEF DmaCell
    <2>4. taken = {FALSE} => memory'[c] = req.data
      BY <1>2, <1>5, <2>1, <2>3
    <2>5. taken = {TRUE} => memory'[c] = before[c]
      BY <1>2, <1>6, <2>1, <2>3
    <2>6. memory'[c] \in {before[c], req.data}
      BY <2>1, <2>3
    <2> HIDE DEF taken, c, region
    <2>7. {TRUE} # {FALSE}
      OBVIOUS
    <2> QED BY <2>4, <2>5, <2>6, <2>7
  <1> QED BY <1>7, <1>8 DEF CoreAccess

(* ... a DMA has copied its byte,                                            *)
LEMMA CommitCopy ==
    ASSUME BusInv, BusCommit
    PROVE  DmaCopy
  <1>0. PICK m \in NextModes : \E fetch \in Fetches(m) : BusClock(m, fetch)
    BY DEF BusCommit
  <1>1. PICK fetch \in Fetches(m) : BusClock(m, fetch)
    BY <1>0
  <1>2. t_index = 3 /\ BusRegs
    BY DEF BusCommit, BusInv
  <1>3. \A i : PageByte(i) = PageIn(memory', oam_dma, i)
    BY DEF PageByte, PageIn
  <1>4. ASSUME oam_dma.active
        PROVE  memory'[DmaCell] = PageByte(oam_dma.index)
    BY <1>1, <1>2, <1>3, <1>4, CopiesPage
  <1>5. ASSUME oam_dma.active, ~ oam_dma'.active, oam_dma.source_high # "High",
               NEW i \in PageOffsets
        PROVE  memory'[<<"Oam", i>>] = PageByte(i)
    <2>1. oam_dma.index = PageBytes - 1
      BY <1>1, <1>2, <1>5, DmaSteps
    <2>2. CASE i = oam_dma.index
      BY <1>4, <1>5, <2>2 DEF DmaCell
    <2>3. CASE i < oam_dma.index
      BY <1>1, <1>3, <1>5, <2>3, EarlierCopied
    <2>4. i = oam_dma.index \/ i < oam_dma.index
      BY <2>1, PageBytesAssumption DEF PageOffsets
    <2> QED BY <2>2, <2>3, <2>4
  <1> QED BY <1>4, <1>5 DEF DmaCopy, DmaCell

(* ... and nothing else has changed.                                         *)
LEMMA CommitKept ==
    ASSUME BusInv, BusCommit
    PROVE  OthersKept
  <1>0. PICK m \in NextModes : \E fetch \in Fetches(m) : BusClock(m, fetch)
    BY DEF BusCommit
  <1>1. PICK fetch \in Fetches(m) : BusClock(m, fetch)
    BY <1>0
  <1>2. ASSUME NEW c \in MemoryCells, ~ (req.kind = "Write" /\ c = CellOf(req.addr)),
               ~ (oam_dma.active /\ c = DmaCell)
        PROVE  memory'[c] = before[c]
    <2>1. memory'[c] = memory[c]
      BY <1>1, <1>2, ClockStores DEF BusInv
    <2> QED BY <1>2, <2>1 DEF BusInv, Changed
  <1> QED BY <1>2 DEF OthersKept, DmaCell

(* Every clock of the bus keeps what is known of the M-cycle.                *)
LEMMA BusKeeps ==
    ASSUME BusInv, [BusNext]_busVars
    PROVE  BusInv'
  <1>1. CASE BusWait
    <2>0. PICK m \in NextModes :
            \E fetch \in Fetches(m) : BusClock(m, fetch) /\ modes' = modes \cup {m}
      BY <1>1 DEF BusWait
    <2>1. PICK fetch \in Fetches(m) : BusClock(m, fetch) /\ modes' = modes \cup {m}
      BY <2>0
    <2>2. t_index # 3 /\ req' = req /\ before' = before
      BY <1>1 DEF BusWait
    <2>3. BusRegs'
      BY <2>1, <2>2, Within DEF BusInv
    <2>4. Changed' /\ Written'
      BY <2>1, <2>2, ChangedWithin, WrittenWithin DEF BusInv
    <2>5. OnItsWay'
      BY <2>1, <2>2, ReadWithin DEF BusInv
    <2>6. Copying' /\ Copied'
      BY <2>1, <2>2, CopyingWithin, CopiedWithin DEF BusInv
    <2> QED BY <2>3, <2>4, <2>5, <2>6 DEF BusInv
  <1>2. CASE BusCommit
    BY <1>2, CommitKeeps
  <1>3. CASE UNCHANGED busVars
    <2>1. /\ touched' = touched /\ t_index' = t_index /\ req' = req /\ memory' = memory
          /\ bus_read_data_reg' = bus_read_data_reg /\ port' = port /\ oam_dma' = oam_dma
          /\ ppu_mode' = ppu_mode /\ before' = before /\ modes' = modes
      BY <1>3 DEF busVars
    <2>2. /\ DmaCell' = DmaCell /\ SourceCell' = SourceCell
          /\ \A x : Refused(x)' <=> Refused(x)
      BY <2>1 DEF DmaCell, SourceCell, Refused, blocked_req
    <2>3. BusRegs'
      BY <2>1 DEF BusInv, BusRegs, Requests
    <2>4. Changed'
      BY <2>1, <2>2 DEF BusInv, Changed
    <2>5. Written'
      BY <2>1, <2>2 DEF BusInv, Written
    <2>6. OnItsWay'
      BY <2>1, <2>2 DEF BusInv, OnItsWay
    <2>7. Copying' /\ Copied'
      BY <2>1, <2>2 DEF BusInv, Copying, Copied, PageIn
    <2> QED BY <2>3, <2>4, <2>5, <2>6, <2>7 DEF BusInv
  <1> QED BY <1>1, <1>2, <1>3 DEF BusNext

(* A request served over four clocks by ports shared with the picture unit   *)
(* and the DMA (board/hardware_soc_core.spade) is one indivisible access at  *)
(* the commit, whatever the program asks for and wherever the modes change.  *)
THEOREM AtomicMemory == BusSpec => MemoryIsAtomic
  <1>1. ASSUME NEW addresses \in Touched, BusInit(addresses)
        PROVE  BusInv
    <2>1. IdleRequest \in Requests
      BY DEF Requests
    <2>2. 0 \in PageOffsets /\ touched \in Touched
      BY <1>1, PageBytesAssumption DEF PageOffsets, BusInit
    <2>3. BusRegs
      BY <1>1, <2>1, <2>2 DEF BusInit, BusRegs, SourcePages
    <2> QED BY <1>1, <2>3 DEF BusInit, BusInv, Changed, Written, OnItsWay, Copying, Copied, IdleRequest
  <1>2. ASSUME BusInv, BusNext, t_index = 3
        PROVE  CoreAccess /\ DmaCopy /\ OthersKept
    <2>1. BusCommit
      BY <1>2 DEF BusNext, BusWait
    <2> QED BY <1>2, <2>1, CommitAccess, CommitCopy, CommitKept
  <1>3. BusInv /\ [BusNext]_busVars => BusInv'
    BY BusKeeps
  <1>4. BusInv /\ [BusNext]_busVars => [t_index = 3 => CoreAccess /\ DmaCopy /\ OthersKept]_busVars
    BY <1>2
  <1>5. (\E addresses \in Touched : BusInit(addresses)) => BusInv
    BY <1>1
  <1> QED BY <1>3, <1>4, <1>5, PTL DEF BusSpec, MemoryIsAtomic
=============================================================================

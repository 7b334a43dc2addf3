-------------------------- MODULE PeripheralProofs --------------------------
(* Proofs about the devices that count clocks: the timer and the serial port *)
(* on the common clock, for every range of TIMA, every set of clock selects  *)
(* and every set of keys, and the UART, for every width of a byte, every bit *)
(* time that fits its counter, and every sender within its tolerance.        *)
EXTENDS Peripherals, UartLink, Integers, TLAPS

-----------------------------------------------------------------------------
(* The inductive invariant: what the registers of the timer and the serial   *)
(* port have to do with the clocks since the last wrap and with the M-cycle  *)
(* of the transfer.                                                          *)
DelayFitsAge ==
    /\ wrap_age \in 1 .. 4 => overflow_delay = 5 - wrap_age
    /\ wrap_age \in {0, 5} => overflow_delay = 0
CyclesFitAge ==
    /\ TransferActive <=> shift_age # 0
    /\ shift_age # 0 => cycles_left = 9 - shift_age
DevicesInv == PeripheralsTypeOK /\ DelayFitsAge /\ ReloadOnTime /\ CyclesFitAge

(* What a write may carry, by the register it goes to.                       *)
FitsRegister(write) ==
    /\ write.reg \in {"-"} \cup DOMAIN Address
    /\ write.reg \in {"TIMA", "TMA"} => write.data \in Count
    /\ write.reg = "TAC" => write.data \in Tac
    /\ write.reg = "P1" => write.data \subseteq Group
    /\ write.reg = "SC" => write.data \in SUBSET {0, 7}

(* Every write the core can make fits its register, and a store comes in the *)
(* last clock of an M-cycle.                                                 *)
LEMMA WritesFit ==
    ASSUME NEW write \in PossibleWrites
    PROVE  FitsRegister(write) /\ (write.reg # "-" => m_ce)
<1> DEFINE Registers == {"P1", "SB", "SC", "DIV", "TIMA", "TMA", "TAC"}
<1>1. DOMAIN Address = Registers
  BY DEF Address
<1>2. CASE write = NoWrite
  BY <1>2 DEF NoWrite, FitsRegister
<1>3. CASE write \in TimerWrites /\ m_ce
  BY <1>1, <1>3 DEF TimerWrites, FitsRegister
<1>4. CASE write \in PortWrites /\ m_ce
  BY <1>1, <1>4 DEF PortWrites, FitsRegister
<1> QED BY <1>2, <1>3, <1>4 DEF PossibleWrites

(* The range of TIMA has room for a wrap, and TAC resets to a clock select.  *)
LEMMA TimerRange == TimaMod \in Nat /\ TimaMod >= 2 /\ ResetTac \in Tac
<1>1. TimaMod \in Nat /\ TimaMod >= 2 /\ Select # {}
  BY TimerAssumption DEF Select
<1>2. (CHOOSE s \in Select : TRUE) \in Select
  BY <1>1
<1> QED BY <1>1, <1>2 DEF ResetTac, Tac

(* Zero is a value of every register and counter.                            *)
LEMMA ZeroFits ==
    /\ 0 \in Count /\ 0 \in 0 .. OverflowDelay /\ 0 \in 0 .. 8 /\ 0 \in 0 .. 5
    /\ 0 \in 0 .. CounterMod - 1
  BY TimerRange, CounterAssumption DEF Count, OverflowDelay

(* The reset state satisfies the invariant.                                  *)
LEMMA DevicesInvInit == PeriphInit => DevicesInv
<1> SUFFICES ASSUME PeriphInit  PROVE DevicesInv
  OBVIOUS
<1>1. TimerTypeOK
  BY TimerRange, ZeroFits DEF PeriphInit, TimerInit, TimerTypeOK
<1>2. SerialTypeOK /\ JoypadTypeOK
  BY ZeroFits DEF PeriphInit, SerialInit, JoypadInit, SerialTypeOK, JoypadTypeOK
<1>4. PeripheralsTypeOK
  BY <1>1, <1>2, ZeroFits DEF PeriphInit, PeripheralsTypeOK
<1>5. ~ TransferActive
  BY DEF PeriphInit, SerialInit, TransferActive, InternalClock
<1>6. DelayFitsAge /\ ReloadOnTime /\ CyclesFitAge
  BY <1>5 DEF PeriphInit, TimerInit, DelayFitsAge, ReloadOnTime, CyclesFitAge
<1> QED BY <1>4, <1>6 DEF DevicesInv

(* The timer and its history.                                                *)
LEMMA TimerStep ==
    ASSUME DevicesInv, NEW write, FitsRegister(write),
           TimerClock(sys_counter, write), RecordWrap(write)
    PROVE  TimerTypeOK' /\ wrap_age' \in 0 .. 5 /\ DelayFitsAge' /\ ReloadOnTime'
<1> DEFINE Goal == /\ tima' \in Count /\ overflow_delay' \in 0 .. 4
                   /\ timer_irq' \in BOOLEAN
                   /\ wrap_age' \in 0 .. 5 /\ DelayFitsAge' /\ ReloadOnTime'
<1>1. /\ tma' \in Count /\ tac' \in Tac
      /\ sampled_enabled' \in BOOLEAN /\ sampled_bit' \in BOOLEAN
  <2>1. NextTma(write) \in Count /\ NextTac(write) \in Tac
    BY DEF NextTma, NextTac, DevicesInv, PeripheralsTypeOK, TimerTypeOK, FitsRegister
  <2>2. NextTac(write).enabled \in BOOLEAN
    BY <2>1 DEF Tac
  <2>3. NextSampledBit(sys_counter, write) \in BOOLEAN
    BY DEF NextSampledBit, TimerBit
  <2> QED BY <2>1, <2>2, <2>3 DEF TimerClock
<1> SUFFICES Goal
  BY <1>1 DEF TimerTypeOK, OverflowDelay
<1>2. tma' = Reload(write) /\ NextTima(sys_counter, write)
  BY DEF TimerClock, Reload
<1>3. /\ tima \in 0 .. TimaMod - 1 /\ overflow_delay \in 0 .. 4 /\ timer_irq \in BOOLEAN
      /\ wrap_age \in 0 .. 5 /\ tma' \in 0 .. TimaMod - 1
      /\ write.reg = "TIMA" => write.data \in 0 .. TimaMod - 1
  BY <1>1 DEF DevicesInv, PeripheralsTypeOK, TimerTypeOK, FitsRegister, Count, OverflowDelay
<1>4. /\ wrap_age \in 1 .. 4 => overflow_delay = 5 - wrap_age /\ tima = 0
      /\ wrap_age = 0 \/ wrap_age = 5 => overflow_delay = 0
  BY DEF DevicesInv, DelayFitsAge, ReloadOnTime
<1>0. timer_irq' = FALSE => timer_irq' \in BOOLEAN /\ ~ timer_irq'
  OBVIOUS
<1>5. CASE write.reg = "TIMA"
  <2>1. tima' = write.data /\ overflow_delay' = 0 /\ timer_irq' = FALSE
    BY <1>2, <1>5 DEF NextTima, SetTima
  <2>2. wrap_age' = 0
    BY <1>5 DEF RecordWrap
  <2> QED BY <1>0, <1>3, <1>5, <2>1, <2>2 DEF DelayFitsAge, ReloadOnTime, Count
<1>6. CASE write.reg # "TIMA" /\ overflow_delay = 1
  <2>1. tima' = tma' /\ overflow_delay' = 0 /\ timer_irq' = TRUE
    BY <1>2, <1>6 DEF NextTima, SetTima
  <2>2. wrap_age = 4
    BY <1>3, <1>4, <1>6
  <2>3. wrap_age' = 5
    BY <1>6, <2>2 DEF RecordWrap
  <2> QED BY <1>3, <2>1, <2>3 DEF DelayFitsAge, ReloadOnTime, Count
<1>7. CASE write.reg # "TIMA" /\ overflow_delay > 1
  <2>1. tima' = tima /\ overflow_delay' = overflow_delay - 1 /\ timer_irq' = FALSE
    BY <1>2, <1>3, <1>7 DEF NextTima, SetTima
  <2>2. wrap_age \in 1 .. 3
    BY <1>3, <1>4, <1>7
  <2>3. wrap_age' = wrap_age + 1
    BY <1>7, <2>2 DEF RecordWrap
  <2> QED BY <1>0, <1>3, <1>4, <2>1, <2>2, <2>3 DEF DelayFitsAge, ReloadOnTime, Count
<1>8. CASE write.reg # "TIMA" /\ overflow_delay = 0
  <2>1. wrap_age = 0 \/ wrap_age = 5
    BY <1>3, <1>4, <1>8
  <2>2. wrap_age' = IF tima = TimaMod - 1 /\ tima' = 0 THEN 1 ELSE 0
    BY <1>8, <2>1 DEF RecordWrap
  <2>3. CASE ~ TimerTick(sys_counter, write)
    <3>1. tima' = tima /\ overflow_delay' = 0 /\ timer_irq' = FALSE
      BY <1>2, <1>8, <2>3 DEF NextTima, SetTima
    <3>2. wrap_age' = 0
      BY <1>3, <2>2, <3>1, TimerRange
    <3> QED BY <1>0, <1>3, <3>1, <3>2 DEF DelayFitsAge, ReloadOnTime, Count
  <2>4. CASE TimerTick(sys_counter, write) /\ AtMax
    <3>1. tima' = 0 /\ overflow_delay' = 4 /\ timer_irq' = FALSE
      BY <1>2, <1>8, <2>4 DEF NextTima, SetTima, DelayFromWrap, OverflowDelay
    <3>2. wrap_age' = 1
      BY <2>2, <2>4, <3>1 DEF AtMax
    <3> QED BY <1>0, <3>1, <3>2, TimerRange DEF DelayFitsAge, ReloadOnTime, Count
  <2>5. CASE TimerTick(sys_counter, write) /\ ~ AtMax
    <3>1. tima' = tima + 1 /\ overflow_delay' = 0 /\ timer_irq' = FALSE
      BY <1>2, <1>8, <2>5 DEF NextTima, SetTima
    <3>2. wrap_age' = 0 /\ tima' \in Count
      BY <1>3, <2>2, <2>5, <3>1, TimerRange DEF AtMax, Count
    <3> QED BY <1>0, <3>1, <3>2 DEF DelayFitsAge, ReloadOnTime
  <2> QED BY <2>3, <2>4, <2>5
<1> QED BY <1>3, <1>5, <1>6, <1>7, <1>8

(* The serial port and its history.                                          *)
LEMMA SerialStep ==
    ASSUME DevicesInv, NEW write, FitsRegister(write), write.reg # "-" => m_ce,
           SerialClock(m_ce, write), RecordShift(write)
    PROVE  /\ SerialTypeOK' /\ shift_age' \in 0 .. 8 /\ CyclesFitAge'
           /\ serial_irq' <=> m_ce /\ shift_age = 8 /\ shift_age' # 1
<1> DEFINE Goal == /\ cycles_left' \in 0 .. 8 /\ shift_age' \in 0 .. 8 /\ CyclesFitAge'
                   /\ serial_irq' <=> m_ce /\ shift_age = 8 /\ shift_age' # 1
<1>1. /\ cycles_left \in 0 .. 8 /\ shift_age \in 0 .. 8 /\ sc \subseteq {0, 7}
      /\ TransferActive <=> shift_age # 0
      /\ shift_age # 0 => cycles_left = 9 - shift_age
  BY DEF DevicesInv, PeripheralsTypeOK, SerialTypeOK, CyclesFitAge
<1>2. sb' \in {"Sent", "Received"} /\ sc' \subseteq {0, 7} /\ serial_irq' \in BOOLEAN
  BY DEF DevicesInv, PeripheralsTypeOK, SerialTypeOK, FitsRegister, SerialClock, Finishes,
         Progresses
<1> SUFFICES Goal
  BY <1>2 DEF SerialTypeOK
<1> USE DEF m_ce
<1>3. Finishes(m_ce, write) <=> m_ce /\ shift_age = 8 /\ ~ Starts(write)
  BY <1>1 DEF Finishes, Progresses
<1>4. CASE Starts(write)
  <2>1. sc' = {0, 7} /\ write.data = {0, 7} /\ write.reg = "SC"
    BY <1>4 DEF Starts, InternalClock, SerialClock, FitsRegister
  <2>2. cycles_left' = 8 /\ shift_age' = 1 /\ ~ serial_irq'
    BY <1>3, <1>4, <2>1 DEF SerialClock, RecordShift
  <2>3. TransferActive'
    BY <2>1 DEF TransferActive, InternalClock
  <2> QED BY <2>2, <2>3 DEF CyclesFitAge
<1>5. CASE write.reg = "SC" /\ ~ Starts(write)
  <2>1. write.data # {0, 7} /\ sc' = write.data /\ ~ TransferActive'
    BY <1>5 DEF Starts, InternalClock, SerialClock, TransferActive
  <2>2. shift_age' = 0 /\ (serial_irq' <=> m_ce /\ shift_age = 8)
    BY <1>3, <1>5, <2>1 DEF SerialClock, RecordShift
  <2>3. cycles_left' \in 0 .. 8
    BY <1>1, <1>5 DEF SerialClock, Progresses
  <2> QED BY <2>1, <2>2, <2>3 DEF CyclesFitAge
<1>6. CASE write.reg # "SC" /\ (~ m_ce \/ shift_age = 0)
  <2>1. ~ Starts(write) /\ ~ Progresses(m_ce, write)
    BY <1>1, <1>6 DEF Starts, Progresses
  <2>2. sc' = sc /\ cycles_left' = cycles_left /\ shift_age' = shift_age /\ ~ serial_irq'
    BY <1>6, <2>1 DEF SerialClock, Finishes, RecordShift
  <2> QED BY <1>1, <1>6, <2>2 DEF CyclesFitAge, TransferActive, InternalClock
<1>7. CASE write.reg # "SC" /\ m_ce /\ shift_age \in 1 .. 7
  <2>1. ~ Starts(write) /\ Progresses(m_ce, write) /\ ~ Finishes(m_ce, write)
    BY <1>1, <1>3, <1>7 DEF Starts, Progresses
  <2>2. sc' = sc /\ cycles_left' = cycles_left - 1 /\ ~ serial_irq'
    BY <1>7, <2>1 DEF SerialClock
  <2>3. shift_age' = shift_age + 1
    BY <1>7 DEF RecordShift
  <2> QED BY <1>1, <1>7, <2>2, <2>3 DEF CyclesFitAge, TransferActive, InternalClock
<1>8. CASE write.reg # "SC" /\ m_ce /\ shift_age = 8
  <2>1. ~ Starts(write) /\ Progresses(m_ce, write) /\ Finishes(m_ce, write)
    BY <1>1, <1>3, <1>8 DEF Starts, Progresses
  <2>2. sc' = sc \ {7} /\ cycles_left' = cycles_left - 1 /\ serial_irq'
    BY <1>8, <2>1 DEF SerialClock
  <2>3. shift_age' = 0 /\ ~ TransferActive'
    BY <1>8, <2>2 DEF RecordShift, TransferActive, InternalClock
  <2> QED BY <1>1, <1>8, <2>2, <2>3 DEF CyclesFitAge
<1> QED
  <2>1. shift_age = 0 \/ shift_age \in 1 .. 7 \/ shift_age = 8
    BY <1>1
  <2>2. Starts(write) => write.reg = "SC"
    BY DEF Starts
  <2> QED BY <1>4, <1>5, <1>6, <1>7, <1>8, <2>1, <2>2

(* The joypad port.                                                          *)
LEMMA JoypadStep ==
    ASSUME DevicesInv, NEW write, FitsRegister(write), JoypadClock(write, keys)
    PROVE  JoypadTypeOK'
<1>1. PressedLines(NextSelect(write), keys) \subseteq 0 .. 3
  BY KeysAssumption DEF DevicesInv, PeripheralsTypeOK, PressedLines
<1> QED
  BY <1>1 DEF DevicesInv, PeripheralsTypeOK, JoypadTypeOK, JoypadClock, FitsRegister, NextSelect

(* Every clock and a reset keep the invariant.                               *)
LEMMA DevicesInvStep == DevicesInv /\ [PeriphNext]_periphVars => DevicesInv'
<1> SUFFICES ASSUME DevicesInv, [PeriphNext]_periphVars
             PROVE  DevicesInv'
  OBVIOUS
<1>1. ASSUME NEW write \in PossibleWrites, Clock(write)
      PROVE  DevicesInv'
  <2>1. FitsRegister(write)
    BY <1>1, WritesFit
  <2>2. TimerTypeOK' /\ wrap_age' \in 0 .. 5 /\ DelayFitsAge' /\ ReloadOnTime'
    BY <1>1, <2>1, TimerStep DEF Clock
  <2>3. SerialTypeOK' /\ shift_age' \in 0 .. 8 /\ CyclesFitAge'
    BY <1>1, <2>1, WritesFit, SerialStep DEF Clock
  <2>4. JoypadTypeOK'
    BY <1>1, <2>1, JoypadStep DEF Clock
  <2>5. sys_counter' \in 0 .. CounterMod - 1
    BY <1>1, CounterAssumption DEF Clock, DevicesInv, PeripheralsTypeOK
  <2>6. /\ keys' \subseteq Keys /\ last_write' \in {"-"} \cup DOMAIN Address
        /\ paired' \in BOOLEAN
    BY <1>1, <2>1 DEF Clock, DevicesInv, PeripheralsTypeOK, FitsRegister
  <2> QED BY <2>2, <2>3, <2>4, <2>5, <2>6 DEF DevicesInv, PeripheralsTypeOK
<1>2. CASE PeriphReset
  <2>1. TimerTypeOK'
    BY <1>2, TimerRange, ZeroFits DEF PeriphReset, TimerReset, TimerTypeOK
  <2>2. SerialTypeOK' /\ JoypadTypeOK'
    BY <1>2, ZeroFits DEF PeriphReset, SerialReset, JoypadReset, SerialTypeOK, JoypadTypeOK
  <2>4. PeripheralsTypeOK'
    BY <1>2, <2>1, <2>2, ZeroFits DEF PeriphReset, PeripheralsTypeOK
  <2>5. ~ TransferActive'
    BY <1>2 DEF PeriphReset, SerialReset, TransferActive, InternalClock
  <2>6. DelayFitsAge' /\ ReloadOnTime' /\ CyclesFitAge'
    BY <1>2, <2>5 DEF PeriphReset, TimerReset, DelayFitsAge, ReloadOnTime, CyclesFitAge
  <2> QED BY <2>4, <2>6 DEF DevicesInv
<1>3. CASE UNCHANGED periphVars
  BY <1>3
     DEF periphVars, DevicesInv, PeripheralsTypeOK, TimerTypeOK, SerialTypeOK, JoypadTypeOK,
         DelayFitsAge, ReloadOnTime, CyclesFitAge, TransferActive
<1> QED BY <1>1, <1>2, <1>3 DEF PeriphNext

(* Timer, serial port, joypad and their histories keep to their types.       *)
THEOREM PeripheralsTypeCorrect == PeriphSpec => []PeripheralsTypeOK
<1>1. DevicesInv => PeripheralsTypeOK
  BY DEF DevicesInv
<1> QED BY <1>1, DevicesInvInit, DevicesInvStep, PTL DEF PeriphSpec

(* The reload and the request come in the fifth clock after a wrap and in no *)
(* other, with the TMA of that clock, for every range of TIMA and every set  *)
(* of clock selects (timer, overflow_delay_reg).                             *)
THEOREM ReloadTheorem == PeriphSpec => []ReloadOnTime
<1>1. DevicesInv => ReloadOnTime
  BY DEF DevicesInv
<1> QED BY <1>1, DevicesInvInit, DevicesInvStep, PTL DEF PeriphSpec

(* A transfer ends with the eighth M-cycle after its last start, whatever is *)
(* written to the other registers (serial, start against progress).          *)
THEOREM TransferTheorem == PeriphSpec => TransferOnTime
<1> DEFINE OnTime == \/ PeriphReset
                     \/ serial_irq' <=> m_ce /\ shift_age = 8 /\ shift_age' # 1
<1>1. DevicesInv /\ [PeriphNext]_periphVars => [OnTime]_periphVars
  BY WritesFit, SerialStep DEF PeriphNext, Clock
<1>2. DevicesInv => (TransferActive <=> shift_age # 0)
  BY DEF DevicesInv, CyclesFitAge
<1> QED BY <1>1, <1>2, DevicesInvInit, DevicesInvStep, PTL DEF PeriphSpec, TransferOnTime
-----------------------------------------------------------------------------
(* Remainders.                                                               *)

(* Every division has a quotient and a remainder.                            *)
LEMMA DivisionExists ==
    ASSUME NEW x \in Nat, NEW p \in Nat, p >= 1
    PROVE  \E d \in Nat, r \in 0 .. p - 1 : x % p = r /\ x = p * d + r
<1>1. x \div p \in Nat /\ x % p \in 0 .. p - 1 /\ x = p * (x \div p) + (x % p)
  OBVIOUS
<1> QED BY <1>1

(* Which are determined.                                                     *)
LEMMA DivisionUnique ==
    ASSUME NEW p \in Nat, p >= 1, NEW d \in Nat, NEW r \in 0 .. p - 1,
           NEW e \in Nat, NEW s \in 0 .. p - 1, p * d + r = p * e + s
    PROVE  r = s
<1>1. p * (d - e) = s - r  OBVIOUS
<1>2. d - e \in Int /\ s - r < p /\ s - r > - p OBVIOUS
<1>3. CASE d - e >= 1
  <2>1. p * (d - e) >= p  BY <1>2, <1>3
  <2> QED BY <2>1, <1>1, <1>2
<1>4. CASE d - e <= -1
  <2>1. p * (d - e) <= -p  BY <1>2, <1>4
  <2> QED BY <2>1, <1>1, <1>2
<1> QED BY <1>1, <1>2, <1>3, <1>4

(* A remainder is what is left of a number.                                  *)
LEMMA RemainderIs ==
    ASSUME NEW p \in Nat, p >= 1, NEW d \in Nat, NEW r \in 0 .. p - 1,
           NEW x \in Nat, x = p * d + r
    PROVE  x % p = r
<1>1. PICK e \in Nat, s \in 0 .. p - 1 : x % p = s /\ x = p * e + s
  BY DivisionExists
<1>2. p * d + r = p * e + s  BY <1>1
<1>3. r = s  BY <1>2, DivisionUnique
<1> QED BY <1>1, <1>3

(* Counting counts the remainder, and returns it to zero.                    *)
LEMMA NextRemainder ==
    ASSUME NEW x \in Nat, NEW p \in Nat, p >= 1
    PROVE  (x + 1) % p = IF x % p = p - 1 THEN 0 ELSE (x % p) + 1
<1>1. PICK d \in Nat, r \in 0 .. p - 1 : x % p = r /\ x = p * d + r
  BY DivisionExists
<1>2. PICK y \in Nat, e \in Nat : y = x + 1 /\ e = d + 1
  OBVIOUS
<1>3. CASE r = p - 1
  <2>1. y = p * e + 0 /\ 0 \in 0 .. p - 1  BY <1>1, <1>2, <1>3
  <2>2. y % p = 0  BY <2>1, RemainderIs
  <2> QED BY <2>2, <1>1, <1>2, <1>3
<1>4. CASE r # p - 1
  <2>1. PICK s \in 0 .. p - 1 : s = r + 1  BY <1>4
  <2>2. y = p * d + s  BY <1>1, <1>2, <2>1
  <2>3. y % p = s  BY <2>2, RemainderIs
  <2> QED BY <2>1, <2>3, <1>1, <1>2, <1>4
<1> QED BY <1>3, <1>4

(* A counter kept modulo a multiple of u keeps its remainder by u.           *)
LEMMA RemainderOfDivisor ==
    ASSUME NEW x \in Nat, NEW p \in Nat, NEW u \in Nat, p >= 1, u >= 1, p % u = 0
    PROVE  (x % p) % u = x % u
<1>1. PICK b \in Nat, y \in 0 .. p - 1 : x % p = y /\ x = p * b + y
  BY DivisionExists
<1>2. PICK a \in Nat, z \in 0 .. u - 1 : p % u = z /\ p = u * a + z
  BY DivisionExists
<1>3. PICK c \in Nat, r \in 0 .. u - 1 : y % u = r /\ y = u * c + r
  <2>1. y \in Nat  OBVIOUS
  <2> QED BY <2>1, DivisionExists
<1>4. p = u * a  BY <1>2
<1>5. x = (u * a) * b + (u * c + r)  BY <1>1, <1>4, <1>3
<1>6. (u * a) * b + (u * c + r) = u * (a * b + c) + r  OBVIOUS
<1>7. a * b + c \in Nat  OBVIOUS
<1>8. x % u = r  BY <1>5, <1>6, <1>7, RemainderIs
<1> QED BY <1>1, <1>3, <1>8

-----------------------------------------------------------------------------
(* The ticks of the timer.                                                   *)

(* The invariant: the sampled bit is that of the clock before, unless DIV    *)
(* was written then; and a reload in progress began with the bit falling at  *)
(* a multiple of its period, or with a store to DIV or TAC in the last clock *)
(* of an M-cycle.                                                            *)
Previous == IF sys_counter = 0 THEN CounterMod - 1 ELSE sys_counter - 1
SampleFollowsCounter == sampled_bit => TimerBit(Previous, tac.select)

FellByItself ==
    /\ sys_counter % 16 = wrap_age
    /\ wrap_age <= 3 => sys_counter % Period[tac.select] = wrap_age
FellByStore ==
    /\ sys_counter % 4 = wrap_age - 1 /\ last_write \in {"DIV", "TAC"}
    /\ wrap_age = 1 => sampled_bit = FALSE
WrapFitsCounter == wrap_age \in 1 .. 4 => FellByItself \/ FellByStore

TickInv == DevicesInv /\ SampleFollowsCounter /\ WrapFitsCounter

(* What the steps below need of the counter and the periods.                 *)
LEMMA CounterFacts ==
    ASSUME TickInv
    PROVE  /\ CounterMod \in Nat /\ CounterMod >= 1 /\ sys_counter \in 0 .. CounterMod - 1
           /\ tac \in Tac /\ tac.select \in Select /\ wrap_age \in 0 .. 5
           /\ \A s \in Select : /\ Period[s] \in Nat /\ Period[s] >= 16
                                /\ Period[s] % 16 = 0 /\ CounterMod % Period[s] = 0
           /\ CounterMod % 16 = 0 /\ CounterMod % 4 = 0
<1>1. CounterMod \in Nat /\ CounterMod >= 1 /\ CounterMod % 16 = 0  BY CounterAssumption
<1>2. CounterMod % 4 = 0  BY <1>1
<1> QED
  BY <1>1, <1>2, CounterAssumption, TimerAssumption
  DEF TickInv, DevicesInv, PeripheralsTypeOK, TimerTypeOK, Tac, Select

(* The counter counts, also as its parts do.                                 *)
LEMMA CounterStep ==
    ASSUME TickInv, sys_counter' = (sys_counter + 1) % CounterMod
    PROVE  /\ Previous' = sys_counter
           /\ sys_counter' % 16 = (sys_counter + 1) % 16
           /\ sys_counter' % 4 = (sys_counter + 1) % 4
           /\ \A s \in Select : sys_counter' % Period[s] = (sys_counter + 1) % Period[s]
<1>1. PICK m \in Nat, c \in Nat, e \in Nat :
         m = CounterMod /\ c = sys_counter /\ e = c + 1 /\ m >= 1 /\ c < m
  BY CounterFacts
<1>2. sys_counter' = e % m  BY <1>1
<1>3. (e % m) % 16 = e % 16 /\ (e % m) % 4 = e % 4
  <2>1. PICK u \in Nat, v \in Nat : u = 16 /\ v = 4 /\ u >= 1 /\ v >= 1
    OBVIOUS
  <2>2. m % u = 0 /\ m % v = 0  BY <1>1, <2>1, CounterFacts
  <2>3. (e % m) % u = e % u /\ (e % m) % v = e % v
    BY <1>1, <2>1, <2>2, RemainderOfDivisor
  <2> QED BY <2>1, <2>3
<1>4. ASSUME NEW s \in Select PROVE (e % m) % Period[s] = e % Period[s]
  <2>1. PICK p \in Nat : p = Period[s] /\ p >= 1 /\ m % p = 0
    BY <1>1, CounterFacts
  <2>2. m >= 1  BY <1>1
  <2>3. (e % m) % p = e % p  BY <2>1, <2>2, RemainderOfDivisor
  <2> QED BY <2>1, <2>3
<1>5. sys_counter' = IF c = m - 1 THEN 0 ELSE c + 1
  <2>1. c % m = c  BY <1>1
  <2>2. (c + 1) % m = IF c % m = m - 1 THEN 0 ELSE (c % m) + 1  BY <1>1, NextRemainder
  <2> QED BY <1>1, <1>2, <2>1, <2>2
<1>6. Previous' = sys_counter  BY <1>1, <1>5 DEF Previous
<1> QED BY <1>1, <1>2, <1>3, <1>4, <1>6

(* The bit falls at the multiples of its period, so at multiples of 16.      *)
LEMMA FallsAtMultiple ==
    ASSUME TickInv, NEW s \in Select, TimerBit(Previous, s), ~ TimerBit(sys_counter, s)
    PROVE  sys_counter % Period[s] = 0 /\ sys_counter % 16 = 0
<1>1. PICK p \in Nat, c \in Nat : p = Period[s] /\ c = sys_counter /\ p >= 16 /\ p >= 1 /\ p % 16 = 0
  BY CounterFacts
<1>2. c % p = 0
  <2>1. CASE c = 0  BY <1>1, <2>1
  <2>2. CASE c # 0
    <3>1. PICK b \in Nat : b = c - 1  BY <2>2
    <3>2. b % p >= p \div 2 /\ c % p < p \div 2 /\ b % p \in 0 .. p - 1
      BY <1>1, <2>2, <3>1 DEF TimerBit, Previous
    <3>3. (b + 1) % p = IF b % p = p - 1 THEN 0 ELSE (b % p) + 1  BY <1>1, NextRemainder
    <3> QED BY <1>1, <3>1, <3>2, <3>3
  <2> QED BY <2>1, <2>2
<1>3. (c % p) % 16 = c % 16
  <2>1. PICK u \in Nat : u = 16 /\ u >= 1  OBVIOUS
  <2> QED BY <1>1, <2>1, RemainderOfDivisor
<1> QED BY <1>1, <1>2, <1>3

(* Without a store to DIV or TAC a tick is the bit falling by itself.        *)
LEMMA TickWithoutStore ==
    ASSUME TickInv, NEW write, write.reg \notin {"DIV", "TAC"},
           TimerTick(sys_counter, write)
    PROVE  /\ sys_counter % Period[tac.select] = 0 /\ sys_counter % 16 = 0
           /\ NextTac(write) = tac
<1>1. NextTac(write) = tac /\ EffectiveCounter(sys_counter, write) = sys_counter
  BY DEF NextTac, EffectiveCounter
<1>2. TimerBit(Previous, tac.select) /\ ~ TimerBit(sys_counter, tac.select)
  BY <1>1 DEF TimerTick, NextSampledBit, TickInv, SampleFollowsCounter
<1> QED BY <1>1, <1>2, FallsAtMultiple, CounterFacts

(* No tick comes while a reload is in progress.                              *)
LEMMA NoTickWhilePending == TickInv => NoTickSwallowed
<1> SUFFICES ASSUME TickInv, NEW write \in PossibleWrites, overflow_delay > 0,
                    write.reg # "TIMA", TimerTick(sys_counter, write)
             PROVE  FALSE
  BY DEF NoTickSwallowed
<1>1. wrap_age \in 1 .. 4
  BY CounterFacts DEF TickInv, DevicesInv, DelayFitsAge
<1>2. write.reg # "-" => m_ce /\ sys_counter % 4 = 3
  BY WritesFit DEF m_ce
<1>3. sampled_bit
  BY DEF TimerTick
<1>4. PICK c \in Nat, a \in 1 .. 4 : c = sys_counter /\ a = wrap_age
  BY <1>1, CounterFacts
<1>5. write.reg \notin {"DIV", "TAC"} => c % 16 = 0
  BY <1>4, TickWithoutStore
<1>6. CASE FellByItself
  <2>1. c % 16 = a  BY <1>4, <1>6 DEF FellByItself
  <2>2. c % 4 = 3 /\ a = 3  BY <1>2, <1>4, <1>5, <2>1
  <2>3. PICK p \in Nat : p = Period[tac.select] /\ p >= 16 /\ p >= 1
    BY CounterFacts
  <2>4. c % p = 3  BY <1>4, <1>6, <2>2, <2>3 DEF FellByItself
  <2>5. TimerBit(Previous, tac.select)
    BY <1>3 DEF TickInv, SampleFollowsCounter
  <2>6. PICK b \in Nat : c = b + 1 /\ b = Previous
    <3>1. c # 0  BY <2>1, <2>2
    <3> QED BY <3>1, <1>4 DEF Previous
  <2>7. (b + 1) % p = IF b % p = p - 1 THEN 0 ELSE (b % p) + 1  BY <2>3, NextRemainder
  <2>8. b % p = 2 /\ p \div 2 >= 8  BY <2>3, <2>4, <2>6, <2>7
  <2> QED BY <2>3, <2>5, <2>6, <2>8 DEF TimerBit
<1>7. CASE FellByStore
  <2>1. c % 4 = a - 1 /\ a # 1 /\ last_write \in {"DIV", "TAC"}
    BY <1>3, <1>4, <1>7 DEF FellByStore
  <2>2. write.reg \in {"DIV", "TAC"}  BY <1>5, <2>1
  <2>3. Neighbour(write.reg, last_write)
    BY <2>1, <2>2 DEF PossibleWrites, NoWrite
  <2> QED BY <2>1, <2>2, <2>3 DEF Neighbour, Address
<1> QED BY <1>1, <1>6, <1>7 DEF TickInv, WrapFitsCounter

(* The sampled bit follows the counter.                                      *)
LEMMA SampleStep ==
    ASSUME TickInv, NEW write, Clock(write)
    PROVE  SampleFollowsCounter'
<1>1. sampled_bit' = NextSampledBit(sys_counter, write) /\ tac' = NextTac(write)
  BY DEF Clock, TimerClock
<1>2. Previous' = sys_counter  BY CounterStep DEF Clock
<1>3. CASE write.reg = "DIV"
  <2>1. NextTac(write) = tac /\ EffectiveCounter(sys_counter, write) = 0
    BY <1>3 DEF NextTac, EffectiveCounter
  <2>2. PICK p \in Nat : p = Period[tac.select] /\ p >= 16  BY CounterFacts
  <2>3. 0 % p = 0 /\ p \div 2 >= 8  BY <2>2
  <2>4. ~ TimerBit(0, tac.select)  BY <2>2, <2>3 DEF TimerBit
  <2> QED BY <1>1, <2>1, <2>4 DEF SampleFollowsCounter, NextSampledBit
<1>4. CASE write.reg # "DIV"
  <2>1. EffectiveCounter(sys_counter, write) = sys_counter
    BY <1>4 DEF EffectiveCounter
  <2> QED BY <1>1, <1>2, <2>1 DEF SampleFollowsCounter, NextSampledBit, TimerBit
<1> QED BY <1>3, <1>4

(* A wrap is a tick.                                                         *)
LEMMA WrapIsTick ==
    ASSUME DevicesInv, NEW write, Clock(write), wrap_age \in {0, 5}, wrap_age' \in 1 .. 4
    PROVE  TimerTick(sys_counter, write) /\ wrap_age' = 1
<1>1. /\ write.reg # "TIMA" /\ tima = TimaMod - 1 /\ tima' = 0 /\ wrap_age' = 1
      /\ overflow_delay = 0 /\ NextTima(sys_counter, write)
  BY DEF Clock, TimerClock, RecordWrap, DevicesInv, DelayFitsAge
<1>2. ASSUME ~ TimerTick(sys_counter, write) PROVE FALSE
  <2>1. tima' = tima  BY <1>1, <1>2 DEF NextTima, SetTima
  <2> QED BY <1>1, <2>1, TimerRange
<1> QED BY <1>1, <1>2

(* How a reload in progress began stays true.                                *)
LEMMA WrapStep ==
    ASSUME TickInv, NEW write \in PossibleWrites, Clock(write)
    PROVE  WrapFitsCounter'
<1> SUFFICES ASSUME wrap_age' \in 1 .. 4 PROVE FellByItself' \/ FellByStore'
  BY DEF WrapFitsCounter
<1>1. /\ write.reg # "-" => sys_counter % 4 = 3
      /\ tac' = NextTac(write) /\ sampled_bit' = NextSampledBit(sys_counter, write)
      /\ sys_counter % 4 = 3 => last_write' = write.reg
      /\ sys_counter % 4 # 3 => last_write' = last_write
  BY WritesFit DEF Clock, TimerClock, m_ce
<1>2. /\ sys_counter' % 16 = (sys_counter + 1) % 16
      /\ sys_counter' % 4 = (sys_counter + 1) % 4
      /\ \A s \in Select : sys_counter' % Period[s] = (sys_counter + 1) % Period[s]
  BY CounterStep DEF Clock
<1>3. PICK c \in Nat, a \in 0 .. 5 : c = sys_counter /\ a = wrap_age
  BY CounterFacts
<1>4. PICK p \in Nat : p = Period[tac.select] /\ p >= 16 /\ p >= 1
  BY CounterFacts
<1>5. (c + 1) % p = IF c % p = p - 1 THEN 0 ELSE (c % p) + 1
  BY <1>4, NextRemainder
<1>6. CASE a \in {0, 5}
  <2>1. TimerTick(sys_counter, write) /\ wrap_age' = 1
    BY <1>3, <1>6, WrapIsTick DEF TickInv
  <2>2. CASE write.reg \in {"DIV", "TAC"}
    <3>1. c % 4 = 3 /\ last_write' = write.reg  BY <1>1, <1>3, <2>2
    <3>2. sys_counter' % 4 = 0  BY <1>2, <1>3, <3>1
    <3>3. sampled_bit' = FALSE
      <4>1. NextSampledBit(sys_counter, write) = FALSE
        BY <2>1 DEF TimerTick, NextSampledBit, TimerBit
      <4> QED BY <1>1, <4>1
    <3> QED BY <2>1, <2>2, <3>1, <3>2, <3>3 DEF FellByStore
  <2>3. CASE write.reg \notin {"DIV", "TAC"}
    <3>1. c % p = 0 /\ c % 16 = 0 /\ tac' = tac
      BY <1>1, <1>3, <1>4, <2>1, <2>3, TickWithoutStore
    <3>2. (c + 1) % p = 1 /\ (c + 1) % 16 = 1  BY <1>4, <1>5, <3>1
    <3>3. sys_counter' % 16 = 1 /\ sys_counter' % Period[tac'.select] = 1
      BY <1>2, <1>3, <1>4, <3>1, <3>2, CounterFacts
    <3> QED BY <2>1, <3>3 DEF FellByItself
  <2> QED BY <2>2, <2>3
<1>7. CASE a \in 1 .. 3
  <2>1. wrap_age' = a + 1
    BY <1>3, <1>7 DEF Clock, RecordWrap
  <2>2. CASE FellByItself
    <3>1. c % 16 = a /\ c % p = a  BY <1>3, <1>4, <1>7, <2>2 DEF FellByItself
    <3>2. (c + 1) % 16 = a + 1 /\ (c + 1) % p = a + 1  BY <1>4, <1>5, <1>7, <3>1
    <3>3. a # 3 => tac' = tac
      <4>1. a # 3 => c % 4 # 3  BY <1>7, <3>1
      <4> QED BY <1>1, <1>3, <4>1 DEF NextTac
    <3>4. sys_counter' % 16 = a + 1
      BY <1>2, <1>3, <3>2
    <3>5. a # 3 => sys_counter' % Period[tac'.select] = a + 1
      BY <1>2, <1>3, <1>4, <3>2, <3>3, CounterFacts
    <3> QED BY <1>7, <2>1, <3>4, <3>5 DEF FellByItself
  <2>3. CASE FellByStore
    <3>1. c % 4 = a - 1 /\ last_write \in {"DIV", "TAC"}
      BY <1>3, <1>7, <2>3 DEF FellByStore
    <3>2. sys_counter' % 4 = a /\ last_write' = last_write
      BY <1>1, <1>2, <1>3, <1>7, <3>1
    <3> QED BY <1>7, <2>1, <3>1, <3>2 DEF FellByStore
  <2> QED BY <1>3, <1>7, <2>2, <2>3 DEF TickInv, WrapFitsCounter
<1>8. CASE a = 4
  BY <1>3, <1>8 DEF Clock, RecordWrap
<1> QED BY <1>6, <1>7, <1>8

(* The reset state has no reload in progress and no sample.                  *)
LEMMA TickInvInit == PeriphInit => TickInv
  BY DevicesInvInit DEF TickInv, SampleFollowsCounter, WrapFitsCounter, PeriphInit, TimerInit

(* Every clock and a reset keep the invariant.                               *)
LEMMA TickInvStep == TickInv /\ [PeriphNext]_periphVars => TickInv'
<1> SUFFICES ASSUME TickInv, [PeriphNext]_periphVars
             PROVE  SampleFollowsCounter' /\ WrapFitsCounter'
  BY DevicesInvStep DEF TickInv
<1>1. CASE \E write \in PossibleWrites : Clock(write)
  BY <1>1, SampleStep, WrapStep
<1>2. CASE PeriphReset
  BY <1>2 DEF PeriphReset, TimerReset, SampleFollowsCounter, WrapFitsCounter
<1>3. CASE UNCHANGED periphVars
  BY <1>3 DEF periphVars, TickInv, SampleFollowsCounter, Previous, TimerBit, WrapFitsCounter,
              FellByItself, FellByStore
<1> QED BY <1>1, <1>2, <1>3 DEF PeriphNext

(* No tick is lost to a reload, whichever registers the program writes, for  *)
(* every set of clock selects (timer, the branches of next_tima_reg).        *)
THEOREM TicksKept == PeriphSpec => []NoTickSwallowed
<1> QED BY TickInvInit, TickInvStep, NoTickWhilePending, PTL DEF PeriphSpec
-----------------------------------------------------------------------------
(* The UART: the receiver paces its reports.                                 *)

(* Clocks since the start bit was seen, as the registers of the receiver     *)
(* tell.                                                                     *)
Elapsed ==
    IF validating_start THEN HalfTicks - 1 - ticks_until_sample
    ELSE HalfTicks + bit_index * BitTicks + (BitTicks - 1 - ticks_until_sample)

(* The counter never holds more than what it was loaded with.                *)
TicksInBit ==
    /\ validating_start => ticks_until_sample < HalfTicks
    /\ ~ validating_start => ticks_until_sample < BitTicks

(* The last report is older than the byte being received.                    *)
Paced == TicksInBit /\ (rx_busy => since > Elapsed)

(* A transmitter that sends has bits left.                                   *)
SendingHasBits == tx_busy => bits_left >= 1

LinkInv == LinkTypeOK /\ SendingHasBits /\ Paced
-----------------------------------------------------------------------------
(* Bit times add up (nonlinear arithmetic apart from the rest).              *)
LEMMA BitTimes ==
    ASSUME NEW i \in Nat, NEW t \in Nat
    PROVE  /\ i * t \in Nat
           /\ (i + 1) * t = i * t + t
  OBVIOUS

(* Fewer bits take no longer.                                                *)
LEMMA ProductMonotone ==
    ASSUME NEW i \in Nat, NEW j \in Nat, NEW t \in Nat, i <= j
    PROVE  i * t <= j * t
<1>1. j = i + (j - i) /\ j - i \in Nat
  OBVIOUS
<1>2. (i + (j - i)) * t = i * t + (j - i) * t
  OBVIOUS
<1> QED
  BY <1>1, <1>2, BitTimes

(* Two reports are at least one clock apart (uart_rx).                       *)
LEMMA SpacingNat == Spacing \in Nat /\ Spacing >= 1
<1>1. RxBits + 1 \in Nat /\ BitTicks \in Nat /\ HalfTicks \in Nat /\ HalfTicks >= 1
  BY TicksAssumption
<1>2. (RxBits + 1) * BitTicks \in Nat
  BY <1>1, BitTimes
<1> QED
  BY <1>1, <1>2 DEF Spacing

(* No history and no byte at the beginning (the reset values of uart_rx and  *)
(* uart_tx).                                                                 *)
LEMMA LinkInvInit == LinkInit => LinkInv
<1> SUFFICES ASSUME LinkInit PROVE LinkInv
  OBVIOUS
<1> USE DEF LinkInit, UartTxInit, UartRxInit
<1>2. Spacing \in Nat /\ Settled \in Nat
  BY SpacingNat, TicksAssumption DEF Settled
<1>3. UartTxTypeOK
  <2>1. tx_data \in Byte /\ bits_left \in 0 .. FrameBits /\ ticks_until_shift \in Nat
    BY DataBitsAssumption DEF Byte, FrameBits
  <2>2. tx_busy \in BOOLEAN
    BY Zenon
  <2> QED
    BY <2>1, <2>2 DEF UartTxTypeOK
<1>4. UartRxTypeOK
  <2>1. /\ shift \subseteq 0 .. RxBits - 1 /\ bit_index \in 0 .. RxBits
        /\ ticks_until_sample \in 0 .. 255
    BY TicksAssumption
  <2>2. /\ sync_stage0 \in BOOLEAN /\ sync_stage1 \in BOOLEAN /\ prev_sync_rx \in BOOLEAN
        /\ rx_busy \in BOOLEAN /\ validating_start \in BOOLEAN
        /\ rx_byte_valid \in BOOLEAN /\ rx_framing_error \in BOOLEAN
    BY Zenon
  <2> QED
    BY <2>1, <2>2 DEF UartRxTypeOK
<1>5. LinkTypeOK
  BY <1>2, <1>3, <1>4, LinkAssumption DEF LinkTypeOK, Nothing, Byte
<1>6. SendingHasBits /\ Paced
  BY TicksAssumption DEF SendingHasBits, Paced, TicksInBit
<1> QED
  BY <1>5, <1>6 DEF LinkInv

(* uart_tx keeps its types and its bits left: it starts, shifts, stops or    *)
(* counts.                                                                   *)
LEMMA TxStep ==
    ASSUME UartTxTypeOK, SendingHasBits, NEW start \in BOOLEAN, NEW data \in Byte,
           NEW ticks \in Nat \ {0}, UartTxClock(start, data, ticks)
    PROVE  UartTxTypeOK' /\ SendingHasBits'
<1>1. tx_busy' \in BOOLEAN
  BY Zenon DEF UartTxClock
<1>2. tx_data' \in Byte
  BY DEF UartTxTypeOK, UartTxClock
<1>3. FrameBits \in Nat /\ FrameBits >= 1
  BY DataBitsAssumption DEF FrameBits
<1>4. CASE StartTx(start)
  <2>1. bits_left' = FrameBits /\ ticks_until_shift' = ticks - 1
    BY <1>4 DEF UartTxClock
  <2> QED
    BY <1>1, <1>2, <1>3, <2>1 DEF UartTxTypeOK, SendingHasBits, Byte
<1>5. CASE ~ StartTx(start) /\ ShiftNow
  <2>1. bits_left >= 1 /\ bits_left \in Nat /\ bits_left <= FrameBits
    BY <1>3, <1>5 DEF UartTxTypeOK, SendingHasBits, ShiftNow
  <2>2. bits_left' = bits_left - 1
    BY <1>5 DEF UartTxClock
  <2>3. tx_busy' => bits_left # 1
    BY <1>5, Zenon DEF UartTxClock
  <2>4. ticks_until_shift' \in Nat
    <3>1. CASE bits_left > 1
      BY <1>5, <3>1 DEF UartTxClock
    <3>2. CASE ~ (bits_left > 1)
      BY <1>5, <3>2, Zenon DEF UartTxClock
    <3> QED
      BY <3>1, <3>2
  <2> QED
    BY <1>1, <1>2, <1>3, <2>1, <2>2, <2>3, <2>4 DEF UartTxTypeOK, SendingHasBits, Byte
<1>6. CASE ~ StartTx(start) /\ ~ ShiftNow
  <2>1. bits_left' = bits_left
    BY <1>6 DEF UartTxClock
  <2>2. tx_busy' = tx_busy
    BY <1>6, Zenon DEF UartTxClock, UartTxTypeOK
  <2>3. ticks_until_shift' \in Nat
    <3>1. CASE tx_busy
      <4>1. ticks_until_shift \in Nat /\ ticks_until_shift # 0
        BY <1>6, <3>1 DEF ShiftNow, UartTxTypeOK
      <4>2. ticks_until_shift' = ticks_until_shift - 1
        BY <1>6, <3>1, Zenon DEF UartTxClock
      <4> QED
        BY <4>1, <4>2
    <3>2. CASE ~ tx_busy
      BY <1>6, <3>2, Zenon DEF UartTxClock
    <3> QED
      BY <3>1, <3>2
  <2> QED
    BY <1>1, <1>2, <2>1, <2>2, <2>3 DEF UartTxTypeOK, SendingHasBits
<1> QED
  BY <1>4, <1>5, <1>6

(* uart_rx keeps its types; the line only shifts into the synchroniser.      *)
LEMMA RxTypes ==
    ASSUME UartRxTypeOK, Paced, NEW line \in BOOLEAN, UartRxClock(line)
    PROVE  UartRxTypeOK'
<1>1. sync_stage0' \in BOOLEAN /\ sync_stage1' \in BOOLEAN /\ prev_sync_rx' \in BOOLEAN
  BY DEF UartRxClock, UartRxTypeOK
<1>2. /\ rx_busy' \in BOOLEAN /\ validating_start' \in BOOLEAN
      /\ rx_byte_valid' \in BOOLEAN /\ rx_framing_error' \in BOOLEAN
  BY Zenon
  DEF UartRxClock, UartRxTypeOK, Receive, NoPulse, Idle, Begin, CountTicks, ValidateStart,
      StillLow, SampleBit, SampleStop
<1>3. shift' \subseteq 0 .. RxBits - 1 /\ bit_index' \in 0 .. RxBits /\ ticks_until_sample' \in 0 .. 255
  <2> USE TicksAssumption DEF UartRxTypeOK, Receive
  <2>1. CASE Idle
    BY <2>1 DEF Idle
  <2>2. CASE Begin
    BY <2>2 DEF Begin, FirstSample
  <2>3. CASE CountTicks
    BY <2>3 DEF CountTicks
  <2>4. CASE ValidateStart
    BY <2>4 DEF ValidateStart, StillLow
  <2>5. CASE SampleBit
    BY <2>5 DEF SampleBit, MoreBits
  <2>6. CASE SampleStop
    BY <2>6 DEF SampleStop
  <2> QED
    BY <2>1, <2>2, <2>3, <2>4, <2>5, <2>6 DEF UartRxClock
<1> QED
  BY <1>1, <1>2, <1>3 DEF UartRxTypeOK

(* No byte takes longer than Spacing: the sample of the stop bit is the last *)
(* one.                                                                      *)
LEMMA ElapsedBound == UartRxTypeOK /\ TicksInBit => Elapsed \in Nat /\ Elapsed < Spacing
<1> SUFFICES ASSUME UartRxTypeOK, TicksInBit PROVE Elapsed \in Nat /\ Elapsed < Spacing
  OBVIOUS
<1>1. BitTicks \in Nat /\ HalfTicks \in Nat /\ BitTicks >= 1 /\ HalfTicks >= 1 /\ RxBits \in Nat
  BY TicksAssumption
<1>2. bit_index \in Nat /\ bit_index <= RxBits /\ ticks_until_sample \in Nat
  BY <1>1 DEF UartRxTypeOK
<1>3. /\ bit_index * BitTicks \in Nat /\ RxBits * BitTicks \in Nat
      /\ (RxBits + 1) * BitTicks = RxBits * BitTicks + BitTicks
      /\ bit_index * BitTicks <= RxBits * BitTicks
  BY <1>1, <1>2, BitTimes, ProductMonotone
<1>4. CASE validating_start
  BY <1>1, <1>2, <1>3, <1>4 DEF Elapsed, Spacing, TicksInBit
<1>5. CASE ~ validating_start
  BY <1>1, <1>2, <1>3, <1>5 DEF Elapsed, Spacing, TicksInBit
<1> QED
  BY <1>4, <1>5

(* The counter is loaded with a bit time or half of one and counts down.     *)
LEMMA TicksStep ==
    ASSUME UartRxTypeOK, TicksInBit, NEW line \in BOOLEAN, UartRxClock(line)
    PROVE  TicksInBit'
<1> USE TicksAssumption DEF UartRxTypeOK, TicksInBit, Receive
<1>1. CASE Idle
  BY <1>1 DEF Idle
<1>2. CASE Begin
  BY <1>2 DEF Begin, FirstSample
<1>3. CASE CountTicks
  BY <1>3 DEF CountTicks
<1>4. CASE ValidateStart
  BY <1>4 DEF ValidateStart, StillLow
<1>5. CASE SampleBit
  BY <1>5 DEF SampleBit
<1>6. CASE SampleStop
  BY <1>6 DEF SampleStop
<1> QED
  BY <1>1, <1>2, <1>3, <1>4, <1>5, <1>6 DEF UartRxClock

(* A byte in progress is one clock older, a new one has no age.              *)
LEMMA ElapsedStep ==
    ASSUME UartRxTypeOK, TicksInBit, NEW line \in BOOLEAN, UartRxClock(line), rx_busy'
    PROVE  Elapsed' = 0 \/ (rx_busy /\ Elapsed' = Elapsed + 1)
<1>1. BitTicks \in Nat /\ HalfTicks \in Nat
  BY TicksAssumption
<1>2. bit_index \in Nat /\ ticks_until_sample \in Nat
  BY TicksAssumption DEF UartRxTypeOK
<1>3. /\ bit_index * BitTicks \in Nat /\ 0 * BitTicks = 0
      /\ (bit_index + 1) * BitTicks = bit_index * BitTicks + BitTicks
  BY <1>1, <1>2, BitTimes
<1> USE DEF Receive, Elapsed
<1>4. CASE Idle
  BY <1>4, Zenon DEF Idle
<1>5. CASE Begin
  BY <1>1, <1>5 DEF Begin, FirstSample
<1>6. CASE CountTicks
  <2>1. /\ validating_start' = validating_start /\ bit_index' = bit_index
        /\ ticks_until_sample' = ticks_until_sample - 1 /\ rx_busy
    BY <1>6, Zenon DEF CountTicks
  <2>2. Elapsed' = Elapsed + 1
    <3>1. CASE validating_start
      BY <1>1, <1>2, <2>1, <3>1
    <3>2. CASE ~ validating_start
      BY <1>1, <1>2, <1>3, <2>1, <3>2
    <3> QED
      BY <3>1, <3>2
  <2> QED
    BY <2>1, <2>2
<1>7. CASE ValidateStart
  <2>1. /\ rx_busy /\ ticks_until_sample = 0 /\ validating_start /\ ~ validating_start'
        /\ bit_index' = 0 /\ StillLow
    BY <1>7, Zenon DEF ValidateStart, SampleNow
  <2>2. ticks_until_sample' = BitTicks - 1
    BY <1>7, <2>1, Zenon DEF ValidateStart
  <2>3. Elapsed = HalfTicks - 1 /\ Elapsed' = HalfTicks
    BY <1>1, <1>3, <2>1, <2>2
  <2> QED
    BY <1>1, <2>1, <2>3
<1>8. CASE SampleBit
  BY <1>1, <1>2, <1>3, <1>8 DEF SampleBit, SampleNow
<1>9. CASE SampleStop
  BY <1>9, Zenon DEF SampleStop
<1> QED
  BY <1>4, <1>5, <1>6, <1>7, <1>8, <1>9 DEF UartRxClock

(* An action other than the sample of the stop bit reports nothing.          *)
LEMMA ReportsAtStop ==
    ASSUME NEW line \in BOOLEAN, UartRxClock(line), Reported
    PROVE  SampleStop
  BY Zenon
  DEF UartRxClock, Reported, NoPulse, Idle, Begin, CountTicks, ValidateStart, SampleBit

(* The sample of the stop bit ends a byte of full length.                    *)
LEMMA StopAfterSpacing ==
    ASSUME UartRxTypeOK, Paced, since \in 0 .. Spacing, SampleStop
    PROVE  since = Spacing /\ ~ rx_busy'
<1>1. BitTicks \in Nat /\ HalfTicks \in Nat /\ RxBits \in Nat
  BY TicksAssumption
<1>2. bit_index = RxBits
  BY <1>1 DEF SampleStop, MoreBits, UartRxTypeOK
<1>3. rx_busy /\ ~ validating_start /\ ticks_until_sample = 0 /\ ~ rx_busy'
  BY Zenon DEF SampleStop, SampleNow, Receive
<1>4. RxBits * BitTicks \in Nat /\ (RxBits + 1) * BitTicks = RxBits * BitTicks + BitTicks
  BY <1>1, BitTimes
<1>5. Elapsed = Spacing - 1 /\ Spacing \in Nat
  BY <1>1, <1>2, <1>3, <1>4 DEF Elapsed, Spacing
<1>6. since > Elapsed
  BY <1>3, Zenon DEF Paced
<1> QED
  BY <1>3, <1>5, <1>6

(* The age of the last report keeps ahead of the age of the byte.            *)
LEMMA PacedStep ==
    ASSUME UartRxTypeOK, Paced, since \in 0 .. Spacing, NEW line \in BOOLEAN,
           UartRxClock(line), RecordSince
    PROVE  Paced' /\ since' \in 0 .. Spacing
<1>1. TicksInBit' /\ UartRxTypeOK'
  BY TicksStep, RxTypes DEF Paced
<1>2. Spacing' = Spacing /\ Spacing \in Nat /\ Spacing >= 1
  BY SpacingNat DEF Spacing
<1>3. CASE Reported
  <2>1. since' = 0 /\ ~ rx_busy'
    BY <1>3, ReportsAtStop, StopAfterSpacing DEF RecordSince
  <2> QED
    BY <1>1, <1>2, <2>1 DEF Paced
<1>4. CASE ~ Reported
  <2>1. since' = IF since < Spacing THEN since + 1 ELSE since
    BY <1>4 DEF RecordSince
  <2>2. since' \in 0 .. Spacing /\ since' >= 1
    BY <1>2, <2>1
  <2>3. ASSUME rx_busy' PROVE since' > Elapsed'
    <3>1. Elapsed' \in Nat /\ Elapsed' < Spacing
      <4>1. (UartRxTypeOK /\ TicksInBit => Elapsed \in Nat /\ Elapsed < Spacing)'
        BY ElapsedBound, PTL
      <4> QED
        BY <1>1, <1>2, <4>1
    <3>2. CASE Elapsed' = 0
      BY <2>2, <3>2
    <3>3. CASE rx_busy /\ Elapsed' = Elapsed + 1
      <4>1. since > Elapsed /\ Elapsed \in Nat
        BY <3>3, ElapsedBound DEF Paced
      <4> QED
        BY <1>2, <2>1, <3>1, <3>3, <4>1
    <3> QED
      BY <2>3, <3>2, <3>3, ElapsedStep DEF Paced
  <2> QED
    BY <1>1, <2>2, <2>3 DEF Paced
<1> QED
  BY <1>3, <1>4

(* What every step of the link keeps.                                        *)
LEMMA LinkInvStep == LinkInv /\ [LinkNext]_linkVars => LinkInv'
<1> SUFFICES ASSUME LinkInv, [LinkNext]_linkVars PROVE LinkInv'
  OBVIOUS
<1>1. /\ UartTxTypeOK /\ UartRxTypeOK /\ SendingHasBits /\ Paced
      /\ period \in Periods /\ calm \in 0 .. Settled /\ glitch \in 0 .. MaxGlitch
      /\ owed.data \in Byte /\ since \in 0 .. Spacing
  BY DEF LinkInv, LinkTypeOK
<1>2. Periods \subseteq Nat \ {0} /\ MaxGlitch \in Nat /\ Settled \in Nat
  BY LinkAssumption, TicksAssumption DEF Settled
<1>3. ASSUME NEW line \in BOOLEAN, UartRxClock(line), RecordSince
      PROVE  UartRxTypeOK' /\ Paced' /\ since' \in 0 .. Spacing
  BY <1>1, <1>3, RxTypes, PacedStep
<1>4. {} \in Byte /\ Nothing.data \in Byte
  BY DEF Byte, Nothing
<1>5. ASSUME NEW start \in BOOLEAN, NEW data \in Byte, RecordOwed(start, data)
      PROVE  owed'.data \in Byte
  BY <1>1, <1>4, <1>5 DEF RecordOwed
<1>6. TxLine \in BOOLEAN
  BY Zenon DEF TxLine
<1>7. CASE SendByte
  <2>1. PICK data \in Byte : UartTxClock(TRUE, data, period') /\ RecordOwed(TRUE, data)
    BY <1>7 DEF SendByte
  <2>2. period' \in Periods /\ UNCHANGED <<calm, glitch>> /\ UartRxClock(TxLine) /\ RecordSince
    BY <1>7 DEF SendByte
  <2>3. UartTxTypeOK' /\ SendingHasBits'
    BY <1>1, <1>2, <2>1, <2>2, TxStep
  <2> QED
    BY <1>1, <1>3, <1>5, <1>6, <2>1, <2>2, <2>3
    DEF LinkInv, LinkTypeOK, Settled, Spacing, Byte
<1>8. CASE ContinueByte
  <2>1. /\ UartTxClock(FALSE, {}, period) /\ RecordOwed(FALSE, {})
        /\ UartRxClock(TxLine) /\ RecordSince /\ UNCHANGED <<period, calm, glitch>>
    BY <1>8 DEF ContinueByte
  <2>2. UartTxTypeOK' /\ SendingHasBits'
    BY <1>1, <1>2, <1>4, <2>1, TxStep
  <2> QED
    BY <1>1, <1>3, <1>4, <1>5, <1>6, <2>1, <2>2
    DEF LinkInv, LinkTypeOK, Settled, Spacing, Byte
<1>9. ASSUME UNCHANGED txVars PROVE UartTxTypeOK' /\ SendingHasBits'
  BY <1>1, <1>9 DEF txVars, UartTxTypeOK, SendingHasBits
<1>10. CASE Pause
  <2>1. /\ UNCHANGED txVars /\ UNCHANGED period /\ RecordOwed(FALSE, {})
        /\ UartRxClock(TRUE) /\ RecordSince
    BY <1>10 DEF Pause
  <2>2. calm' \in 0 .. Settled /\ glitch' \in 0 .. MaxGlitch
    BY <1>1, <1>2, <1>10 DEF Pause
  <2> QED
    BY <1>1, <1>3, <1>4, <1>5, <1>9, <2>1, <2>2
    DEF LinkInv, LinkTypeOK, Settled, Spacing, Byte
<1>11. CASE Glitch
  <2>1. /\ UNCHANGED txVars /\ UNCHANGED period /\ RecordOwed(FALSE, {})
        /\ UartRxClock(FALSE) /\ RecordSince
    BY <1>11 DEF Glitch
  <2>2. calm' \in 0 .. Settled /\ glitch' \in 0 .. MaxGlitch
    BY <1>1, <1>2, <1>11 DEF Glitch
  <2> QED
    BY <1>1, <1>3, <1>4, <1>5, <1>9, <2>1, <2>2
    DEF LinkInv, LinkTypeOK, Settled, Spacing, Byte
<1>12. CASE Noise
  <2>1. PICK line \in BOOLEAN : UartRxClock(line)
    BY <1>12 DEF Noise
  <2>2. RecordSince /\ UNCHANGED <<period, calm, glitch, owed>> /\ UNCHANGED txVars
    BY <1>12 DEF Noise
  <2> QED
    BY <1>1, <1>3, <1>9, <2>1, <2>2 DEF LinkInv, LinkTypeOK, Settled, Spacing, Byte
<1>13. CASE UNCHANGED linkVars
  BY <1>1, <1>13
  DEF linkVars, txVars, rxVars, LinkInv, LinkTypeOK, UartTxTypeOK, UartRxTypeOK, Byte,
      SendingHasBits, Paced, TicksInBit, Elapsed, Settled, Spacing
<1> QED
  BY <1>7, <1>8, <1>10, <1>11, <1>12, <1>13 DEF LinkNext

(* Registers and histories of the link keep their types: the transmitter     *)
(* never shifts past its stop bit and the tick counter of the receiver, of   *)
(* eight bits, never wraps (uart_tx, uart_rx).                               *)
THEOREM LinkTypeCorrect == LinkSpec => []LinkTypeOK
<1>1. LinkInv => LinkTypeOK
  BY DEF LinkInv
<1> QED
  BY <1>1, LinkInvInit, LinkInvStep, PTL DEF LinkSpec

(* For every width and every bit time up to 256 clocks, whatever happens on  *)
(* the line, two reports are half a bit and all the bits apart (uart_rx).    *)
THEOREM ReportsArePaced == LinkSpec => ReportsSpaced
<1>1. ASSUME LinkInv, [LinkNext]_linkVars PROVE [Reported => since = Spacing]_linkVars
  <2> SUFFICES ASSUME LinkNext, Reported PROVE since = Spacing
    BY <1>1
  <2>1. \E line \in BOOLEAN : UartRxClock(line)
    BY Zenon DEF LinkNext, SendByte, ContinueByte, Pause, Glitch, Noise, TxLine
  <2> QED
    BY <1>1, <2>1, ReportsAtStop, StopAfterSpacing DEF LinkInv, LinkTypeOK
<1> QED
  BY <1>1, LinkInvInit, LinkInvStep, PTL DEF LinkSpec, ReportsSpaced
-----------------------------------------------------------------------------
(* The UART: on a clean line the receiver looks at every bit two clocks after*)
(* its middle, and what it then sees is that bit of the sender.              *)

(* The bits of the byte that are over, the clocks of the present one, and    *)
(* the clocks since the start.                                               *)
BitsSent == FrameBits - bits_left
InBit == period - 1 - ticks_until_shift
ClocksOf(n, p, r) == n * p + r
SinceStart == ClocksOf(BitsSent, period, InBit)
(* Bit n of what is sent, after the level of a pause.                        *)
BitOnLine(n) == n = -1 \/ n = FrameBits - 1 \/ (n >= 1 /\ n - 1 \in tx_data)

(* The receiver looks at bit k so many clocks after the start, and at the    *)
(* line as it was two clocks before.                                         *)
SampleTime(k) == HalfTicks + 2 + k * BitTicks

RxRests == ~ rx_busy /\ ~ validating_start /\ bit_index = 0 /\ ticks_until_sample = 0
LineIsHigh == sync_stage0 /\ sync_stage1 /\ prev_sync_rx

LineFollows ==
    /\ InBit >= 1 => (sync_stage0 <=> BitOnLine(BitsSent))
    /\ InBit < 1 => (sync_stage0 <=> BitOnLine(BitsSent - 1))
    /\ InBit >= 2 => (sync_stage1 <=> BitOnLine(BitsSent))
    /\ InBit < 2 => (sync_stage1 <=> BitOnLine(BitsSent - 1))
    /\ InBit >= 3 => (prev_sync_rx <=> BitOnLine(BitsSent))
    /\ InBit < 3 => (prev_sync_rx <=> BitOnLine(BitsSent - 1))

ReceiverFollows ==
    /\ SinceStart <= 2 => RxRests
    /\ SinceStart \in 3 .. SampleTime(0) =>
          /\ rx_busy /\ validating_start /\ bit_index = 0 /\ shift = {}
          /\ ticks_until_sample = SampleTime(0) - SinceStart
    /\ SinceStart \in SampleTime(0) + 1 .. SampleTime(DataBits + 1) =>
          /\ rx_busy /\ ~ validating_start /\ bit_index \in 0 .. DataBits
          /\ ticks_until_sample = SampleTime(bit_index + 1) - SinceStart
          /\ shift = {i \in tx_data : i < bit_index}
    /\ SinceStart > SampleTime(DataBits + 1) => RxRests

OwedUntilStop ==
    owed = IF SinceStart <= SampleTime(DataBits + 1) THEN [sent |-> TRUE, data |-> tx_data]
           ELSE Nothing

ByteOnLine ==
    tx_busy =>
        /\ calm = Settled /\ glitch = 0
        /\ bits_left \in 1 .. FrameBits /\ ticks_until_shift \in 0 .. period - 1
        /\ LineFollows /\ ReceiverFollows /\ OwedUntilStop

(* g clocks of a glitch, and calm clocks since.                              *)
GlitchOnLine(g) ==
    /\ calm = 0 => glitch = g
    /\ calm # 0 => glitch = 0
    /\ sync_stage0 <=> calm >= 1
    /\ sync_stage1 <=> (calm >= 2 \/ g + calm < 2)
    /\ prev_sync_rx <=> (calm >= 3 \/ g + calm < 3)
    /\ g + calm <= 2 \/ g + calm > HalfTicks + 2 => RxRests
    /\ g + calm \in 3 .. HalfTicks + 2 =>
          /\ rx_busy /\ validating_start
          /\ ticks_until_sample = HalfTicks + 2 - (g + calm)

PauseOnLine ==
    ~ tx_busy =>
        /\ owed = Nothing
        /\ calm = Settled => RxRests /\ LineIsHigh /\ glitch = 0
        /\ calm # Settled => \E g \in 1 .. MaxGlitch : GlitchOnLine(g)

CleanInv == LinkInv /\ (line_kind = "Clean" => ByteOnLine /\ PauseOnLine)
-----------------------------------------------------------------------------
(* The constants of the link are numbers.                                    *)
LEMMA LinkNumbers ==
    /\ DataBits \in Nat /\ DataBits >= 1 /\ FrameBits = DataBits + 2 /\ RxBits = DataBits
    /\ HalfTicks \in Nat /\ HalfTicks >= 1 /\ BitTicks \in Nat /\ BitTicks >= 1
    /\ MaxGlitch \in Nat /\ MaxGlitch < HalfTicks /\ Settled = HalfTicks + 4
    /\ \A p \in Periods : p \in Nat
  BY DataBitsAssumption, TicksAssumption, LinkAssumption DEF FrameBits, Settled

(* A bit is sampled inside the bit of the sender with its number.            *)
LEMMA InsideBit ==
    ASSUME NEW p \in Periods, NEW k \in 0 .. DataBits + 1
    PROVE  /\ k * p \in Nat /\ (k + 1) * p = k * p + p
           /\ SampleTime(k) \in Nat
           /\ k * p + 2 <= SampleTime(k) /\ SampleTime(k) < k * p + p
<1>1. p \in Nat /\ k \in Nat /\ BitTicks \in Nat /\ HalfTicks \in Nat
  BY LinkNumbers
<1>2. k * p \in Nat /\ (k + 1) * p = k * p + p /\ k * BitTicks \in Nat
  BY <1>1, BitTimes
<1>3. k * p <= HalfTicks + k * BitTicks /\ HalfTicks + k * BitTicks + 2 < (k + 1) * p
  BY DriftAssumption
<1> QED
  BY <1>1, <1>2, <1>3 DEF SampleTime

(* A bit is longer than the two flip-flops delay the line.                   *)
LEMMA LongPeriod == \A p \in Periods : p \in Nat /\ p >= 4
<1> SUFFICES ASSUME NEW p \in Periods PROVE p \in Nat /\ p >= 4
  OBVIOUS
<1>1. 0 \in 0 .. DataBits + 1
  BY LinkNumbers
<1>2. HalfTicks + 0 * BitTicks + 2 < (0 + 1) * p
  BY <1>1, DriftAssumption
<1>3. 0 * BitTicks = 0 /\ (0 + 1) * p = p
  BY LinkNumbers
<1> QED
  BY <1>2, <1>3, LinkNumbers

(* The moments of the samples follow one another.                            *)
LEMMA SampleOrder ==
    /\ SampleTime(0) = HalfTicks + 2
    /\ \A k \in Nat : SampleTime(k) \in Nat /\ SampleTime(k + 1) = SampleTime(k) + BitTicks
    /\ \A j, k \in Nat : j < k => SampleTime(j) + BitTicks <= SampleTime(k)
<1>1. \A k \in Nat : k * BitTicks \in Nat /\ (k + 1) * BitTicks = k * BitTicks + BitTicks
  BY LinkNumbers, BitTimes
<1>2. 0 * BitTicks = 0
  BY LinkNumbers
<1>3. \A k \in Nat : SampleTime(k) \in Nat /\ SampleTime(k + 1) = SampleTime(k) + BitTicks
  BY <1>1, LinkNumbers DEF SampleTime
<1>4. ASSUME NEW j \in Nat, NEW k \in Nat, j < k
      PROVE  SampleTime(j) + BitTicks <= SampleTime(k)
  <2>1. (j + 1) * BitTicks <= k * BitTicks
    BY <1>4, LinkNumbers, ProductMonotone
  <2>2. /\ (j + 1) * BitTicks = j * BitTicks + BitTicks
        /\ j * BitTicks \in Nat /\ k * BitTicks \in Nat
    BY <1>1
  <2> QED
    BY <2>1, <2>2, LinkNumbers DEF SampleTime
<1> QED
  BY <1>2, <1>3, <1>4, LinkNumbers DEF SampleTime

(* At the moment of a sample the line two clocks before was in that bit.     *)
LEMMA SampledBit ==
    ASSUME NEW p \in Periods, NEW n \in 0 .. DataBits + 1, NEW r \in 0 .. p - 1,
           NEW k \in 0 .. DataBits + 1
    PROVE  /\ ClocksOf(n, p, r) \in Nat
           /\ ClocksOf(n, p, r) = SampleTime(k) => n = k /\ r >= 2
           /\ ClocksOf(n, p, r) > SampleTime(DataBits + 1) => n = DataBits + 1 /\ r >= 2
           /\ ClocksOf(n, p, r) <= 2 => n = 0
           /\ n = 0 => ClocksOf(n, p, r) = r
           /\ n = DataBits + 1 /\ r = p - 1 => ClocksOf(n, p, r) >= SampleTime(DataBits + 1)
<1>1. /\ p \in Nat /\ p >= 4 /\ n \in Nat /\ k \in Nat /\ DataBits \in Nat
      /\ DataBits + 1 \in 0 .. DataBits + 1
  BY LongPeriod, LinkNumbers
<1>2. /\ n * p \in Nat /\ (n + 1) * p = n * p + p
      /\ k * p \in Nat /\ (k + 1) * p = k * p + p
      /\ k * p + 2 <= SampleTime(k) /\ SampleTime(k) < k * p + p
      /\ SampleTime(k) \in Nat
  BY InsideBit
<1>3. /\ (DataBits + 1) * p \in Nat
      /\ (DataBits + 1) * p + 2 <= SampleTime(DataBits + 1)
      /\ SampleTime(DataBits + 1) < (DataBits + 1) * p + p
      /\ SampleTime(DataBits + 1) \in Nat
  BY <1>1, InsideBit
<1>4. n < k => n * p + p <= k * p
  <2>1. n < k => (n + 1) * p <= k * p
    BY <1>1, ProductMonotone
  <2> QED
    BY <1>2, <2>1
<1>5. k < n => k * p + p <= n * p
  <2>1. k < n => (k + 1) * p <= n * p
    BY <1>1, ProductMonotone
  <2> QED
    BY <1>2, <2>1
<1>6. n < DataBits + 1 => n * p + p <= (DataBits + 1) * p
  <2>1. n < DataBits + 1 => (n + 1) * p <= (DataBits + 1) * p
    BY <1>1, ProductMonotone
  <2> QED
    BY <1>2, <2>1
<1>7. n # 0 => p <= n * p
  <2>1. n # 0 => 1 * p <= n * p
    BY <1>1, ProductMonotone
  <2> QED
    BY <1>1, <2>1
<1>8. 0 * p = 0
  BY <1>1
<1>9. n * p + r = SampleTime(k) => n = k /\ r >= 2
  BY <1>1, <1>2, <1>4, <1>5
<1>10. n * p + r > SampleTime(DataBits + 1) => n = DataBits + 1 /\ r >= 2
  BY <1>1, <1>2, <1>3, <1>6
<1>11. n * p + r <= 2 => n = 0
  BY <1>1, <1>2, <1>7
<1>12. n = DataBits + 1 /\ r = p - 1 => n * p + r >= SampleTime(DataBits + 1)
  BY <1>1, <1>3
<1>13. n * p + r \in Nat /\ (n = 0 => n * p + r = r)
  BY <1>1, <1>2, <1>8
<1> QED
  BY <1>9, <1>10, <1>11, <1>12, <1>13 DEF ClocksOf

(* Another clock of a byte.                                                  *)
LEMMA SendStep ==
    ASSUME period \in Periods, tx_busy, bits_left \in 1 .. FrameBits,
           ticks_until_shift \in 0 .. period - 1,
           UartTxClock(FALSE, {}, period), period' = period
    PROVE  /\ tx_data' = tx_data
           /\ BitsSent \in 0 .. DataBits + 1 /\ InBit \in 0 .. period - 1 /\ SinceStart \in Nat
           /\ tx_busy' =>
                /\ bits_left' \in 1 .. FrameBits /\ ticks_until_shift' \in 0 .. period - 1
                /\ SinceStart' = SinceStart + 1
                /\ \/ BitsSent' = BitsSent /\ InBit' = InBit + 1
                   \/ BitsSent' = BitsSent + 1 /\ InBit = period - 1 /\ InBit' = 0
           /\ ~ tx_busy' => BitsSent = DataBits + 1 /\ InBit = period - 1
<1>1. tx_data' = tx_data
  BY DEF UartTxClock, StartTx
<1>2. /\ BitsSent \in 0 .. DataBits + 1 /\ InBit \in 0 .. period - 1
      /\ period \in Nat /\ period >= 4 /\ DataBits \in Nat /\ FrameBits = DataBits + 2
  BY LinkNumbers, LongPeriod DEF BitsSent, InBit
<1>3. BitsSent * period \in Nat /\ (BitsSent + 1) * period = BitsSent * period + period
  BY <1>2, BitTimes
<1>4. SinceStart \in Nat
  BY <1>2, <1>3 DEF SinceStart, ClocksOf
<1>5. CASE ticks_until_shift # 0
  <2>1. ~ ShiftNow
    BY <1>5 DEF ShiftNow
  <2>2. bits_left' = bits_left /\ ticks_until_shift' = ticks_until_shift - 1
    BY <2>1, Zenon DEF UartTxClock, StartTx
  <2>3. tx_busy'
    BY <2>1, Zenon DEF UartTxClock, StartTx
  <2>4. BitsSent' = BitsSent /\ InBit' = InBit + 1
    BY <1>2, <1>5, <2>2 DEF BitsSent, InBit, FrameBits
  <2>5. SinceStart' = SinceStart + 1
    BY <1>2, <1>3, <2>4 DEF SinceStart, ClocksOf
  <2>6. bits_left' \in 1 .. FrameBits /\ ticks_until_shift' \in 0 .. period - 1
    BY <1>2, <1>5, <2>2
  <2> QED
    BY <1>1, <1>2, <1>4, <2>3, <2>4, <2>5, <2>6
<1>6. CASE ticks_until_shift = 0 /\ bits_left > 1
  <2>1. ShiftNow
    BY <1>6 DEF ShiftNow
  <2>2. bits_left' = bits_left - 1 /\ ticks_until_shift' = period - 1
    BY <1>6, <2>1, Zenon DEF UartTxClock, StartTx
  <2>3. bits_left # 1
    BY <1>6
  <2>4. tx_busy'
    BY <2>1, <2>3, Zenon DEF UartTxClock, StartTx
  <2>5. BitsSent' = BitsSent + 1 /\ InBit' = 0 /\ InBit = period - 1
    BY <1>2, <1>6, <2>2 DEF BitsSent, InBit, FrameBits
  <2>6. SinceStart' = SinceStart + 1
    BY <1>2, <1>3, <2>5 DEF SinceStart, ClocksOf
  <2>7. bits_left' \in 1 .. FrameBits /\ ticks_until_shift' \in 0 .. period - 1
    BY <1>2, <1>6, <2>2
  <2> QED
    BY <1>1, <1>2, <1>4, <2>4, <2>5, <2>6, <2>7
<1>7. CASE ticks_until_shift = 0 /\ bits_left = 1
  <2>1. ShiftNow
    BY <1>7 DEF ShiftNow
  <2>2. ~ tx_busy'
    BY <1>7, <2>1, Zenon DEF UartTxClock, StartTx
  <2>3. BitsSent = DataBits + 1 /\ InBit = period - 1
    BY <1>2, <1>7 DEF BitsSent, InBit
  <2> QED
    BY <1>1, <1>2, <1>4, <2>2, <2>3
<1>8. bits_left > 1 \/ bits_left = 1
  BY <1>2
<1> QED
  BY <1>5, <1>6, <1>7, <1>8

(* The levels of a byte.                                                     *)
LEMMA Levels ==
    /\ BitOnLine(-1) /\ ~ BitOnLine(0) /\ BitOnLine(DataBits + 1)
    /\ \A k \in 1 .. DataBits : BitOnLine(k) <=> k - 1 \in tx_data
    /\ \A n \in 0 .. DataBits + 1 : n = BitsSent /\ tx_busy => (TxLine <=> BitOnLine(n))
<1>1. DataBits \in Nat /\ DataBits >= 1 /\ FrameBits - 1 = DataBits + 1
  BY LinkNumbers
<1>2. BitOnLine(-1) /\ ~ BitOnLine(0) /\ BitOnLine(DataBits + 1)
  BY <1>1 DEF BitOnLine
<1>3. \A k \in 1 .. DataBits : BitOnLine(k) <=> k - 1 \in tx_data
  BY <1>1 DEF BitOnLine
<1>4. ASSUME NEW n \in 0 .. DataBits + 1, n = BitsSent, tx_busy
      PROVE  TxLine <=> BitOnLine(n)
  <2>1. n # -1
    BY <1>1
  <2> QED
    BY <1>4, <2>1, Zenon DEF TxLine, BitOnLine, BitsSent
<1> QED
  BY <1>2, <1>3, <1>4

(* The line moves through the synchroniser.                                  *)
LEMMA LineStep ==
    ASSUME period \in Periods, tx_busy, bits_left \in 1 .. FrameBits,
           ticks_until_shift \in 0 .. period - 1, LineFollows,
           UartTxClock(FALSE, {}, period), period' = period, UartRxClock(TxLine)
    PROVE  /\ tx_busy' => LineFollows'
           /\ ~ tx_busy' => LineIsHigh'
<1>1. /\ tx_data' = tx_data
      /\ BitsSent \in 0 .. DataBits + 1 /\ InBit \in 0 .. period - 1
      /\ tx_busy' => \/ BitsSent' = BitsSent /\ InBit' = InBit + 1
                     \/ BitsSent' = BitsSent + 1 /\ InBit = period - 1 /\ InBit' = 0
      /\ ~ tx_busy' => BitsSent = DataBits + 1 /\ InBit = period - 1
  BY SendStep
<1>2. period \in Nat /\ period >= 4 /\ DataBits \in Nat
  BY LongPeriod, LinkNumbers
<1>3. /\ sync_stage0' <=> BitOnLine(BitsSent)
      /\ sync_stage1' = sync_stage0 /\ prev_sync_rx' = sync_stage1
  <2>1. sync_stage0' = TxLine /\ sync_stage1' = sync_stage0 /\ prev_sync_rx' = sync_stage1
    BY DEF UartRxClock
  <2> QED
    BY <1>1, <2>1, Levels
<1>4. \A n : BitOnLine(n)' <=> BitOnLine(n)
  BY <1>1 DEF BitOnLine
<1> DEFINE n == BitsSent
<1>5. CASE tx_busy' /\ BitsSent' = BitsSent /\ InBit' = InBit + 1
  <2>1. (InBit' >= 2 <=> InBit >= 1) /\ (InBit' >= 3 <=> InBit >= 2) /\ InBit' >= 1
    BY <1>1, <1>5
  <2>2. (InBit' < 2 <=> InBit < 1) /\ (InBit' < 3 <=> InBit < 2) /\ ~ InBit' < 1
    BY <1>1, <1>5
  <2>3. BitOnLine(BitsSent)' <=> BitOnLine(BitsSent)
    BY <1>4, <1>5
  <2>4. BitOnLine(BitsSent - 1)' <=> BitOnLine(BitsSent - 1)
    BY <1>4, <1>5
  <2> QED
    BY <1>3, <1>5, <2>1, <2>2, <2>3, <2>4, Zenon DEF LineFollows
<1>6. CASE tx_busy' /\ BitsSent' = BitsSent + 1 /\ InBit = period - 1 /\ InBit' = 0
  <2>1. InBit >= 1 /\ InBit >= 2 /\ InBit >= 3
    BY <1>1, <1>2, <1>6
  <2>2. /\ ~ InBit' >= 1 /\ ~ InBit' >= 2 /\ ~ InBit' >= 3
        /\ InBit' < 1 /\ InBit' < 2 /\ InBit' < 3
    BY <1>6
  <2>3. BitsSent' - 1 = BitsSent
    BY <1>1, <1>6
  <2>4. BitOnLine(BitsSent - 1)' <=> BitOnLine(BitsSent)
    BY <1>4, <2>3
  <2> QED
    BY <1>3, <1>6, <2>1, <2>2, <2>4, Zenon DEF LineFollows
<1>7. CASE ~ tx_busy'
  <2>1. InBit >= 1 /\ InBit >= 2 /\ BitsSent = DataBits + 1
    BY <1>1, <1>2, <1>7
  <2>2. BitOnLine(BitsSent)
    BY <2>1, Levels
  <2> QED
    BY <1>3, <1>7, <2>1, <2>2, Zenon DEF LineFollows, LineIsHigh
<1> QED
  BY <1>1, <1>5, <1>6, <1>7

(* What the receiver does in a clock.                                        *)
LEMMA ReceiverMoves ==
    ASSUME UartRxTypeOK, NEW line, UartRxClock(line)
    PROVE  /\ RxRests /\ ~ (prev_sync_rx /\ ~ sync_stage1) => RxRests' /\ ~ Reported
           /\ RxRests /\ prev_sync_rx /\ ~ sync_stage1 =>
                /\ rx_busy' /\ validating_start' /\ bit_index' = 0 /\ shift' = {}
                /\ ticks_until_sample' = HalfTicks - 1 /\ ~ Reported
           /\ rx_busy /\ ticks_until_sample # 0 =>
                /\ rx_busy' /\ (validating_start' <=> validating_start)
                /\ bit_index' = bit_index /\ shift' = shift
                /\ ticks_until_sample' = ticks_until_sample - 1 /\ ~ Reported
           /\ rx_busy /\ ticks_until_sample = 0 /\ validating_start /\ ~ sync_stage1 =>
                /\ rx_busy' /\ ~ validating_start' /\ bit_index' = 0 /\ shift' = shift
                /\ ticks_until_sample' = BitTicks - 1 /\ ~ Reported
           /\ rx_busy /\ ticks_until_sample = 0 /\ validating_start /\ sync_stage1 =>
                RxRests' /\ ~ Reported
           /\ rx_busy /\ ticks_until_sample = 0 /\ ~ validating_start /\ bit_index < RxBits =>
                /\ rx_busy' /\ ~ validating_start' /\ bit_index' = bit_index + 1
                /\ shift' = IF sync_stage1 THEN shift \cup {bit_index} ELSE shift \ {bit_index}
                /\ ticks_until_sample' = BitTicks - 1 /\ ~ Reported
           /\ rx_busy /\ ticks_until_sample = 0 /\ ~ validating_start /\ ~ bit_index < RxBits =>
                /\ RxRests' /\ shift' = shift
                /\ (rx_byte_valid' <=> sync_stage1) /\ (rx_framing_error' <=> ~ sync_stage1)
<1> USE DEF Receive, NoPulse, Reported, StartDetect, SampleNow, StillLow, MoreBits, RxRests,
            FirstSample
<1>1. CASE Idle
  BY <1>1 DEF Idle
<1>2. CASE Begin
  BY <1>2 DEF Begin
<1>3. CASE CountTicks
  BY <1>3 DEF CountTicks
<1>4. CASE ValidateStart
  BY <1>4 DEF ValidateStart
<1>5. CASE SampleBit
  BY <1>5 DEF SampleBit
<1>6. CASE SampleStop
  BY <1>6 DEF SampleStop, UartRxTypeOK
<1> QED
  BY <1>1, <1>2, <1>3, <1>4, <1>5, <1>6 DEF UartRxClock

(* A sample finds the level of its bit.                                      *)
LEMMA SampledLevel ==
    ASSUME period \in Periods, bits_left \in 1 .. FrameBits,
           ticks_until_shift \in 0 .. period - 1, LineFollows,
           NEW k \in 0 .. DataBits + 1, SinceStart = SampleTime(k)
    PROVE  sync_stage1 <=> BitOnLine(k)
<1>1. BitsSent \in 0 .. DataBits + 1 /\ InBit \in 0 .. period - 1
  BY LinkNumbers DEF BitsSent, InBit
<1>2. BitsSent = k /\ InBit >= 2
  BY <1>1, SampledBit DEF SinceStart
<1> QED
  BY <1>2 DEF LineFollows

(* While a byte is sent the receiver is where the time since its start says. *)
LEMMA ReceiverStep ==
    ASSUME LinkInv, tx_busy, ByteOnLine, UartRxClock(TxLine)
    PROVE  LET e == SinceStart IN
           /\ e + 1 <= 2 => RxRests'
           /\ e + 1 \in 3 .. SampleTime(0) =>
                /\ rx_busy' /\ validating_start' /\ bit_index' = 0 /\ shift' = {}
                /\ ticks_until_sample' = SampleTime(0) - (e + 1)
           /\ e + 1 \in SampleTime(0) + 1 .. SampleTime(DataBits + 1) =>
                /\ rx_busy' /\ ~ validating_start' /\ bit_index' \in 0 .. DataBits
                /\ ticks_until_sample' = SampleTime(bit_index' + 1) - (e + 1)
                /\ shift' = {i \in tx_data : i < bit_index'}
           /\ e + 1 > SampleTime(DataBits + 1) => RxRests'
           /\ e # SampleTime(DataBits + 1) => ~ Reported
           /\ e = SampleTime(DataBits + 1) => Reported /\ rx_byte_valid' /\ shift' = tx_data
<1> DEFINE n == BitsSent
           r == InBit
           e == SinceStart
           first == SampleTime(0)
           last == SampleTime(DataBits + 1)
<1> DEFINE Goal ==
         /\ e + 1 <= 2 => RxRests'
         /\ e + 1 \in 3 .. first =>
              /\ rx_busy' /\ validating_start' /\ bit_index' = 0 /\ shift' = {}
              /\ ticks_until_sample' = first - (e + 1)
         /\ e + 1 \in first + 1 .. last =>
              /\ rx_busy' /\ ~ validating_start' /\ bit_index' \in 0 .. DataBits
              /\ ticks_until_sample' = SampleTime(bit_index' + 1) - (e + 1)
              /\ shift' = {i \in tx_data : i < bit_index'}
         /\ e + 1 > last => RxRests'
         /\ e # last => ~ Reported
         /\ e = last => Reported /\ rx_byte_valid' /\ shift' = tx_data
<1> SUFFICES Goal
  OBVIOUS
<1>1. /\ UartRxTypeOK /\ period \in Periods /\ tx_data \in Byte
      /\ LineFollows /\ ReceiverFollows
      /\ bits_left \in 1 .. FrameBits /\ ticks_until_shift \in 0 .. period - 1
  BY DEF LinkInv, LinkTypeOK, UartTxTypeOK, ByteOnLine
<1>2. /\ DataBits \in Nat /\ DataBits >= 1 /\ RxBits = DataBits
      /\ HalfTicks \in Nat /\ HalfTicks >= 1 /\ BitTicks \in Nat /\ BitTicks >= 1
      /\ period \in Nat /\ period >= 4 /\ FrameBits = DataBits + 2
  BY <1>1, LinkNumbers, LongPeriod
<1>3. n \in 0 .. DataBits + 1 /\ r \in 0 .. period - 1 /\ e = ClocksOf(n, period, r)
  BY <1>1, <1>2 DEF BitsSent, InBit, SinceStart
<1>20. /\ r >= 2 => (sync_stage1 <=> BitOnLine(n))
       /\ r < 2 => (sync_stage1 <=> BitOnLine(n - 1))
       /\ r < 3 => (prev_sync_rx <=> BitOnLine(n - 1))
  BY <1>1 DEF LineFollows
<1>21. ReceiverFollows <=>
         /\ e <= 2 => RxRests
         /\ e \in 3 .. first =>
               /\ rx_busy /\ validating_start /\ bit_index = 0 /\ shift = {}
               /\ ticks_until_sample = first - e
         /\ e \in first + 1 .. last =>
               /\ rx_busy /\ ~ validating_start /\ bit_index \in 0 .. DataBits
               /\ ticks_until_sample = SampleTime(bit_index + 1) - e
               /\ shift = {i \in tx_data : i < bit_index}
         /\ e > last => RxRests
  BY DEF ReceiverFollows
<1>6. \A k \in 0 .. DataBits + 1 : e = SampleTime(k) => (sync_stage1 <=> BitOnLine(k))
  BY <1>1, SampledLevel
<1> HIDE DEF n, r, e
<1>4. e \in Nat
  <2>1. 0 \in 0 .. DataBits + 1
    BY <1>2
  <2> QED
    BY <1>1, <1>3, <2>1, SampledBit
<1>5. first = HalfTicks + 2 /\ first \in Nat /\ last \in Nat /\ first + BitTicks <= last
  <2>1. 0 \in Nat /\ DataBits + 1 \in Nat /\ 0 < DataBits + 1
    BY <1>2
  <2>2. SampleTime(0) + BitTicks <= SampleTime(DataBits + 1)
    BY <2>1, SampleOrder
  <2>3. SampleTime(0) \in Nat /\ SampleTime(DataBits + 1) \in Nat
    BY <2>1, SampleOrder
  <2> QED
    BY <2>2, <2>3, SampleOrder
<1>7. ASSUME e <= 2
      PROVE  (prev_sync_rx /\ ~ sync_stage1) <=> e = 2
  <2>0. 0 \in 0 .. DataBits + 1
    BY <1>2
  <2>1. n = 0 /\ e = r
    BY <1>1, <1>2, <1>3, <1>7, <2>0, SampledBit
  <2>2. n - 1 = -1 /\ r < 3
    BY <1>4, <1>7, <2>1
  <2>3. prev_sync_rx
    BY <1>20, <2>2, Levels
  <2>4. r >= 2 => ~ sync_stage1
    BY <1>20, <2>1, Levels
  <2>5. r < 2 => sync_stage1
    BY <1>20, <2>2, Levels
  <2>6. e = 2 <=> r >= 2
    BY <1>4, <1>7, <2>1
  <2>7. e # 2 <=> r < 2
    BY <1>3, <1>7, <2>1
  <2> QED
    BY <2>3, <2>4, <2>5, <2>6, <2>7, Zenon
<1>8. e > last => sync_stage1
  <2> SUFFICES ASSUME e > last PROVE sync_stage1
    OBVIOUS
  <2>0. 0 \in 0 .. DataBits + 1
    BY <1>2
  <2>1. n = DataBits + 1 /\ r >= 2
    BY <1>1, <1>3, <2>0, SampledBit
  <2> QED
    BY <1>20, <2>1, Levels
<1>9. /\ e <= 2 => RxRests
      /\ e \in 3 .. first =>
            /\ rx_busy /\ validating_start /\ bit_index = 0 /\ shift = {}
            /\ ticks_until_sample = first - e
      /\ e \in first + 1 .. last =>
            /\ rx_busy /\ ~ validating_start /\ bit_index \in 0 .. DataBits
            /\ ticks_until_sample = SampleTime(bit_index + 1) - e
            /\ shift = {i \in tx_data : i < bit_index}
      /\ e > last => RxRests
  BY <1>1, <1>21
<1>10. ticks_until_sample \in Nat
  BY <1>1 DEF UartRxTypeOK
<1> HIDE DEF first, last
<1>11. CASE e < 2
  <2>1. RxRests' /\ ~ Reported
    BY <1>1, <1>4, <1>7, <1>9, <1>11, ReceiverMoves
  <2> QED
    BY <1>2, <1>4, <1>5, <1>11, <2>1
<1>12. CASE e = 2
  <2>1. /\ rx_busy' /\ validating_start' /\ bit_index' = 0 /\ shift' = {}
        /\ ticks_until_sample' = HalfTicks - 1 /\ ~ Reported
    BY <1>1, <1>7, <1>9, <1>12, ReceiverMoves
  <2> QED
    BY <1>2, <1>5, <1>12, <2>1
<1>13. CASE e \in 3 .. first /\ e # first
  <2>1. ticks_until_sample # 0
    BY <1>4, <1>5, <1>9, <1>13
  <2>2. /\ rx_busy' /\ validating_start' /\ bit_index' = 0 /\ shift' = {}
        /\ ticks_until_sample' = ticks_until_sample - 1 /\ ~ Reported
    BY <1>1, <1>9, <1>13, <2>1, ReceiverMoves
  <2> QED
    BY <1>2, <1>4, <1>5, <1>9, <1>13, <2>2
<1>14. CASE e \in 3 .. first /\ e = first
  <2>1. ticks_until_sample = 0
    BY <1>4, <1>5, <1>9, <1>14
  <2>2. ~ sync_stage1
    <3>1. 0 \in 0 .. DataBits + 1
      BY <1>2
    <3> QED
      BY <1>6, <1>14, <3>1, Levels DEF first
  <2>3. /\ rx_busy' /\ ~ validating_start' /\ bit_index' = 0 /\ shift' = {}
        /\ ticks_until_sample' = BitTicks - 1 /\ ~ Reported
    BY <1>1, <1>9, <1>14, <2>1, <2>2, ReceiverMoves
  <2>4. SampleTime(0 + 1) = first + BitTicks
    BY SampleOrder DEF first
  <2>5. tx_data \subseteq 0 .. DataBits - 1
    BY <1>1 DEF Byte
  <2>6. {} = {i \in tx_data : i < 0}
    <3>1. \A i \in tx_data : ~ i < 0
      BY <1>2, <2>5
    <3> QED
      BY <3>1
  <2> QED
    BY <1>2, <1>4, <1>5, <1>14, <2>3, <2>4, <2>6
<1>15. CASE e \in first + 1 .. last /\ ticks_until_sample # 0
  <2>1. /\ rx_busy' /\ ~ validating_start' /\ bit_index' = bit_index /\ shift' = shift
        /\ ticks_until_sample' = ticks_until_sample - 1 /\ ~ Reported
    BY <1>1, <1>9, <1>15, ReceiverMoves
  <2>2. SampleTime(bit_index + 1) \in Nat /\ bit_index \in 0 .. DataBits
    BY <1>2, <1>9, <1>15, SampleOrder
  <2>3. SampleTime(bit_index + 1) <= last
    <3>1. bit_index + 1 < DataBits + 1 => SampleTime(bit_index + 1) + BitTicks <= last
      BY <1>2, <2>2, SampleOrder DEF last
    <3>2. bit_index + 1 = DataBits + 1 => SampleTime(bit_index + 1) = last
      BY DEF last
    <3> QED
      BY <1>2, <1>5, <2>2, <3>1, <3>2
  <2>4. e # last
    BY <1>4, <1>5, <1>9, <1>10, <1>15, <2>2, <2>3
  <2>5. e + 1 \in first + 1 .. last /\ e + 1 > 2 /\ ~ (e + 1 <= first) /\ ~ (e + 1 > last)
    BY <1>2, <1>4, <1>5, <1>15, <2>4
  <2>6. ticks_until_sample' = SampleTime(bit_index' + 1) - (e + 1)
    BY <1>4, <1>9, <1>15, <2>1, <2>2
  <2> QED
    BY <1>9, <1>15, <2>1, <2>2, <2>4, <2>5, <2>6
<1>16. CASE e \in first + 1 .. last /\ ticks_until_sample = 0 /\ bit_index < DataBits
  <2>1. bit_index \in 0 .. DataBits - 1 /\ e = SampleTime(bit_index + 1)
    <3>1. bit_index \in 0 .. DataBits /\ SampleTime(bit_index + 1) \in Nat
      BY <1>2, <1>9, <1>16, SampleOrder
    <3> QED
      BY <1>2, <1>4, <1>9, <1>16, <3>1
  <2>2. sync_stage1 <=> bit_index \in tx_data
    <3>1. bit_index + 1 \in 1 .. DataBits /\ bit_index + 1 \in 0 .. DataBits + 1
      BY <1>2, <2>1
    <3>2. \A k \in 1 .. DataBits : k = bit_index + 1 => k - 1 = bit_index
      BY <2>1
    <3>3. \A k \in 1 .. DataBits : k = bit_index + 1 => (BitOnLine(k) <=> bit_index \in tx_data)
      BY <3>2, Levels
    <3>4. BitOnLine(bit_index + 1) <=> bit_index \in tx_data
      BY <3>1, <3>3
    <3> QED
      BY <1>6, <2>1, <3>1, <3>4
  <2>3. /\ rx_busy' /\ ~ validating_start' /\ bit_index' = bit_index + 1
        /\ shift' = IF sync_stage1 THEN shift \cup {bit_index} ELSE shift \ {bit_index}
        /\ ticks_until_sample' = BitTicks - 1 /\ ~ Reported
    BY <1>1, <1>2, <1>9, <1>16, ReceiverMoves
  <2>4. SampleTime(bit_index + 1) + BitTicks <= last
    BY <1>2, <2>1, SampleOrder DEF last
  <2>5. SampleTime(bit_index + 1 + 1) = SampleTime(bit_index + 1) + BitTicks
    BY <2>1, SampleOrder
  <2>6. shift' = {i \in tx_data : i < bit_index'}
    <3>1. \A i \in tx_data : i \in Nat
      BY <1>1, <1>2 DEF Byte
    <3>2. \A i \in tx_data : i < bit_index + 1 <=> i < bit_index \/ i = bit_index
      BY <2>1, <3>1
    <3>3. shift = {i \in tx_data : i < bit_index}
      BY <1>9, <1>16
    <3>4. shift \ {bit_index} = shift
      BY <2>1, <3>1, <3>3
    <3> QED
      BY <2>1, <2>2, <2>3, <3>2, <3>3, <3>4
  <2>7. e + 1 \in first + 1 .. last /\ e + 1 > 2 /\ ~ (e + 1 <= first) /\ ~ (e + 1 > last) /\ e # last
    BY <1>2, <1>4, <1>5, <1>16, <2>1, <2>4
  <2>8. ticks_until_sample' = SampleTime(bit_index' + 1) - (e + 1)
    BY <1>2, <1>4, <2>1, <2>3, <2>5
  <2>9. bit_index' \in 0 .. DataBits
    BY <1>2, <2>1, <2>3
  <2> QED
    BY <2>3, <2>6, <2>7, <2>8, <2>9
<1>17. CASE e \in first + 1 .. last /\ ticks_until_sample = 0 /\ ~ (bit_index < DataBits)
  <2>1. bit_index = DataBits
    BY <1>2, <1>9, <1>17
  <2>2. e = last
    <3>1. ticks_until_sample = last - e
      BY <1>9, <1>17, <2>1 DEF last
    <3> QED
      BY <1>4, <1>5, <1>17, <3>1
  <2>3. sync_stage1
    <3>1. DataBits + 1 \in 0 .. DataBits + 1
      BY <1>2
    <3> QED
      BY <1>6, <2>2, <3>1, Levels DEF last
  <2>4. /\ RxRests' /\ shift' = shift /\ rx_byte_valid'
    BY <1>1, <1>2, <1>9, <1>17, <2>3, ReceiverMoves
  <2>5. shift = tx_data
    <3>1. \A i \in tx_data : i < DataBits
      BY <1>1, <1>2 DEF Byte
    <3> QED
      BY <1>9, <1>17, <2>1, <3>1
  <2>6. e + 1 > 2 /\ ~ (e + 1 <= first) /\ ~ (e + 1 <= last) /\ ~ (e + 1 <= 2)
    BY <1>2, <1>4, <1>5, <2>2
  <2> QED
    BY <2>2, <2>4, <2>5, <2>6 DEF Reported
<1>18. CASE e > last
  <2>1. RxRests' /\ ~ Reported
    BY <1>1, <1>8, <1>9, <1>18, ReceiverMoves
  <2>2. e # last /\ ~ (e + 1 <= first) /\ ~ (e + 1 <= last)
    BY <1>2, <1>4, <1>5, <1>18
  <2> QED
    BY <2>1, <2>2
<1>19. e < 2 \/ e = 2 \/ e \in 3 .. first \/ e \in first + 1 .. last \/ e > last
  BY <1>4, <1>5
<1> QED
  BY <1>11, <1>12, <1>13, <1>14, <1>15, <1>16, <1>17, <1>18, <1>19

(* What a step promises.                                                     *)
Delivers ==
    /\ Reported => owed.sent /\ rx_byte_valid' /\ shift' = owed.data
    /\ ~ tx_busy /\ tx_busy' => ~ owed.sent

(* A clock of a byte keeps its pace, or ends it when it has been reported.   *)
LEMMA ByteStep ==
    ASSUME LinkInv, ByteOnLine, ContinueByte
    PROVE  ByteOnLine' /\ PauseOnLine' /\ Delivers
<1> DEFINE e == SinceStart
           last == SampleTime(DataBits + 1)
<1>1. /\ tx_busy /\ UartTxClock(FALSE, {}, period) /\ UartRxClock(TxLine)
      /\ RecordOwed(FALSE, {}) /\ period' = period /\ calm' = calm /\ glitch' = glitch
  BY DEF ContinueByte
<1>2. /\ period \in Periods /\ tx_data \in Byte
      /\ calm = Settled /\ glitch = 0 /\ LineFollows /\ ReceiverFollows /\ OwedUntilStop
      /\ bits_left \in 1 .. FrameBits /\ ticks_until_shift \in 0 .. period - 1
  BY <1>1 DEF LinkInv, LinkTypeOK, UartTxTypeOK, ByteOnLine
<1>3. /\ tx_data' = tx_data /\ e \in Nat
      /\ BitsSent \in 0 .. DataBits + 1 /\ InBit \in 0 .. period - 1
      /\ tx_busy' => /\ bits_left' \in 1 .. FrameBits /\ ticks_until_shift' \in 0 .. period - 1
                     /\ SinceStart' = e + 1
      /\ ~ tx_busy' => BitsSent = DataBits + 1 /\ InBit = period - 1
  BY <1>1, <1>2, SendStep
<1>4. /\ tx_busy' => LineFollows'
      /\ ~ tx_busy' => LineIsHigh'
  BY <1>1, <1>2, LineStep
<1>5. /\ e + 1 <= 2 => RxRests'
      /\ e + 1 \in 3 .. SampleTime(0) =>
           /\ rx_busy' /\ validating_start' /\ bit_index' = 0 /\ shift' = {}
           /\ ticks_until_sample' = SampleTime(0) - (e + 1)
      /\ e + 1 \in SampleTime(0) + 1 .. last =>
           /\ rx_busy' /\ ~ validating_start' /\ bit_index' \in 0 .. DataBits
           /\ ticks_until_sample' = SampleTime(bit_index' + 1) - (e + 1)
           /\ shift' = {i \in tx_data : i < bit_index'}
      /\ e + 1 > last => RxRests'
      /\ e # last => ~ Reported
      /\ e = last => Reported /\ rx_byte_valid' /\ shift' = tx_data
  BY <1>1, ReceiverStep
<1>6. last \in Nat
  <2>1. DataBits + 1 \in Nat
    BY LinkNumbers
  <2> QED
    BY <2>1, SampleOrder
<1>7. owed = IF e <= last THEN [sent |-> TRUE, data |-> tx_data] ELSE Nothing
  BY <1>2 DEF OwedUntilStop
<1>8. owed' = IF e + 1 <= last THEN [sent |-> TRUE, data |-> tx_data] ELSE Nothing
  <2>1. owed' = IF Reported THEN Nothing ELSE owed
    BY <1>1 DEF RecordOwed
  <2> HIDE DEF e, last
  <2>2. CASE e = last
    BY <1>3, <1>5, <1>6, <2>1, <2>2
  <2>3. CASE e # last
    BY <1>3, <1>5, <1>6, <1>7, <2>1, <2>3
  <2> QED
    BY <2>2, <2>3
<1>9. Delivers
  <2>1. Reported => e = last
    BY <1>5
  <2>2. Reported => owed = [sent |-> TRUE, data |-> tx_data]
    BY <1>6, <1>7, <2>1
  <2> QED
    BY <1>1, <1>5, <2>1, <2>2 DEF Delivers
<1>10. SampleTime(0)' = SampleTime(0) /\ last' = last
  BY DEF SampleTime
<1>11. CASE tx_busy'
  <2>1. SinceStart' = e + 1 /\ LineFollows'
    BY <1>3, <1>4, <1>11
  <2>2. ReceiverFollows'
    BY <1>3, <1>5, <2>1 DEF ReceiverFollows, SampleTime
  <2>3. OwedUntilStop'
    BY <1>3, <1>8, <2>1 DEF OwedUntilStop, SampleTime, Nothing
  <2>4. ByteOnLine'
    <3>1. Settled' = Settled /\ FrameBits' = FrameBits
      BY DEF Settled, FrameBits
    <3> QED
      BY <1>1, <1>2, <1>3, <1>11, <2>1, <2>2, <2>3, <3>1 DEF ByteOnLine
  <2> QED
    BY <1>9, <1>11, <2>4 DEF PauseOnLine
<1>12. CASE ~ tx_busy'
  <2>1. e >= last
    <3>1. DataBits + 1 \in 0 .. DataBits + 1
      BY LinkNumbers
    <3> QED
      BY <1>2, <1>3, <1>12, <3>1, SampledBit DEF SinceStart
  <2>2. RxRests' /\ owed' = Nothing /\ LineIsHigh'
    BY <1>3, <1>4, <1>5, <1>6, <1>8, <1>12, <2>1
  <2>3. Settled' = Settled /\ Nothing' = Nothing
    BY DEF Settled, Nothing
  <2> QED
    BY <1>1, <1>2, <1>9, <1>12, <2>2, <2>3 DEF PauseOnLine, ByteOnLine
<1> QED
  BY <1>11, <1>12

(* A byte begins on a line that has been high.                               *)
LEMMA StartStep ==
    ASSUME LinkInv, PauseOnLine, SendByte
    PROVE  ByteOnLine' /\ PauseOnLine' /\ Delivers
<1>1. PICK data \in Byte : UartTxClock(TRUE, data, period') /\ RecordOwed(TRUE, data)
  BY DEF SendByte
<1>2. /\ ~ tx_busy /\ calm = Settled /\ period' \in Periods /\ UartRxClock(TxLine)
      /\ calm' = calm /\ glitch' = glitch
  BY DEF SendByte
<1>3. owed = Nothing /\ RxRests /\ LineIsHigh /\ glitch = 0 /\ UartRxTypeOK
  BY <1>2 DEF PauseOnLine, LinkInv, LinkTypeOK
<1>4. RxRests' /\ ~ Reported
  BY <1>2, <1>3, ReceiverMoves DEF LineIsHigh
<1>5. LineIsHigh'
  BY <1>2, <1>3, Zenon DEF UartRxClock, LineIsHigh, TxLine
<1>6. StartTx(TRUE)
  BY <1>2 DEF StartTx
<1>7. tx_busy'
  BY <1>1, <1>6, Zenon DEF UartTxClock
<1>8. /\ tx_data' = data /\ bits_left' = FrameBits /\ ticks_until_shift' = period' - 1
      /\ owed' = [sent |-> TRUE, data |-> data]
  BY <1>1, <1>6 DEF UartTxClock, RecordOwed
<1>0. PICK p \in Periods : period' = p
  BY <1>2
<1>18. p \in Nat /\ p >= 4
  BY LongPeriod
<1>9. FrameBits \in Nat /\ FrameBits >= 1 /\ DataBits \in Nat /\ HalfTicks \in Nat
  BY LinkNumbers
<1>10. BitsSent' = 0 /\ InBit' = 0
  <2>1. bits_left' = FrameBits /\ ticks_until_shift' = p - 1
    BY <1>0, <1>8
  <2>2. BitsSent' = FrameBits - bits_left' /\ InBit' = p - 1 - ticks_until_shift'
    BY <1>0 DEF BitsSent, InBit, FrameBits
  <2>3. BitsSent' = FrameBits - FrameBits /\ InBit' = (p - 1) - (p - 1)
    BY <2>1, <2>2
  <2> QED
    BY <1>9, <1>18, <2>3
<1>11. SinceStart' = 0
  <2>1. SinceStart' = ClocksOf(BitsSent', p, InBit')
    BY <1>0 DEF SinceStart, ClocksOf
  <2>2. 0 \in 0 .. DataBits + 1 /\ 0 \in 0 .. p - 1
    BY <1>9, <1>18
  <2>3. ClocksOf(0, p, 0) = 0
    BY <2>2, SampledBit
  <2> QED
    BY <1>10, <2>1, <2>3
<1>12. LineFollows'
  <2>1. BitsSent' - 1 = -1
    BY <1>10
  <2>2. BitOnLine(BitsSent - 1)'
    BY <2>1 DEF BitOnLine
  <2>3. /\ ~ InBit' >= 1 /\ ~ InBit' >= 2 /\ ~ InBit' >= 3
        /\ InBit' < 1 /\ InBit' < 2 /\ InBit' < 3
    BY <1>10
  <2> QED
    BY <1>5, <2>2, <2>3, Zenon DEF LineFollows, LineIsHigh
<1>13. SampleTime(0) = HalfTicks + 2 /\ SampleTime(DataBits + 1) \in Nat
  BY <1>9, SampleOrder
<1>14. ReceiverFollows'
  <2>1. /\ ~ 0 \in 3 .. SampleTime(0) /\ ~ 0 \in SampleTime(0) + 1 .. SampleTime(DataBits + 1)
        /\ ~ 0 > SampleTime(DataBits + 1)
    BY <1>9, <1>13
  <2> QED
    BY <1>4, <1>11, <2>1 DEF ReceiverFollows, SampleTime
<1>15. OwedUntilStop'
  BY <1>8, <1>11, <1>13 DEF OwedUntilStop, SampleTime
<1>16. ByteOnLine'
  <2>1. bits_left' = FrameBits /\ ticks_until_shift' = p - 1 /\ FrameBits' = FrameBits
    BY <1>0, <1>8 DEF FrameBits
  <2>2. FrameBits \in 1 .. FrameBits /\ p - 1 \in 0 .. p - 1
    BY <1>9, <1>18
  <2>3. bits_left' \in 1 .. FrameBits' /\ ticks_until_shift' \in 0 .. period' - 1
    BY <1>0, <2>1, <2>2
  <2> QED
    BY <1>2, <1>3, <1>12, <1>14, <1>15, <2>3 DEF ByteOnLine, Settled
<1>17. ~ owed.sent
  BY <1>3 DEF Nothing
<1> QED
  BY <1>4, <1>7, <1>16, <1>17 DEF PauseOnLine, Delivers

(* A pause, with or without the end of a glitch, reports nothing.            *)
LEMMA PauseStep ==
    ASSUME LinkInv, PauseOnLine, Pause
    PROVE  ByteOnLine' /\ PauseOnLine' /\ Delivers
<1>1. /\ ~ tx_busy /\ tx_busy' = tx_busy /\ UartRxClock(TRUE) /\ RecordOwed(FALSE, {})
      /\ calm' = (IF calm < Settled THEN calm + 1 ELSE calm) /\ glitch' = 0
  BY DEF Pause, txVars
<1>2. /\ UartRxTypeOK /\ calm \in 0 .. Settled /\ owed = Nothing
  BY <1>1 DEF LinkInv, LinkTypeOK, PauseOnLine
<1>3. /\ HalfTicks \in Nat /\ HalfTicks >= 1 /\ BitTicks \in Nat
      /\ MaxGlitch \in Nat /\ MaxGlitch < HalfTicks /\ Settled = HalfTicks + 4
  BY LinkNumbers
<1>4. sync_stage0' /\ (sync_stage1' <=> sync_stage0) /\ (prev_sync_rx' <=> sync_stage1)
  BY <1>1 DEF UartRxClock
<1>5. Settled' = Settled /\ Nothing' = Nothing
  BY DEF Settled, Nothing
<1>6. ~ Reported => owed' = Nothing
  BY <1>1, <1>2 DEF RecordOwed
<1>7. ~ tx_busy'
  BY <1>1
<1>8. CASE calm = Settled
  <2>1. RxRests /\ LineIsHigh
    BY <1>1, <1>8 DEF PauseOnLine
  <2>2. RxRests' /\ ~ Reported
    BY <1>1, <1>2, <2>1, ReceiverMoves DEF LineIsHigh
  <2>3. LineIsHigh'
    BY <1>4, <2>1 DEF LineIsHigh
  <2>4. calm' = Settled
    BY <1>1, <1>2, <1>3, <1>8
  <2> QED
    BY <1>1, <1>5, <1>6, <1>7, <2>2, <2>3, <2>4 DEF PauseOnLine, ByteOnLine, Delivers
<1>9. CASE calm # Settled
  <2>1. PICK g \in 1 .. MaxGlitch : GlitchOnLine(g)
    BY <1>1, <1>9 DEF PauseOnLine
  <2>2. calm' = calm + 1 /\ calm \in Nat /\ calm < Settled
    BY <1>1, <1>2, <1>3, <1>9
  <2> DEFINE a == g + calm
  <2>3. /\ g \in Nat /\ g >= 1 /\ g < HalfTicks /\ a \in Nat /\ a = g + calm
        /\ g + calm' = a + 1
    BY <1>3, <2>1, <2>2
  <2>4. /\ sync_stage0 <=> calm >= 1
        /\ sync_stage1 <=> (calm >= 2 \/ a < 2)
        /\ prev_sync_rx <=> (calm >= 3 \/ a < 3)
        /\ a <= 2 \/ a > HalfTicks + 2 => RxRests
        /\ a \in 3 .. HalfTicks + 2 =>
              /\ rx_busy /\ validating_start
              /\ ticks_until_sample = HalfTicks + 2 - a
    BY <2>1 DEF GlitchOnLine
  <2> HIDE DEF a
  <2> DEFINE Goal ==
           /\ ~ Reported
           /\ a + 1 <= 2 \/ a + 1 > HalfTicks + 2 => RxRests'
           /\ a + 1 \in 3 .. HalfTicks + 2 =>
                 /\ rx_busy' /\ validating_start'
                 /\ ticks_until_sample' = HalfTicks + 2 - (a + 1)
  <2>5. Goal
    <3>1. CASE a = 2
      <4>1. calm < 2 /\ calm < 3 /\ a < 3 /\ ~ a < 2 /\ ~ calm >= 2
        BY <2>2, <2>3, <3>1
      <4>2. prev_sync_rx /\ ~ sync_stage1
        BY <2>4, <4>1
      <4>3. RxRests
        BY <2>4, <3>1
      <4>4. /\ rx_busy' /\ validating_start' /\ ticks_until_sample' = HalfTicks - 1 /\ ~ Reported
        BY <1>1, <1>2, <4>2, <4>3, ReceiverMoves
      <4> QED
        BY <1>3, <3>1, <4>4
    <3>2. CASE a < 2
      <4>1. ~ (prev_sync_rx /\ ~ sync_stage1) /\ RxRests
        BY <2>3, <2>4, <3>2
      <4>2. RxRests' /\ ~ Reported
        BY <1>1, <1>2, <4>1, ReceiverMoves
      <4> QED
        BY <1>3, <2>3, <3>2, <4>2
    <3>3. CASE a > HalfTicks + 2
      <4>1. calm >= 2
        BY <1>3, <2>2, <2>3, <3>3
      <4>2. ~ (prev_sync_rx /\ ~ sync_stage1) /\ RxRests
        BY <2>4, <3>3, <4>1
      <4>3. RxRests' /\ ~ Reported
        BY <1>1, <1>2, <4>2, ReceiverMoves
      <4> QED
        BY <1>3, <2>3, <3>3, <4>3
    <3>4. CASE a \in 3 .. HalfTicks + 2 /\ a # HalfTicks + 2
      <4>1. rx_busy /\ validating_start /\ ticks_until_sample = HalfTicks + 2 - a
        BY <2>4, <3>4
      <4>2. ticks_until_sample # 0
        BY <1>3, <2>3, <3>4, <4>1
      <4>3. /\ rx_busy' /\ validating_start' /\ ticks_until_sample' = ticks_until_sample - 1
            /\ ~ Reported
        BY <1>1, <1>2, <4>1, <4>2, ReceiverMoves
      <4> QED
        BY <1>3, <2>3, <3>4, <4>1, <4>3
    <3>5. CASE a = HalfTicks + 2
      <4>1. rx_busy /\ validating_start /\ ticks_until_sample = HalfTicks + 2 - a
        BY <1>3, <2>3, <2>4, <3>5
      <4>2. ticks_until_sample = 0 /\ calm >= 2
        BY <1>3, <2>2, <2>3, <3>5, <4>1
      <4>3. sync_stage1
        BY <2>4, <4>2
      <4>4. RxRests' /\ ~ Reported
        BY <1>1, <1>2, <4>1, <4>2, <4>3, ReceiverMoves
      <4> QED
        BY <1>3, <2>3, <3>5, <4>4
    <3> QED
      BY <1>3, <2>3, <3>1, <3>2, <3>3, <3>4, <3>5
  <2>6. CASE calm + 1 = Settled
    <3>1. a + 1 > HalfTicks + 2 /\ calm >= 2
      BY <1>3, <2>2, <2>3, <2>6
    <3>2. RxRests' /\ ~ Reported
      BY <2>5, <3>1
    <3>3. LineIsHigh'
      <4>1. calm >= 1
        BY <3>1, <2>2
      <4> QED
        BY <1>4, <2>4, <3>1, <4>1 DEF LineIsHigh
    <3>4. calm' = Settled
      BY <2>2, <2>6
    <3> QED
      BY <1>1, <1>5, <1>6, <1>7, <3>2, <3>3, <3>4 DEF PauseOnLine, ByteOnLine, Delivers
  <2>7. CASE calm + 1 # Settled
    <3>1. GlitchOnLine(g)'
      <4>1. (sync_stage1' <=> (calm + 1 >= 2 \/ a + 1 < 2)) /\ sync_stage0'
        <5>1. calm + 1 >= 2 <=> calm >= 1
          BY <2>2
        <5>2. ~ a + 1 < 2
          BY <2>2, <2>3
        <5> QED
          BY <1>4, <2>4, <5>1, <5>2
      <4>2. prev_sync_rx' <=> (calm + 1 >= 3 \/ a + 1 < 3)
        <5>1. calm + 1 >= 3 <=> calm >= 2
          BY <2>2
        <5>2. a + 1 < 3 <=> a < 2
          BY <2>3
        <5> QED
          BY <1>4, <2>4, <5>1, <5>2
      <4>3. calm' # 0 /\ calm' >= 1
        BY <2>2
      <4> QED
        BY <1>1, <2>2, <2>3, <2>5, <4>1, <4>2, <4>3 DEF GlitchOnLine
    <3>2. calm' # Settled
      BY <2>2, <2>7
    <3> QED
      BY <1>1, <1>5, <1>6, <1>7, <2>1, <2>5, <3>1, <3>2 DEF PauseOnLine, ByteOnLine, Delivers
  <2> QED
    BY <2>6, <2>7
<1> QED
  BY <1>8, <1>9

(* Nor does a glitch, which is shorter than half a bit.                      *)
LEMMA GlitchStep ==
    ASSUME LinkInv, PauseOnLine, Glitch
    PROVE  ByteOnLine' /\ PauseOnLine' /\ Delivers
<1>1. /\ ~ tx_busy /\ tx_busy' = tx_busy /\ UartRxClock(FALSE) /\ RecordOwed(FALSE, {})
      /\ glitch < MaxGlitch /\ calm \in {0, Settled} /\ (calm = 0 => glitch > 0)
      /\ owed = Nothing /\ calm' = 0 /\ glitch' = glitch + 1
  BY DEF Glitch, txVars
<1>2. UartRxTypeOK /\ glitch \in 0 .. MaxGlitch
  BY DEF LinkInv, LinkTypeOK
<1>3. /\ HalfTicks \in Nat /\ HalfTicks >= 1 /\ BitTicks \in Nat
      /\ MaxGlitch \in Nat /\ MaxGlitch < HalfTicks /\ Settled = HalfTicks + 4
  BY LinkNumbers
<1>4. ~ sync_stage0' /\ (sync_stage1' <=> sync_stage0) /\ (prev_sync_rx' <=> sync_stage1)
  BY <1>1 DEF UartRxClock
<1>5. Settled' = Settled /\ Nothing' = Nothing /\ 0 # Settled
  BY <1>3 DEF Settled, Nothing
<1>6. ~ Reported => owed' = Nothing
  BY <1>1 DEF RecordOwed
<1>7. ~ tx_busy'
  BY <1>1
<1>8. glitch + 1 \in 1 .. MaxGlitch
  BY <1>1, <1>2, <1>3
<1>9. ~ Reported /\ \A g \in 1 .. MaxGlitch : g = glitch + 1 => GlitchOnLine(g)'
  <2>1. CASE calm = Settled
    <3>1. RxRests /\ LineIsHigh /\ glitch = 0
      BY <1>1, <2>1 DEF PauseOnLine
    <3>2. RxRests' /\ ~ Reported
      BY <1>1, <1>2, <3>1, ReceiverMoves DEF LineIsHigh
    <3>3. ~ sync_stage0' /\ sync_stage1' /\ prev_sync_rx'
      BY <1>4, <3>1 DEF LineIsHigh
    <3>4. glitch' = 1 /\ calm' = 0 /\ glitch + 1 = 1
      BY <1>1, <3>1
    <3>5. GlitchOnLine(1)'
      BY <1>3, <3>2, <3>3, <3>4 DEF GlitchOnLine
    <3> QED
      BY <3>2, <3>4, <3>5
  <2>2. CASE calm = 0
    <3>1. PICK g \in 1 .. MaxGlitch : GlitchOnLine(g)
      BY <1>1, <1>5, <2>2 DEF PauseOnLine
    <3>2. g = glitch /\ g \in Nat /\ g >= 1 /\ g < HalfTicks /\ g + calm = g
      BY <1>3, <2>2, <3>1 DEF GlitchOnLine
    <3>3. /\ ~ sync_stage0
          /\ sync_stage1 <=> g < 2
          /\ prev_sync_rx <=> g < 3
          /\ g <= 2 => RxRests
          /\ g \in 3 .. HalfTicks + 2 =>
                rx_busy /\ validating_start /\ ticks_until_sample = HalfTicks + 2 - g
      <4>1. ~ calm >= 1 /\ ~ calm >= 2 /\ ~ calm >= 3
        BY <2>2
      <4> QED
        BY <3>1, <3>2, <4>1 DEF GlitchOnLine
    <3>4. /\ ~ Reported
          /\ g + 1 <= 2 => RxRests'
          /\ g + 1 \in 3 .. HalfTicks + 2 =>
                /\ rx_busy' /\ validating_start'
                /\ ticks_until_sample' = HalfTicks + 2 - (g + 1)
      <4>1. CASE g = 1
        <5>1. RxRests /\ sync_stage1
          BY <3>3, <4>1
        <5>2. RxRests' /\ ~ Reported
          BY <1>1, <1>2, <5>1, ReceiverMoves
        <5> QED
          BY <4>1, <5>2
      <4>2. CASE g = 2
        <5>1. RxRests /\ prev_sync_rx /\ ~ sync_stage1
          BY <3>3, <4>2
        <5>2. rx_busy' /\ validating_start' /\ ticks_until_sample' = HalfTicks - 1 /\ ~ Reported
          BY <1>1, <1>2, <5>1, ReceiverMoves
        <5> QED
          BY <1>3, <4>2, <5>2
      <4>3. CASE g >= 3
        <5>1. rx_busy /\ validating_start /\ ticks_until_sample = HalfTicks + 2 - g
          BY <1>3, <3>2, <3>3, <4>3
        <5>2. ticks_until_sample # 0
          BY <1>3, <3>2, <5>1
        <5>3. /\ rx_busy' /\ validating_start' /\ ticks_until_sample' = ticks_until_sample - 1
              /\ ~ Reported
          BY <1>1, <1>2, <5>1, <5>2, ReceiverMoves
        <5> QED
          BY <1>3, <3>2, <4>3, <5>1, <5>3
      <4> QED
        BY <3>2, <4>1, <4>2, <4>3
    <3>5. /\ sync_stage1' <=> g + 1 < 2
          /\ prev_sync_rx' <=> g + 1 < 3
      <4>1. ~ g + 1 < 2 /\ (g + 1 < 3 <=> g < 2)
        BY <3>2
      <4> QED
        BY <1>4, <3>3, <4>1
    <3>6. ASSUME NEW h \in 1 .. MaxGlitch, h = g + 1
          PROVE  GlitchOnLine(h)'
      <4>1. /\ calm' = 0 /\ glitch' = h /\ h + calm' = h
            /\ ~ calm' >= 1 /\ ~ calm' >= 2 /\ ~ calm' >= 3 /\ ~ h > HalfTicks + 2
        BY <1>1, <1>3, <3>2, <3>6
      <4> QED
        BY <1>4, <3>2, <3>4, <3>5, <3>6, <4>1 DEF GlitchOnLine
    <3> QED
      BY <3>2, <3>4, <3>6
  <2> QED
    BY <1>1, <2>1, <2>2
<1>10. \E g \in 1 .. MaxGlitch : GlitchOnLine(g)'
  BY <1>8, <1>9
<1> QED
  BY <1>1, <1>5, <1>6, <1>7, <1>9, <1>10 DEF PauseOnLine, ByteOnLine, Delivers

(* Nothing is sent at the beginning (the resets of uart_rx and uart_tx).     *)
LEMMA CleanInvInit == LinkInit => CleanInv
<1> SUFFICES ASSUME LinkInit PROVE CleanInv
  OBVIOUS
<1>1. ~ tx_busy /\ calm = Settled /\ glitch = 0 /\ owed = Nothing
  BY DEF LinkInit, UartTxInit
<1>2. RxRests /\ LineIsHigh
  BY DEF LinkInit, UartRxInit, RxRests, LineIsHigh
<1>3. LinkInv
  BY LinkInvInit
<1> QED
  BY <1>1, <1>2, <1>3 DEF CleanInv, ByteOnLine, PauseOnLine

(* Every step keeps the invariant, and on a clean line the promise: the      *)
(* sender begins, goes on or pauses, or there is a glitch.                   *)
LEMMA CleanInvStep ==
    ASSUME CleanInv, [LinkNext]_linkVars
    PROVE  CleanInv' /\ [line_kind = "Clean" => Delivers]_linkVars
<1>1. LinkInv /\ LinkInv'
  BY LinkInvStep DEF CleanInv
<1>2. CASE LinkNext /\ line_kind = "Clean"
  <2>1. ByteOnLine /\ PauseOnLine
    BY <1>2 DEF CleanInv
  <2>2. CASE SendByte
    BY <1>1, <2>1, <2>2, StartStep DEF CleanInv
  <2>3. CASE ContinueByte
    BY <1>1, <2>1, <2>3, ByteStep DEF CleanInv
  <2>4. CASE Pause
    BY <1>1, <2>1, <2>4, PauseStep DEF CleanInv
  <2>5. CASE Glitch
    BY <1>1, <2>1, <2>5, GlitchStep DEF CleanInv
  <2>6. ~ Noise
    BY <1>2 DEF Noise
  <2> QED
    BY <1>2, <2>2, <2>3, <2>4, <2>5, <2>6 DEF LinkNext
<1>3. CASE LinkNext /\ line_kind # "Clean"
  <2>1. line_kind' = line_kind
    BY <1>3 DEF LinkNext, SendByte, ContinueByte, Pause, Glitch, Noise
  <2> QED
    BY <1>1, <1>3, <2>1 DEF CleanInv
<1>4. CASE UNCHANGED linkVars
  <2>1. UNCHANGED <<line_kind, period, calm, glitch, owed>>
        /\ UNCHANGED txVars /\ UNCHANGED rxVars
    BY <1>4 DEF linkVars
  <2>2. (ByteOnLine <=> ByteOnLine') /\ (PauseOnLine <=> PauseOnLine')
    BY <2>1 DEF txVars, rxVars, ByteOnLine, PauseOnLine, GlitchOnLine, LineFollows, ReceiverFollows,
         OwedUntilStop, LineIsHigh, RxRests, SinceStart, ClocksOf, BitsSent, InBit, BitOnLine,
         SampleTime, Settled, Nothing, FrameBits
  <2>3. CleanInv'
    BY <1>1, <2>1, <2>2 DEF CleanInv
  <2> QED
    BY <1>4, <2>3
<1> QED
  BY <1>2, <1>3, <1>4

(* For every width of a byte and every bit time, a sender within the         *)
(* tolerance of the receiver (DriftAssumption) has each of its bytes reported*)
(* once, unchanged, before it can begin the next, and glitches in the pauses *)
(* are not taken for bytes (uart_rx, uart_tx).                               *)
THEOREM Delivered == LinkSpec => DeliveredAsSent
<1>1. ASSUME CleanInv, [LinkNext]_linkVars
      PROVE  [line_kind = "Clean" =>
                 /\ Reported => owed.sent /\ rx_byte_valid' /\ shift' = owed.data
                 /\ (~ tx_busy /\ tx_busy') => ~ owed.sent]_linkVars
  BY <1>1, CleanInvStep DEF Delivers
<1>2. CleanInv /\ [LinkNext]_linkVars => CleanInv'
  BY CleanInvStep
<1> QED
  BY <1>1, <1>2, CleanInvInit, PTL DEF LinkSpec, DeliveredAsSent
=============================================================================

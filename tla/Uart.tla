-------------------------------- MODULE Uart --------------------------------
(* The serial port of the ROM upload: its transmitter (periph/uart_tx) and   *)
(* its receiver (periph/uart_rx).                                            *)
EXTENDS Naturals

-----------------------------------------------------------------------------
(* The transmitter (periph/uart_tx): a start bit, the data bits with the     *)
(* lowest first, a stop bit, each bit_ticks clocks long.  A byte is the set  *)
(* of the positions of its ones.                                             *)

CONSTANT DataBits       \* bits of a byte (8 in the source)

ASSUME DataBitsAssumption == DataBits \in Nat /\ DataBits >= 1

VARIABLES
    tx_data,            \* the byte of frame_reg
    bits_left,          \* bits_left_reg
    ticks_until_shift,  \* ticks_until_shift_reg
    tx_busy             \* busy_reg

txVars == <<tx_data, bits_left, ticks_until_shift, tx_busy>>

Byte == SUBSET (0 .. DataBits - 1)
FrameBits == DataBits + 2

UartTxTypeOK ==
    /\ tx_data \in Byte /\ bits_left \in 0 .. FrameBits
    /\ ticks_until_shift \in Nat /\ tx_busy \in BOOLEAN

UartTxInit == tx_data = {} /\ bits_left = 0 /\ ticks_until_shift = 0 /\ tx_busy = FALSE

(* The bit on the wire: frame_reg shifted FrameBits - bits_left times. *)
TxLine ==
    LET n == FrameBits - bits_left
    IN tx_busy => (n = FrameBits - 1 \/ (n >= 1 /\ n - 1 \in tx_data))

StartTx(start) == start /\ ~ tx_busy
ShiftNow == tx_busy /\ ticks_until_shift = 0

UartTxClock(start, data, bit_ticks) ==
    /\ tx_data' = IF StartTx(start) THEN data ELSE tx_data
    /\ bits_left' = IF StartTx(start) THEN FrameBits
                    ELSE IF ShiftNow THEN bits_left - 1 ELSE bits_left
    /\ ticks_until_shift' =
          IF StartTx(start) \/ (ShiftNow /\ bits_left > 1) THEN bit_ticks - 1
          ELSE IF tx_busy /\ ~ ShiftNow THEN ticks_until_shift - 1 ELSE 0
    /\ tx_busy' = (StartTx(start) \/ (tx_busy /\ ~ (ShiftNow /\ bits_left = 1)))

-----------------------------------------------------------------------------
(* The receiver (periph/uart_rx): a falling edge starts a byte, half a bit   *)
(* later the start bit must still be low, then every bit is sampled once, a  *)
(* bit time after the one before.                                            *)

CONSTANTS
    RxBits,         \* bits of a byte (8 in the source)
    BitTicks,       \* bit_ticks_i (104 on the board)
    HalfTicks       \* half_bit_ticks_i (52)

ASSUME TicksAssumption ==
    /\ RxBits \in Nat /\ RxBits >= 1
    /\ BitTicks \in 1 .. 256 /\ HalfTicks \in 1 .. 256

VARIABLES
    sync_stage0, sync_stage1, prev_sync_rx,     \* the line, 1, 2 and 3 clocks ago
    shift,                                      \* the bits sampled as one
    rx_busy, validating_start, bit_index, ticks_until_sample,
    rx_byte_valid, rx_framing_error

rxVars == <<sync_stage0, sync_stage1, prev_sync_rx, shift, rx_busy, validating_start,
            bit_index, ticks_until_sample, rx_byte_valid, rx_framing_error>>

UartRxTypeOK ==
    /\ sync_stage0 \in BOOLEAN /\ sync_stage1 \in BOOLEAN /\ prev_sync_rx \in BOOLEAN
    /\ shift \subseteq 0 .. RxBits - 1 /\ bit_index \in 0 .. RxBits
    /\ rx_busy \in BOOLEAN /\ validating_start \in BOOLEAN
    /\ ticks_until_sample \in 0 .. 255
    /\ rx_byte_valid \in BOOLEAN /\ rx_framing_error \in BOOLEAN

UartRxInit ==
    /\ sync_stage0 = TRUE /\ sync_stage1 = TRUE /\ prev_sync_rx = TRUE
    /\ shift = {} /\ rx_busy = FALSE /\ validating_start = FALSE
    /\ bit_index = 0 /\ ticks_until_sample = 0
    /\ rx_byte_valid = FALSE /\ rx_framing_error = FALSE

StartDetect == ~ rx_busy /\ prev_sync_rx /\ ~ sync_stage1

(* Plausible defect: a report stays up until the next one.                   *)
HeldPulse == rx_byte_valid' = rx_byte_valid /\ rx_framing_error' = rx_framing_error
NoPulse == rx_byte_valid' = FALSE /\ rx_framing_error' = FALSE

Receive(busy, validating, index, ticks, bits) ==
    /\ rx_busy' = busy /\ validating_start' = validating /\ bit_index' = index
    /\ ticks_until_sample' = ticks /\ shift' = bits

Idle == ~ rx_busy /\ ~ StartDetect /\ Receive(FALSE, FALSE, 0, 0, shift) /\ NoPulse

FirstSample == HalfTicks - 1

Begin == StartDetect /\ Receive(TRUE, TRUE, 0, FirstSample, {}) /\ NoPulse

CountTicks ==
    /\ rx_busy /\ ticks_until_sample # 0
    /\ Receive(TRUE, validating_start, bit_index, ticks_until_sample - 1, shift) /\ NoPulse

SampleNow == rx_busy /\ ticks_until_sample = 0

(* Plausible defect: the start bit is not looked at again.                   *)
StillLowUnchecked == TRUE
StillLow == ~ sync_stage1

ValidateStart ==
    /\ SampleNow /\ validating_start
    /\ Receive(StillLow, FALSE, 0, IF StillLow THEN BitTicks - 1 ELSE 0, shift) /\ NoPulse

(* Plausible defect: one bit too many.                                       *)
MoreBitsPast == bit_index <= RxBits
MoreBits == bit_index < RxBits

SampleBit ==
    /\ SampleNow /\ ~ validating_start /\ MoreBits
    /\ Receive(TRUE, FALSE, bit_index + 1, BitTicks - 1,
               IF sync_stage1 THEN shift \cup {bit_index} ELSE shift \ {bit_index})
    /\ NoPulse

SampleStop ==
    /\ SampleNow /\ ~ validating_start /\ ~ MoreBits
    /\ Receive(FALSE, FALSE, 0, 0, shift)
    /\ rx_byte_valid' = sync_stage1 /\ rx_framing_error' = ~ sync_stage1

UartRxClock(line) ==
    /\ sync_stage0' = line /\ sync_stage1' = sync_stage0 /\ prev_sync_rx' = sync_stage1
    /\ Idle \/ Begin \/ CountTicks \/ ValidateStart \/ SampleBit \/ SampleStop
=============================================================================

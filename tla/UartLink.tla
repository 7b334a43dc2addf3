------------------------------ MODULE UartLink ------------------------------
(* Receiver and line.  On a clean line another transmitter sends, whose bit  *)
(* time is not exactly that of the receiver, and short low pulses disturb    *)
(* the pauses; on a noisy line anything may come.                            *)
EXTENDS Uart

CONSTANTS
    Periods,        \* clocks per bit of the sender (external), chosen per byte
    MaxGlitch       \* bound: clocks of a low pulse in a pause

ASSUME LinkAssumption ==
    /\ RxBits = DataBits /\ Periods \subseteq Nat \ {0}
    /\ MaxGlitch \in Nat /\ MaxGlitch < HalfTicks

(* External: how far the bit time of the sender may be off.  In the middle   *)
(* of its bit k, and two clocks later behind the flip-flops, the receiver    *)
(* must find the sender in bit k.  With the 104 clocks of the board and eight*)
(* bits that is a sender of 100 to 109 clocks per bit.                       *)
ASSUME DriftAssumption ==
    \A p \in Periods : \A k \in 0 .. DataBits + 1 :
        /\ k * p <= HalfTicks + k * BitTicks
        /\ HalfTicks + k * BitTicks + 2 < (k + 1) * p

VARIABLES
    line_kind,      \* "Clean" or "Noisy"
    period,         \* bit time of the byte being sent
    calm,           \* clocks since the last pulse of a glitch, at most Settled
    glitch,         \* length of the present glitch
    owed,           \* history: the byte sent but not yet reported
    since           \* history: clocks since the last report, at most Spacing

linkVars == <<txVars, rxVars, line_kind, period, calm, glitch, owed, since>>

Nothing == [sent |-> FALSE, data |-> {}]

(* After this long a glitch has left the receiver. *)
Settled == HalfTicks + 4
(* From the start of a byte to its report. *)
Spacing == HalfTicks + (RxBits + 1) * BitTicks

LinkTypeOK ==
    /\ UartTxTypeOK /\ UartRxTypeOK
    /\ period \in Periods /\ calm \in 0 .. Settled /\ glitch \in 0 .. MaxGlitch
    /\ owed.data \in Byte /\ since \in 0 .. Spacing

LinkInit ==
    /\ UartTxInit /\ UartRxInit
    /\ line_kind \in {"Clean", "Noisy"} /\ period \in Periods
    /\ calm = Settled /\ glitch = 0 /\ owed = Nothing /\ since = Spacing

Reported == rx_byte_valid' \/ rx_framing_error'
RecordSince == since' = IF Reported THEN 0 ELSE IF since < Spacing THEN since + 1 ELSE since

RecordOwed(start, data) ==
    owed' = IF start THEN [sent |-> TRUE, data |-> data]
            ELSE IF Reported THEN Nothing ELSE owed

(* The sender begins the next byte, right after the last one or later. *)
SendByte ==
    /\ line_kind = "Clean" /\ ~ tx_busy /\ calm = Settled
    /\ period' \in Periods
    /\ \E data \in Byte : UartTxClock(TRUE, data, period') /\ RecordOwed(TRUE, data)
    /\ UartRxClock(TxLine) /\ RecordSince
    /\ UNCHANGED <<line_kind, calm, glitch>>

ContinueByte ==
    /\ line_kind = "Clean" /\ tx_busy
    /\ UartTxClock(FALSE, {}, period)
    /\ UartRxClock(TxLine) /\ RecordOwed(FALSE, {}) /\ RecordSince
    /\ UNCHANGED <<line_kind, period, calm, glitch>>

Pause ==
    /\ line_kind = "Clean" /\ ~ tx_busy
    /\ calm' = (IF calm < Settled THEN calm + 1 ELSE calm) /\ glitch' = 0
    /\ UartRxClock(TRUE) /\ RecordOwed(FALSE, {}) /\ RecordSince
    /\ UNCHANGED <<line_kind, period, txVars>>

Glitch ==
    /\ line_kind = "Clean" /\ ~ tx_busy /\ glitch < MaxGlitch
    /\ calm \in {0, Settled} /\ (calm = 0 => glitch > 0)
    /\ owed = Nothing
    /\ calm' = 0 /\ glitch' = glitch + 1
    /\ UartRxClock(FALSE) /\ RecordOwed(FALSE, {}) /\ RecordSince
    /\ UNCHANGED <<line_kind, period, txVars>>

Noise ==
    /\ line_kind = "Noisy"
    /\ \E line \in BOOLEAN : UartRxClock(line)
    /\ RecordSince
    /\ UNCHANGED <<line_kind, period, calm, glitch, owed, txVars>>

LinkNext == SendByte \/ ContinueByte \/ Pause \/ Glitch \/ Noise

LinkSpec == LinkInit /\ [][LinkNext]_linkVars
-----------------------------------------------------------------------------
(* Every byte is reported exactly once, unchanged and without a framing      *)
(* error, before the sender can begin the next one, and a glitch is never    *)
(* taken for a byte: the sampling points of the receiver stay inside the     *)
(* bits of a sender that is a little slow or fast (uart_rx).                 *)
DeliveredAsSent ==
    [][line_kind = "Clean" =>
          /\ Reported => owed.sent /\ rx_byte_valid' /\ shift' = owed.data
          /\ (~ tx_busy /\ tx_busy') => ~ owed.sent]_linkVars

(* Whatever happens on the line, two reports are half a bit and all bits     *)
(* apart; the uploader, with its one staging register, relies on it.         *)
ReportsSpaced == [][Reported => since = Spacing]_linkVars
=============================================================================

------------------------------- MODULE Serial -------------------------------
(* The serial port (periph/serial): a transfer on the internal clock takes   *)
(* eight M-cycles, receives a fixed byte and requests an interrupt.          *)
EXTENDS Naturals

VARIABLES
    sb,             \* sb_reg: "Sent" by the program or "Received"
    sc,             \* sc_reg: which of bit 7 (transfer) and bit 0 (internal clock) is 1
    cycles_left,    \* cycles_left_reg
    serial_irq      \* serial_irq_reg

serialVars == <<sb, sc, cycles_left, serial_irq>>

SerialTypeOK ==
    /\ sb \in {"Sent", "Received"} /\ sc \subseteq {0, 7}
    /\ cycles_left \in 0 .. 8 /\ serial_irq \in BOOLEAN

SerialInit == sb = "Sent" /\ sc = {} /\ cycles_left = 0 /\ serial_irq = FALSE

(* internal_clock_start: bits 7 and 0 together. *)
InternalClock(bits) == {0, 7} \subseteq bits
Starts(write) == write.reg = "SC" /\ InternalClock(write.data)
TransferActive == InternalClock(sc)

(* Plausible defect: a restart does not hold the running transfer back.      *)
ProgressesOnStart(m_ce, write) == m_ce /\ TransferActive
Progresses(m_ce, write) == m_ce /\ TransferActive /\ ~ Starts(write)
Finishes(m_ce, write) == Progresses(m_ce, write) /\ cycles_left = 1

SerialClock(m_ce, write) ==
    /\ sb' = IF write.reg = "SB" THEN "Sent"
             ELSE IF Finishes(m_ce, write) THEN "Received" ELSE sb
    /\ sc' = IF write.reg = "SC" THEN write.data
             ELSE IF Finishes(m_ce, write) THEN sc \ {7} ELSE sc
    /\ cycles_left' = IF Starts(write) THEN 8
                      ELSE IF Progresses(m_ce, write) THEN cycles_left - 1
                      ELSE cycles_left
    /\ serial_irq' = Finishes(m_ce, write)

SerialReset == sb' = "Sent" /\ sc' = {} /\ cycles_left' = 0 /\ serial_irq' = FALSE
=============================================================================

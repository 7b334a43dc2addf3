------------------------------ MODULE RomUpload ------------------------------
(* An upload from end to end: the host program (tools/upload_rom_icebreaker),*)
(* the line, the uploader and its answer (board/icebreaker_uart_rom_top).    *)
(*                                                                           *)
(* The host sends a frame and waits for one byte; the user starts it again   *)
(* until it succeeds, and then perhaps with another ROM.  The line may       *)
(* corrupt or lose a byte or break its stop bit, the host may give up in the *)
(* middle of a frame and the user may press the reset button, MaxFaults      *)
(* times in all.                                                             *)
EXTENDS RomUploader

CONSTANTS
    Roms,           \* the payloads to try
    MinGap,         \* clocks between two reports of the receiver, at least
    TxTime,         \* clocks the answer is on the wire
    MaxFaults       \* bound: number of faults

(* UartLink shows that the receiver spaces its reports by Spacing clocks.    *)
(* Four of them are longer than an answer.                                   *)
ASSUME UploadAssumption ==
    /\ Roms \subseteq Seq(Byte) /\ \A r \in Roms : Len(r) <= MaxLength
    /\ MinGap \in Nat /\ MinGap >= 6
    /\ TxTime \in Nat /\ TxTime >= 1 /\ TxTime <= Len(Magic) * MinGap
    /\ MaxFaults \in Nat

VARIABLES
    t_index,        \* upload_t_index_reg
    tx_left,        \* clocks until the answer is out, 0 if none
    tx_byte,        \* the answer: "A" or "N"
    gap,            \* clocks since the last report, at most MinGap
    rom,            \* the payload the host sends
    host,           \* "Ready", "Sending", "Waiting" or "Ok"
    pos,            \* next byte of the frame
    inbox,          \* the first answer since the port was opened, or "-"
    faults,
    raw,            \* history: the bytes received since the magic word
    trusted,        \* history: no byte lost, no frame cut off, no damage to a header
                    \* or while the receiver looked for a magic word
    hurt            \* history: bytes of this frame corrupted

uploadVars == <<uploaderVars, t_index, tx_left, tx_byte, gap, rom, host, pos, inbox,
                faults, raw, trusted, hurt>>

(* XOR of the bytes of a sequence. *)
XorAll(s) ==
    LET x[i \in 0 .. Len(s)] == IF i = 0 THEN 0 ELSE Xor(x[i - 1], s[i])
    IN x[Len(s)]

(* build_frame. *)
Frame(r) == Magic \o <<Len(r) % ByteMod, Len(r) \div ByteMod>> \o r \o <<XorAll(r)>>
HeaderLength == Len(Magic) + 2

(* A frame holds the magic word at its start only. *)
ASSUME MagicUniqueAssumption ==
    \A r \in Roms : \A i \in 1 .. Len(Frame(r)) - Len(Magic) :
        SubSeq(Frame(r), i + 1, i + Len(Magic)) # Magic

(* No end of the magic word ("ROM!") is a beginning of it. *)
ASSUME MagicBorderlessAssumption ==
    \A k \in 1 .. Len(Magic) - 1 :
        SubSeq(Magic, k + 1, Len(Magic)) # SubSeq(Magic, 1, Len(Magic) - k)

ASSUME XorAssumption ==
    \A x, y, z \in Byte : Xor(x, y) = Xor(y, x) /\ (Xor(x, z) = Xor(y, z) => x = y)

UploadTypeOK ==
    /\ UploaderTypeOK
    /\ t_index \in 0 .. 3 /\ tx_left \in 0 .. TxTime /\ tx_byte \in {"A", "N"}
    /\ gap \in 1 .. MinGap /\ rom \in Roms /\ host \in {"Ready", "Sending", "Waiting", "Ok"}
    /\ pos \in 1 .. Len(Frame(rom)) + 1 /\ inbox \in {"-", "A", "N"}
    /\ faults \in 0 .. MaxFaults

UploadInit ==
    /\ UploaderInit /\ t_index = 0 /\ tx_left = 0 /\ tx_byte = "N" /\ gap = MinGap
    /\ rom \in Roms /\ host = "Ready" /\ pos = 1 /\ inbox = "-" /\ faults = 0
    /\ raw = <<>> /\ trusted = TRUE /\ hurt = 0
-----------------------------------------------------------------------------
(* The board, one clock.                                                     *)

AckStart == StartSuccessAck \/ StartFailAck

(* uart_tx as the time an answer takes; a start while it is busy is dropped. *)
Transmit ==
    /\ tx_left' = IF tx_left > 0 THEN tx_left - 1 ELSE IF AckStart THEN TxTime ELSE 0
    /\ tx_byte' = IF tx_left = 0 /\ AckStart
                  THEN (IF StartSuccessAck THEN "A" ELSE "N") ELSE tx_byte

RecordRaw ==
    raw' = IF MagicMatch THEN <<>>
           ELSE IF Got /\ InProtocol THEN Append(raw, rx.byte) ELSE raw

(* The answer reaches the host; it looks at the first one only. *)
Answer == inbox' = IF tx_left = 1 /\ inbox = "-" THEN tx_byte ELSE inbox

BoardClock(report) ==
    /\ t_index' = (t_index + 1) % 4
    /\ UploaderClock(t_index, FALSE) /\ Transmit /\ RecordRaw /\ Answer
    /\ rx' = report
    /\ gap' = IF report # NoReport THEN 1 ELSE IF gap < MinGap THEN gap + 1 ELSE gap

QuietClock == BoardClock(NoReport) /\ UNCHANGED <<rom, host, pos, faults, trusted, hurt>>

(* The button resets the protocol state, receiver and transmitter. *)
PressReset ==
    /\ faults < MaxFaults /\ faults' = faults + 1
    /\ t_index' = (t_index + 1) % 4
    /\ UploaderClock(t_index, TRUE) /\ RecordRaw
    /\ rx' = NoReport /\ tx_left' = 0
    /\ gap' = IF gap < MinGap THEN gap + 1 ELSE gap
    /\ UNCHANGED <<tx_byte, rom, host, pos, inbox, trusted, hurt>>
-----------------------------------------------------------------------------
(* The host and the line.                                                    *)

HostStart ==
    /\ host = "Ready"
    /\ host' = "Sending" /\ pos' = 1 /\ inbox' = "-" /\ hurt' = 0
    /\ UNCHANGED <<uploaderVars, t_index, tx_left, tx_byte, gap, rom, faults, raw, trusted>>

SendNext ==
    /\ host = "Sending" /\ gap = MinGap
    /\ pos' = pos + 1
    /\ host' = IF pos = Len(Frame(rom)) THEN "Waiting" ELSE "Sending"
    /\ UNCHANGED rom

DeliverByte ==
    /\ SendNext /\ BoardClock(ByteReport(Frame(rom)[pos]))
    /\ UNCHANGED <<faults, trusted, hurt>>

LineFault == SendNext /\ faults < MaxFaults /\ faults' = faults + 1

Hunting == state = "WaitMagic"

BreakStopBit ==
    /\ LineFault /\ BoardClock(FramingError)
    /\ trusted' = (trusted /\ ~ Hunting) /\ UNCHANGED hurt

CorruptByte ==
    /\ LineFault
    /\ \E b \in Byte \ {Frame(rom)[pos]} : BoardClock(ByteReport(b))
    /\ hurt' = hurt + 1
    /\ trusted' = (trusted /\ ~ Hunting /\ pos > HeaderLength /\ hurt = 0)

LoseByte ==
    LineFault /\ BoardClock(NoReport) /\ trusted' = FALSE /\ UNCHANGED hurt

HostRead ==
    /\ host = "Waiting" /\ inbox # "-"
    /\ host' = IF inbox = "A" THEN "Ok" ELSE "Ready"
    /\ UNCHANGED <<uploaderVars, t_index, tx_left, tx_byte, gap, rom, pos, inbox, faults,
                   raw, trusted, hurt>>

(* The user wants to run another ROM. *)
HostSwap ==
    /\ host = "Ok"
    /\ rom' \in Roms /\ host' = "Ready" /\ pos' = 1
    /\ UNCHANGED <<uploaderVars, t_index, tx_left, tx_byte, gap, inbox, faults, raw, trusted,
                   hurt>>

(* The board has had all the time it needs. *)
HostTimeout ==
    /\ host = "Waiting" /\ inbox = "-" /\ tx_left = 0 /\ gap = MinGap
    /\ host' = "Ready"
    /\ UNCHANGED <<uploaderVars, t_index, tx_left, tx_byte, gap, rom, pos, inbox, faults,
                   raw, trusted, hurt>>

(* write_all gives up in the middle of a frame. *)
HostAbort ==
    /\ host = "Sending" /\ faults < MaxFaults /\ faults' = faults + 1
    /\ host' = "Ready" /\ trusted' = (trusted /\ pos = 1)
    /\ UNCHANGED <<uploaderVars, t_index, tx_left, tx_byte, gap, rom, pos, inbox, raw, hurt>>

UploadNext ==
    \/ QuietClock \/ PressReset \/ HostStart \/ DeliverByte \/ BreakStopBit \/ CorruptByte
    \/ LoseByte \/ HostRead \/ HostSwap \/ HostTimeout \/ HostAbort

(* The clock runs, the host program runs, and the user does not give up. *)
UploadSpec ==
    /\ UploadInit /\ [][UploadNext]_uploadVars
    /\ WF_uploadVars(QuietClock) /\ WF_uploadVars(DeliverByte)
    /\ WF_uploadVars(HostStart) /\ WF_uploadVars(HostRead) /\ WF_uploadVars(HostTimeout)
-----------------------------------------------------------------------------
(* The core is released only on what a complete frame has brought, whatever  *)
(* came before: the payload has the announced length and the checksum that   *)
(* was sent, and the memory holds each of its bytes at its place             *)
(* (rom_uploader_core, rom_spram_rw).                                        *)
RunningIsVerified ==
    state = "Running" =>
        LET n == raw[1] + ByteMod * raw[2]
            payload == SubSeq(raw, 3, n + 2)
        IN /\ Len(raw) = n + 3
           /\ XorAll(payload) = raw[n + 3]
           /\ \A i \in 1 .. n : mem[i - 1] = payload[i]

(* The receiver never reports while a byte is still staged or while the      *)
(* machine is about to leave the payload, and no answer starts while another *)
(* is on the wire: one staging register and no queue are enough              *)
(* (payload_overrun, upload_complete, uart_tx).                              *)
NothingDropped ==
    /\ Got => ~ payload_staged \/ state = "WaitMagic"
    /\ Got => ~ UploadComplete
    /\ AckStart => tx_left = 0

(* When the host reports success the board has its image, unless the line    *)
(* lost a byte, a frame was cut off, or the damage hit a header or a frame   *)
(* the receiver was not reading: the length is not covered by the checksum,  *)
(* the receiver has no timeout that would make it look for a new frame, and  *)
(* what is left of a damaged frame may hold a magic word that was not sent   *)
(* (execute_upload, rom_uploader_core).                                      *)
OkMeansLoaded ==
    host = "Ok" /\ trusted => \A i \in 1 .. Len(rom) : mem[i - 1] = rom[i]

(* An upload that is tried again and again ends with a running core,         *)
(* whatever went wrong before: no state of the receiver is a trap.           *)
RetrySucceeds == <>(host = "Ok" \/ state = "Running")

(* The bring-up procedure (docs/hardware/bringup_uart_rom.md): flash once,   *)
(* then swap ROMs with the host program; it times out when the board does    *)
(* not answer.  So without a fault there is always an answer.                *)
SwapIsAnswered == [][faults = 0 => ~ HostTimeout]_uploadVars
=============================================================================

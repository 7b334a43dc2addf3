----------------------------- MODULE RomUploader -----------------------------
(* The protocol machine of the uploader (periph/rom_uploader) and the memory *)
(* it fills.  A frame is the magic word, the length (low byte first), the    *)
(* payload and the XOR of its bytes.                                         *)
(*                                                                           *)
(* One step is one clock.  Only the state has a reset; every other register  *)
(* keeps running through it.                                                 *)
EXTENDS Naturals, Sequences

CONSTANTS
    ByteMod,        \* number of values of a byte (256 in the source)
    Xor(_, _),      \* exclusive or of two bytes
    Magic,          \* magic_word, as a sequence of bytes
    MaxLength       \* bytes of the memory, and the longest payload (32768)

Byte == 0 .. ByteMod - 1
Addr == 0 .. MaxLength - 1

ASSUME UploaderAssumption ==
    /\ ByteMod \in Nat /\ ByteMod >= 2
    /\ MaxLength \in Nat /\ MaxLength >= 1 /\ MaxLength < ByteMod * ByteMod
    /\ Magic \in Seq(Byte) /\ Len(Magic) >= 1
    /\ \A x, y \in Byte : Xor(x, y) \in Byte

VARIABLES
    rx,                     \* what the receiver reports in this clock
    state,                  \* state_reg
    magic_window,           \* magic_window_reg: the last bytes, oldest first
    checksum, bytes_remaining, write_addr, payload_staged, staged_payload,
    mem                     \* the ROM memory

uploaderVars == <<rx, state, magic_window, checksum, bytes_remaining, write_addr,
                  payload_staged, staged_payload, mem>>

(* A byte, a framing error, or nothing. *)
Report == {[kind |-> "None", byte |-> 0], [kind |-> "Error", byte |-> 0]}
             \cup [kind : {"Byte"}, byte : Byte]
NoReport == [kind |-> "None", byte |-> 0]
FramingError == [kind |-> "Error", byte |-> 0]
ByteReport(b) == [kind |-> "Byte", byte |-> b]

(* What the memory holds before it is written; no byte. *)
Undefined == ByteMod

UploadState == {"WaitMagic", "Length0", "Length1", "Payload", "Checksum", "Running"}

UploaderTypeOK ==
    /\ rx \in Report /\ state \in UploadState
    /\ magic_window \in Seq(Byte) /\ Len(magic_window) = Len(Magic)
    /\ checksum \in Byte /\ bytes_remaining \in 0 .. ByteMod * ByteMod - 1
    /\ write_addr \in Addr /\ payload_staged \in BOOLEAN /\ staged_payload \in Byte
    /\ mem \in [Addr -> Byte \cup {Undefined}]

UploaderInit ==
    /\ rx = NoReport /\ state = "WaitMagic"
    /\ magic_window = [i \in 1 .. Len(Magic) |-> 0]
    /\ checksum = 0 /\ bytes_remaining = 0 /\ write_addr = 0
    /\ payload_staged = FALSE /\ staged_payload = 0
    /\ mem = [i \in Addr |-> Undefined]

Got == rx.kind = "Byte"
InProtocol == state \in {"Length0", "Length1", "Payload", "Checksum"}

NextWindow == Append(Tail(magic_window), rx.byte)
MagicMatch == Got /\ state = "WaitMagic" /\ NextWindow = Magic

CandidateLength == rx.byte * ByteMod + (bytes_remaining % ByteMod)
OversizeLength == state = "Length1" /\ Got /\ CandidateLength > MaxLength

(* The staged byte is written in the third clock of the M-cycle. *)
WriteSlot(t_index) == state = "Payload" /\ payload_staged /\ t_index = 2
StageNow == state = "Payload" /\ ~ payload_staged /\ Got
Overrun == state = "Payload" /\ payload_staged /\ Got

(* Plausible defect: any byte is taken for the checksum.                     *)
ChecksumUnchecked == state = "Checksum" /\ Got
ChecksumMatch == state = "Checksum" /\ Got /\ rx.byte = checksum

StartFailAck ==
    \/ rx.kind = "Error" /\ InProtocol
    \/ Overrun \/ OversizeLength
    \/ state = "Checksum" /\ Got /\ ~ ChecksumMatch
StartSuccessAck == ChecksumMatch

(* Plausible defect: the last byte still staged counts as written.           *)
UploadCompleteEarly == state = "Payload" /\ bytes_remaining <= 1 /\ payload_staged
(* Plausible defect: the end of the payload is noticed with the next byte.   *)
UploadCompleteLate == state = "Payload" /\ bytes_remaining = 0 /\ Got
UploadComplete == state = "Payload" /\ bytes_remaining = 0 /\ ~ payload_staged

NextState ==
    IF StartSuccessAck THEN "Running"
    ELSE IF StartFailAck THEN "WaitMagic"
    ELSE IF MagicMatch THEN "Length0"
    ELSE IF state = "Length0" /\ Got THEN "Length1"
    ELSE IF state = "Length1" /\ Got
         THEN (IF CandidateLength = 0 THEN "Checksum" ELSE "Payload")
    ELSE IF UploadComplete THEN "Checksum"
    ELSE state

NextRemaining(t_index) ==
    IF MagicMatch THEN 0
    ELSE IF state = "Length0" /\ Got THEN rx.byte
    ELSE IF state = "Length1" /\ Got THEN CandidateLength
    ELSE IF WriteSlot(t_index) THEN (bytes_remaining + ByteMod * ByteMod - 1) % (ByteMod * ByteMod)
    ELSE bytes_remaining

NextStaged(t_index) ==
    IF MagicMatch \/ StartFailAck \/ StartSuccessAck THEN FALSE
    ELSE StageNow \/ (payload_staged /\ ~ WriteSlot(t_index))

(* Plausible defect: the address of the last upload is kept.                 *)
KeptAddr == write_addr
FirstAddr == 0

(* Plausible defect: the address does not wrap at the end of the memory.     *)
AddrPastEnd == write_addr + 1
AddrAfter == (write_addr + 1) % MaxLength

UploaderClock(t_index, rst) ==
    /\ state' = IF rst THEN "WaitMagic" ELSE NextState
    /\ magic_window' = IF Got /\ state = "WaitMagic" THEN NextWindow ELSE magic_window
    /\ checksum' = IF MagicMatch THEN 0
                   ELSE IF WriteSlot(t_index) THEN Xor(checksum, staged_payload) ELSE checksum
    /\ bytes_remaining' = NextRemaining(t_index)
    /\ write_addr' = IF MagicMatch THEN FirstAddr
                     ELSE IF WriteSlot(t_index) THEN AddrAfter
                     ELSE write_addr
    /\ payload_staged' = NextStaged(t_index)
    /\ staged_payload' = IF StageNow THEN rx.byte ELSE staged_payload
    /\ mem' = IF WriteSlot(t_index) THEN [mem EXCEPT ![write_addr] = staged_payload] ELSE mem
=============================================================================

--------------------------------- MODULE Lcd ---------------------------------
(* The display controller (periph/st7789_lcd): it resets and initialises the *)
(* panel, then sends one frame for each frame start, a byte at a time over   *)
(* SPI, two bytes for each pixel.                                            *)
(*                                                                           *)
(* A command is its index; commands differ only in the number of data bytes  *)
(* and in whether a delay follows.  The transmitter is the number of half    *)
(* bit times a byte has been on the wire, 0 when idle.                       *)
EXTENDS Naturals, Sequences

CONSTANTS
    FramePixels,        \* pixels of a frame (23040 in the source)
    TxHalves,           \* half bit times per byte (16)
    InitData,           \* data bytes of each initialisation command
    FrameData,          \* data bytes of each frame command; the last one keeps CS
    SleepOut,           \* the initialisation command that is followed by a delay
    Ticks               \* length of a delay

ASSUME LcdAssumption ==
    /\ FramePixels \in Nat /\ FramePixels >= 1 /\ TxHalves \in Nat /\ TxHalves >= 1
    /\ InitData \in Seq(Nat) /\ Len(InitData) >= 1
    /\ FrameData \in Seq(Nat) /\ Len(FrameData) >= 1
    /\ SleepOut \in 1 .. Len(InitData) /\ Ticks \in Nat /\ Ticks >= 1

VARIABLES
    state, delay_counter, command_index, data_index, sending_data, cs_asserted,
    pixel_word,                             \* index of the latched pixel
    pixel_word_pending, pixel_high_sent, pixel_count,
    tx                                      \* tx_bit_reg and tx_half_reg

lcdVars == <<state, delay_counter, command_index, data_index, sending_data, cs_asserted,
             pixel_word, pixel_word_pending, pixel_high_sent, pixel_count, tx>>
pixelVars == <<pixel_word, pixel_word_pending, pixel_high_sent, pixel_count>>

State == {"ResetPulse", "PostResetDelay", "InitGap", "InitSend", "InitDelay",
          "WaitFrame", "FrameGap", "FrameSend", "PixelStream"}

LcdTypeOK ==
    /\ state \in State /\ delay_counter \in 0 .. Ticks - 1
    /\ command_index \in 1 .. (IF state \in {"FrameGap", "FrameSend", "PixelStream"}
                               THEN Len(FrameData)
                               ELSE Len(InitData) + Len(FrameData))
    /\ data_index \in Nat /\ sending_data \in BOOLEAN /\ cs_asserted \in BOOLEAN
    /\ pixel_word \in 0 .. FramePixels - 1 /\ pixel_count \in 0 .. FramePixels
    /\ pixel_word_pending \in BOOLEAN /\ pixel_high_sent \in BOOLEAN
    /\ tx \in 0 .. TxHalves

LcdInit ==
    /\ state = "ResetPulse" /\ delay_counter = 0 /\ command_index = 1 /\ data_index = 0
    /\ sending_data = FALSE /\ cs_asserted = FALSE
    /\ pixel_word = 0 /\ pixel_word_pending = FALSE /\ pixel_high_sent = FALSE
    /\ pixel_count = 0 /\ tx = 0

InitDone == state \in {"WaitFrame", "FrameGap", "FrameSend", "PixelStream"}

(* spi_step. *)
TxDone == tx = TxHalves
Transmit(load) ==
    tx' = IF tx = 0 THEN (IF load THEN 1 ELSE 0) ELSE IF TxDone THEN 0 ELSE tx + 1

DelayOver == delay_counter + 1 >= Ticks
CountDelay == delay_counter' = IF DelayOver THEN 0 ELSE delay_counter + 1

(* The delays of the reset pulse and after it. *)
Delay(from, to) ==
    /\ state = from /\ state' = IF DelayOver THEN to ELSE from
    /\ CountDelay /\ Transmit(FALSE) /\ cs_asserted' = FALSE
    /\ UNCHANGED <<command_index, data_index, sending_data, pixelVars>>

ResetPulse == Delay("ResetPulse", "PostResetDelay")
PostResetDelay == Delay("PostResetDelay", "InitGap")

(* Chip select is released between two commands. *)
Gap(from, to) ==
    /\ state = from /\ state' = IF tx = 0 THEN to ELSE from
    /\ data_index' = 0 /\ cs_asserted' = FALSE
    /\ delay_counter' = 0 /\ Transmit(FALSE)
    /\ UNCHANGED <<command_index, sending_data, pixelVars>>

InitGap == Gap("InitGap", "InitSend")
FrameGap == Gap("FrameGap", "FrameSend")

(* One clock of a command and its data bytes.  When its last byte is done    *)
(* the machine goes on as last says.                                         *)
Send(from, bytes, last) ==
    LET more == IF sending_data THEN data_index + 1 < bytes[command_index]
                ELSE bytes[command_index] # 0
    IN /\ state = from
       /\ delay_counter' = 0
       /\ Transmit(TRUE)
       /\ UNCHANGED pixelVars
       /\ IF ~ TxDone
          THEN /\ cs_asserted' = TRUE
               /\ UNCHANGED <<state, command_index, data_index, sending_data>>
          ELSE /\ sending_data' = more
               /\ data_index' = IF sending_data /\ more THEN data_index + 1 ELSE 0
               /\ IF more THEN cs_asserted' = TRUE /\ UNCHANGED <<state, command_index>>
                  ELSE last

(* The next initialisation command, or the wait for the first frame. *)
NextInit ==
    IF command_index < Len(InitData)
    THEN state' = "InitGap" /\ command_index' = command_index + 1
    ELSE state' = "WaitFrame" /\ UNCHANGED command_index

InitSend ==
    Send("InitSend", InitData,
         /\ cs_asserted' = FALSE
         /\ IF command_index = SleepOut THEN state' = "InitDelay" /\ UNCHANGED command_index
            ELSE NextInit)

InitDelay ==
    /\ state = "InitDelay"
    /\ CountDelay /\ Transmit(FALSE) /\ cs_asserted' = FALSE
    /\ IF DelayOver THEN NextInit ELSE UNCHANGED <<state, command_index>>
    /\ UNCHANGED <<data_index, sending_data, pixelVars>>

WaitFrame(frame_start) ==
    /\ state = "WaitFrame"
    /\ delay_counter' = 0 /\ Transmit(FALSE) /\ cs_asserted' = FALSE
    /\ IF frame_start
       THEN /\ state' = "FrameGap" /\ command_index' = 1 /\ data_index' = 0
            /\ sending_data' = FALSE /\ pixel_count' = 0
       ELSE UNCHANGED <<state, command_index, data_index, sending_data, pixel_count>>
    /\ UNCHANGED <<pixel_word, pixel_word_pending, pixel_high_sent>>

(* frame_command_keeps_cs: the memory write is followed by the pixels. *)
KeepsCs(command) == command = Len(FrameData)

FrameSend ==
    Send("FrameSend", FrameData,
         /\ cs_asserted' = KeepsCs(command_index)
         /\ IF command_index = Len(FrameData)
            THEN state' = "PixelStream" /\ UNCHANGED command_index
            ELSE state' = "FrameGap" /\ command_index' = command_index + 1)

(* will_latch_pixel, which is also pixel_advance to the framebuffer. *)
WillLatch(pixel_valid) ==
    /\ state = "PixelStream" /\ tx = 0 /\ ~ pixel_word_pending
    /\ pixel_count < FramePixels /\ pixel_valid

(* Plausible defect: the frame never counts as complete.                     *)
FrameCompleteNever == FALSE
FrameComplete ==
    TxDone /\ pixel_word_pending /\ pixel_high_sent /\ pixel_count = FramePixels

PixelStream(pixel_valid, pixel_shade) ==
    LET latch == WillLatch(pixel_valid)
        sent == TxDone /\ pixel_word_pending
    IN /\ state = "PixelStream"
       /\ state' = IF FrameComplete THEN "WaitFrame" ELSE state
       /\ cs_asserted' = ~ FrameComplete
       /\ pixel_word' = IF latch THEN pixel_shade ELSE pixel_word
       /\ pixel_count' = IF latch THEN pixel_count + 1 ELSE pixel_count
       /\ pixel_word_pending' = (latch \/ (pixel_word_pending /\ ~ (sent /\ pixel_high_sent)))
       /\ pixel_high_sent' = (~ latch /\ (IF sent THEN ~ pixel_high_sent ELSE pixel_high_sent))
       /\ delay_counter' = 0
       /\ Transmit(pixel_word_pending)
       /\ UNCHANGED <<command_index, data_index, sending_data>>

LcdClock(frame_start, pixel_valid, pixel_shade) ==
    \/ ResetPulse \/ PostResetDelay \/ InitGap \/ InitSend \/ InitDelay
    \/ WaitFrame(frame_start) \/ FrameGap \/ FrameSend
    \/ PixelStream(pixel_valid, pixel_shade)
=============================================================================

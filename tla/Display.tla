------------------------------- MODULE Display -------------------------------
(* The display path of the boards (board/icebreaker_visible_top and          *)
(* icebreaker_uart_rom_top): picture unit, framebuffer and display           *)
(* controller on one clock.  Neither part is ever reset.                     *)
EXTENDS Framebuffer, Lcd

(* framebuffer_total_pixels and the controller's total_pixels are one number.*)
ASSUME DisplayAssumption == TotalPixels = FramePixels

VARIABLE heartbeat      \* led_heartbeat: toggles with each accepted frame start

displayVars == <<reader_active, next_read_addr, read_pending, pixel_valid, pixel_shade,
                 state, delay_counter, command_index, data_index, sending_data,
                 cs_asserted, pixel_word, pixel_word_pending, pixel_high_sent,
                 pixel_count, tx, heartbeat>>

DisplayInit == FramebufferInit /\ LcdInit /\ heartbeat = FALSE

(* scanout_when_ready: the framebuffer sees nothing before the panel is up. *)
Seen(ev) == IF InitDone THEN ev ELSE "None"

Clock(ev) ==
    /\ FramebufferClock(Seen(ev), WillLatch(pixel_valid))
    /\ LcdClock(FrameStartAccept(Seen(ev)), pixel_valid, pixel_shade)
    /\ heartbeat' = IF FrameStartAccept(Seen(ev)) THEN ~ heartbeat ELSE heartbeat

DisplayNext == \E ev \in Scanout : Clock(ev)

(* The picture unit leaves clocks without a pixel in every line and starts   *)
(* a frame again and again.                                                  *)
DisplaySpec ==
    /\ DisplayInit /\ [][DisplayNext]_displayVars
    /\ WF_displayVars(Clock("None")) /\ WF_displayVars(Clock("FrameStart"))
-----------------------------------------------------------------------------
DisplayTypeOK == FramebufferTypeOK /\ LcdTypeOK /\ heartbeat \in BOOLEAN

(* Each frame sends every pixel exactly once and in order, however the       *)
(* writes of the picture unit delay the reader: the pixel latched as the     *)
(* n-th is the n-th of the framebuffer (read_issue, will_latch_pixel).       *)
PixelsInOrder ==
    state = "PixelStream" /\ pixel_word_pending => pixel_word = pixel_count - 1

(* The reader and the controller agree on how far the frame is, so a frame   *)
(* that has begun is sent to its end: neither waits for a pixel the other    *)
(* does not have.                                                            *)
FramesEnd == state = "FrameGap" ~> state = "WaitFrame"

(* The heartbeat LED keeps toggling while the picture unit delivers frames   *)
(* (docs/hardware/bringup_joypad_smoke.md).                                  *)
HeartbeatGoesOn == []<>heartbeat /\ []<>~ heartbeat
=============================================================================

----------------------------- MODULE Framebuffer -----------------------------
(* The reader of the single framebuffer (video/framebuffer_spram): from an   *)
(* accepted frame start it fetches one pixel after the other and holds each  *)
(* until the display takes it.  Writes of the picture unit have priority on  *)
(* the memory port.  A pixel is its index in the frame.                      *)
EXTENDS Naturals

CONSTANT TotalPixels        \* pixels of a frame (23040 in the source)

ASSUME TotalPixelsAssumption == TotalPixels \in Nat /\ TotalPixels >= 1

VARIABLES
    reader_active, next_read_addr, read_pending,
    pixel_valid, pixel_shade        \* the held pixel, and its index

fbVars == <<reader_active, next_read_addr, read_pending, pixel_valid, pixel_shade>>

(* What the picture unit does in a clock. *)
Scanout == {"None", "FrameStart", "Pixel"}

FramebufferTypeOK ==
    /\ reader_active \in BOOLEAN /\ read_pending \in BOOLEAN /\ pixel_valid \in BOOLEAN
    /\ next_read_addr \in 0 .. TotalPixels /\ pixel_shade \in 0 .. TotalPixels - 1

FramebufferInit ==
    /\ reader_active = FALSE /\ next_read_addr = 0 /\ read_pending = FALSE
    /\ pixel_valid = FALSE /\ pixel_shade = 0

FrameStartAccept(ev) == ev = "FrameStart" /\ ~ reader_active

SeededAddr(ev) == IF FrameStartAccept(ev) THEN 0 ELSE next_read_addr

(* Plausible defect: a new pixel is fetched while one is still held.         *)
ReadIssueAhead(ev) ==
    /\ reader_active \/ FrameStartAccept(ev)
    /\ ev # "Pixel" /\ ~ read_pending /\ SeededAddr(ev) < TotalPixels
(* The port is free, and the previous pixel has been taken. *)
ReadIssue(ev) ==
    /\ reader_active \/ FrameStartAccept(ev)
    /\ ev # "Pixel" /\ ~ pixel_valid /\ ~ read_pending
    /\ SeededAddr(ev) < TotalPixels

(* Plausible defect: one address too many.                                   *)
AdvanceAddrPast(ev) == SeededAddr(ev) + 2
AdvanceAddr(ev) == SeededAddr(ev) + 1

FramebufferClock(ev, advance) ==
    LET consume == pixel_valid /\ advance IN
    /\ read_pending' = ReadIssue(ev)
    /\ next_read_addr' = IF ReadIssue(ev) THEN AdvanceAddr(ev) ELSE SeededAddr(ev)
    /\ pixel_valid' = (read_pending \/ (pixel_valid /\ ~ consume /\ ~ FrameStartAccept(ev)))
    /\ pixel_shade' = IF read_pending THEN next_read_addr - 1 ELSE pixel_shade
    /\ reader_active' =
          (FrameStartAccept(ev) \/
             (reader_active /\ ~ (consume /\ SeededAddr(ev) = TotalPixels)))
=============================================================================

------------------------------- MODULE Joypad -------------------------------
(* The joypad port (periph/joypad): two groups of keys share four input      *)
(* lines; a line that goes low requests an interrupt.                        *)
EXTENDS Naturals

CONSTANT Keys       \* the keys in use: pairs of a group and a line

Group == {"Action", "Dpad"}
ASSUME KeysAssumption == Keys \subseteq Group \X (0 .. 3)

VARIABLES
    select_reg,     \* select_reg: the groups switched to the lines
    prev_pressed,   \* prev_pressed_reg: the lines that were low
    joypad_irq      \* joypad_irq_reg

joypadVars == <<select_reg, prev_pressed, joypad_irq>>

JoypadTypeOK ==
    select_reg \subseteq Group /\ prev_pressed \subseteq 0 .. 3 /\ joypad_irq \in BOOLEAN

(* The select bits are active low and reset to 0: both groups. *)
JoypadInit == select_reg = Group /\ prev_pressed = {} /\ joypad_irq = FALSE

PressedLines(groups, keys) == {k[2] : k \in {x \in keys : x[1] \in groups}}

NextSelect(write) == IF write.reg = "P1" THEN write.data ELSE select_reg

JoypadClock(write, keys) ==
    LET pressed == PressedLines(NextSelect(write), keys) IN
    /\ select_reg' = NextSelect(write)
    /\ prev_pressed' = pressed
    /\ joypad_irq' = (pressed \ prev_pressed # {})

JoypadReset == select_reg' = Group /\ prev_pressed' = {} /\ joypad_irq' = FALSE
=============================================================================

------------------------------ MODULE MCLights ------------------------------
(* Constants of Lights for TLC: light states that reach both *)
(* fix-ups of the attention light, an opaque black that is not lit, and    *)
(* two lit configurations that differ in every file of the LED.            *)
EXTENDS Lights, TLC

Argb(a, r, g, b) ==
    [ch \in Channels \cup {"alpha"} |->
        CASE ch = "alpha" -> a [] ch = "red" -> r [] ch = "green" -> g [] ch = "blue" -> b]

State(color, mode, on, off) ==
    [color |-> color, flashMode |-> mode, flashOnMS |-> on, flashOffMS |-> off]

Black == State(Argb(255, 0, 0, 0), "LIGHT_FLASH_NONE", 0, 0)
Steady == State(Argb(255, 255, 128, 64), "LIGHT_FLASH_NONE", 7, 7)
Dimmed == State(Argb(255, 255, 255, 255), "LIGHT_FLASH_HARDWARE", 3, 0)
Green == State(Argb(255, 0, 255, 0), "LIGHT_FLASH_NONE", 0, 0)
Blinking == State(Argb(0, 0, 0, 1), "LIGHT_FLASH_TIMED", 500, 250)

PlainStates == {Black, Green}
FewStates == {Black, Blinking}
ThreeStates == {Black, Steady, Dimmed}
LedNames == {"battery", "notifications", "attention"}
LedAndBacklight == {"notifications", "backlight", "keyboard"}
OuterLeds == {"battery", "attention"}

(* The threads are interchangeable: sound for the invariants. *)
ThreadSymmetry == Permutations(Threads)
=============================================================================

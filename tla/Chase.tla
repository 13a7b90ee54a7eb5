------------------------------- MODULE Chase --------------------------------
(***************************************************************************)
(* What the LED chase promises: one lit LED walks round the pins.          *)
(***************************************************************************)
EXTENDS Naturals

CONSTANT Leds   \* how many LEDs there are

VARIABLES lit,  \* the LEDs that are on
          at    \* the one that is on, or the next to be

chase == <<lit, at>>

Init == lit = {} /\ at = 0
On  == lit = {} /\ lit' = {at} /\ UNCHANGED at
Off == lit = {at} /\ lit' = {} /\ at' = (at + 1) % Leds
\* A reset of the board.
Restart == lit' = {} /\ at' = 0

Next == On \/ Off \/ Restart
Spec == Init /\ [][Next]_chase
=============================================================================

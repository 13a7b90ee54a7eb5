----------------------------- MODULE MCLedBlink -----------------------------
(* LedBlink with four pins, a period of three ticks and a prescaler that    *)
(* divides by two or four.                                                  *)
EXTENDS LedBlink

MCPins == 0..3
=============================================================================

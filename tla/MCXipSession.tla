---------------------------- MODULE MCXipSession ----------------------------
(* XipSession with bytes of two bits, one address byte and words of two     *)
(* bytes.                                                                   *)
EXTENDS XipSession

LsbModes == {<<cpol, 0, 1, 1>> : cpol \in 0..1}
MsbModes == {<<cpol, 0, 0, d>> : cpol \in 0..1, d \in 0..1}
AllModes == LsbModes \cup MsbModes
MsbMode0 == {<<0, 0, 0, 1>>}
\* Modes in which runs end in a counterexample.
Troubles == MsbMode0 \cup {<<0, 1, 0, 1>>}
\* The address the program writes, another word, and the former seen
\* through another window.
MCPCs == {{}, {1}, {2}}
=============================================================================

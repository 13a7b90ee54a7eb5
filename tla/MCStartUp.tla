----------------------------- MODULE MCStartUp ------------------------------
(* StartUp with five words of RAM, every word of the peripherals' windows    *)
(* and the words at the edges of every other window.                        *)
EXTENDS StartUp

Edges == {0, \h00008000, \h00FFFFFC, \h01000000, \h01FFFFFC, \h02000000, \h02FFFFFC,
          \h03000000, \h03FFFFFC, \h04FFFFFC, \h05000000, \h7FFFFFFC}
Windows == {\h04000000 + 4 * i : i \in 0..271}
MCStrays == Edges \cup Windows
=============================================================================

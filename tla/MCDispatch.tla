----------------------------- MODULE MCDispatch -----------------------------
(* Dispatch with one pin and a counter of four values.                      *)
EXTENDS Dispatch

MCPins == {0}
MCPrograms == {[weak |-> FALSE, sources |-> TINYMCU_MIE.MTIE \cup TINYMCU_MIE.MEIE],
               [weak |-> TRUE,  sources |-> TINYMCU_MIE.MTIE],
               [weak |-> TRUE,  sources |-> {}]}
=============================================================================

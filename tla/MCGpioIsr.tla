----------------------------- MODULE MCGpioIsr ------------------------------
(* GpioIsr with its four pins and the programs of the runs.                 *)
EXTENDS GpioIsr

MCPins == 0..3

ByInterrupt == [poll |-> FALSE, debounce |-> 0, clearAll |-> TRUE]
ByPolling   == [poll |-> TRUE, debounce |-> 0, clearAll |-> FALSE]
Filtering   == [ByPolling EXCEPT !.debounce = 2]
Watching    == {ByInterrupt, ByPolling, Filtering}

ClearsOne    == {[ByInterrupt EXCEPT !.clearAll = FALSE]}
=============================================================================

----------------------------- MODULE MCTrapStub -----------------------------
(* TrapStub with the registers of the stub and two words of the program's   *)
(* stack.                                                                   *)
EXTENDS TrapStub

MCSaved == <<"ra", "t0", "t1", "t2", "t3", "t4", "t5", "t6",
             "a0", "a1", "a2", "a3", "a4", "a5", "a6", "a7">>
=============================================================================

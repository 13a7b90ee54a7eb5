-------------------------- MODULE TinyISAImprecise --------------------------
(***************************************************************************)
(* TinyISA with the interrupts the pipeline really takes.  The instruction *)
(* stream is the one of TinyISA; what a trap does to it is weaker: the     *)
(* instruction mepc names may have executed already, mepc may name a       *)
(* fetch that was squashed, and a trap may be recorded without the jump to *)
(* its handler.                                                            *)
(***************************************************************************)
EXTENDS TinyISA

Interrupted == MIE(csr["mstatus"]) /\ Pending(csr, irq) # {}
Handler == Vector(csr["mtvec"], Priority(Pending(csr, irq)))

\* mepc is the address of an instruction that completes with the trap.
TrapRepeats == /\ Interrupted
               /\ pc' = Handler
               /\ csr' = CsrTrap(csr, irq, pc)
               /\ x' = RegsAfter /\ mem' = MemAfter
               /\ dev' \in DevMoves(DevAfter)

\* mepc is an address the program never reached.
TrapStrays == /\ Interrupted
              /\ pc' = Handler
              /\ \E a \in Word : csr' = CsrTrap(csr, irq, a)
              /\ dev' \in DevMoves(dev)
              /\ UNCHANGED <<x, mem>>

\* The trap disables interrupts and execution carries on behind it.
TrapLost == /\ Interrupted
            /\ \E a \in Word : csr' = CsrTrap(csr, irq, a)
            /\ \/ /\ pc' = PcAfter /\ x' = RegsAfter /\ mem' = MemAfter
                  /\ dev' \in DevMoves(DevAfter)
               \/ dev' \in DevMoves(dev) /\ UNCHANGED <<pc, x, mem>>

ImpreciseNext ==
  /\ irq' \in SUBSET Lines
  /\ Execute \/ TrapRepeats \/ TrapStrays \/ TrapLost \/ Reset \/ Wait

ImpreciseSpec == Init /\ [][ImpreciseNext]_vars
=============================================================================

------------------------------ MODULE TinyISA ------------------------------
(***************************************************************************)
(* What TinyMCU promises the programmer: instructions execute one at a     *)
(* time, each in a single step, in the order the program counter gives; an *)
(* interrupt is taken between two instructions and mepc names the one that *)
(* was not executed.  TinyCpu is meant to implement this module.           *)
(***************************************************************************)
EXTENDS TinyMachine

VARIABLES
  pc,   \* address of the next instruction
  x,    \* integer registers
  mem,  \* ROM, RAM, RAM disk and flash
  csr,  \* control and status registers
  dev,  \* peripherals
  irq   \* interrupt lines that are high

vars == <<pc, x, mem, csr, dev, irq>>

\* The instruction pc names: a word of one of the memories, or of the flash.
Instruction == MemRead(mem, FetchTarget(pc), pc)

w == Instruction
Addr == Alu(w, pc, x)

\* Word the bus returns for a load, an address nothing decodes reads zero.
BusWord == CASE DataTarget(Addr) \in Mems    -> MemRead(mem, DataTarget(Addr), Addr)
             [] DataTarget(Addr) = "periph"  -> DevRead(dev, Addr)
             [] OTHER                        -> Zero

RdValue == CASE Class(w) = "load" -> LoadData(w, Addr, BusWord)
             [] Class(w) = "csr"  -> CsrRead(csr, irq, w)
             [] Class(w) = "mul"  -> MulResult(w, x)
             [] Class(w) = "div"  -> DivResult(w, x)
             [] OTHER             -> Addr

\* State after the instruction, register by register.
RegsAfter == IF Class(w) \in {"alu", "mul", "div", "load", "jump", "csr"}
             THEN WriteRd(w, x, RdValue) ELSE x

MemAfter == IF Class(w) = "store" /\ DataTarget(Addr) \in {"ram", "ramdisk"}
            THEN [mem EXCEPT ![CellOf(DataTarget(Addr), Addr)] =
                                Merge(w, Addr, x, @)]
            ELSE mem

DevAfter == IF DataTarget(Addr) # "periph" THEN dev
            ELSE CASE Class(w) = "store" -> DevAfterWrite(dev, w, Addr, x)
                   [] Class(w) = "load"  -> DevAfterRead(dev, Addr)
                   [] OTHER              -> dev

CsrAfter == CASE Class(w) = "csr"  -> CsrWrite(csr, irq, w, x)
              [] Class(w) = "mret" -> CsrMret(csr)
              [] OTHER             -> csr

PcAfter == CASE Class(w) = "mret" -> csr["mepc"]
             [] Class(w) = "jump" -> Target(w, pc, x)
             [] Class(w) = "branch" /\ Taken(w, x) -> Target(w, pc, x)
             [] OTHER -> Plus4(pc)

-----------------------------------------------------------------------------
\* One instruction.
Execute == /\ pc'  = PcAfter
           /\ x'   = RegsAfter
           /\ mem' = MemAfter
           /\ csr' = CsrAfter
           /\ dev' \in DevMoves(DevAfter)

\* A precise interrupt: nothing of the instruction at pc has happened.
Trap == /\ MIE(csr["mstatus"])
        /\ Pending(csr, irq) # {}
        /\ pc'  = Vector(csr["mtvec"], Priority(Pending(csr, irq)))
        /\ csr' = CsrTrap(csr, irq, pc)
        /\ dev' \in DevMoves(dev)
        /\ UNCHANGED <<x, mem>>

\* A reset restarts at address zero.  It clears neither the register file
\* nor the memories, and the instruction it interrupts may have written
\* its result or not.
Reset == /\ pc'  = Zero
         /\ csr' = CsrReset
         /\ dev' = DevReset(dev)
         /\ \/ UNCHANGED <<x, mem>>
            \/ x' = RegsAfter /\ mem' = MemAfter

\* Only the outside world moves.
Wait == dev' \in DevMoves(dev) /\ UNCHANGED <<pc, x, mem, csr>>

Init == /\ pc  = Zero
        /\ x   = Regs0
        /\ mem \in [Cell -> Word]
        /\ csr = CsrReset
        /\ dev = Dev0
        /\ irq \in SUBSET Lines

Next == /\ irq' \in SUBSET Lines
        /\ Execute \/ Trap \/ Reset \/ Wait

Spec == Init /\ [][Next]_vars
=============================================================================

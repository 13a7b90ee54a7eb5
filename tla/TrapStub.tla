------------------------------ MODULE TrapStub ------------------------------
(***************************************************************************)
(* trap_entry, the assembly stub around tinymcu_trap_handler: what it does *)
(* to the registers and the stack of the program it interrupts.  The       *)
(* program is anything that keeps to the calling convention: between two   *)
(* of its instructions its registers, its stack pointer and the stack      *)
(* above it may all have changed.  One step is one instruction.            *)
(***************************************************************************)
EXTENDS Integers, Sequences

CONSTANTS
  Saved,      \* the caller-saved registers in the order of the stub
  Points,     \* points of the interrupted program
  Causes,     \* interrupt lines
  Top         \* words of stack

N == Len(Saved)

ASSUME StubAssumption ==
  /\ Saved \in Seq(STRING) /\ \A i, j \in 1..N : Saved[i] = Saved[j] => i = j
  /\ Top \in Nat /\ N \in 2..Top
  /\ \E i, j \in 1..N : Saved[i] = "a0" /\ Saved[j] = "a1"

VARIABLES
  step,              \* 0 in the program, else the stub's next instruction
  pc,                \* where the program is
  regs, sp, stack,
  mepc, mcause, MIE, MPIE,
  lines              \* interrupts that are pending and enabled
vars == <<step, pc, regs, sp, stack, mepc, mcause, MIE, MPIE, lines>>

Registers == {Saved[i] : i \in 1..N}
Words     == 0..(Top - 1)

\* What the program has in a register or a stack word at a point; what
\* anything else has left there.
InReg(r, q)  == <<"reg", r, q>>
InWord(a, q) == <<"word", a, q>>
Cause(c)     == <<"cause", c>>
Point(q)     == <<"point", q>>
Junk         == <<"junk">>

\* The stub's instructions: addi, N stores, two csrr, call, N loads, addi, mret.
ADJUST  == 1
STORES  == 2..(N + 1)
CAUSE   == N + 2
EPC     == N + 3
CALL    == N + 4
LOADS   == (N + 5)..(2 * N + 4)
RELEASE == 2 * N + 5
MRET    == 2 * N + 6

-----------------------------------------------------------------------------
Init ==
  /\ step = 0 /\ pc \in Points /\ sp \in N..Top
  /\ regs = [r \in Registers |-> InReg(r, pc)]
  /\ stack = [a \in Words |-> IF a >= sp THEN InWord(a, pc) ELSE Junk]
  /\ mepc \in Points /\ mcause \in Causes
  /\ MIE = TRUE /\ MPIE \in BOOLEAN /\ lines \in SUBSET Causes

\* The program goes on; it leaves room for the stub.
Program ==
  /\ step = 0 /\ ~(MIE /\ lines # {})
  /\ pc' \in Points /\ sp' \in N..Top
  /\ regs' = [r \in Registers |-> InReg(r, pc')]
  /\ stack' = [a \in Words |-> IF a >= sp' THEN InWord(a, pc') ELSE stack[a]]
  /\ UNCHANGED <<step, mepc, mcause, MIE, MPIE>> /\ lines' \in SUBSET Causes

Trap ==
  /\ step = 0 /\ MIE /\ mcause' \in lines /\ mepc' = pc
  /\ MPIE' = MIE /\ MIE' = FALSE /\ step' = ADJUST
  /\ lines' \in SUBSET Causes /\ UNCHANGED <<pc, regs, sp, stack>>

-----------------------------------------------------------------------------
\* One instruction of the stub, which no trap can interrupt.
Instruction == step' = step + 1 /\ lines' \in SUBSET Causes
               /\ UNCHANGED <<pc, mepc, mcause, MIE, MPIE>>

\* addi sp, sp, -64
Adjust == /\ step = ADJUST /\ sp' = sp - N
          /\ Instruction /\ UNCHANGED <<regs, stack>>

\* sw r, 4*k(sp)
Store == /\ step \in STORES
         /\ stack' = [stack EXCEPT ![sp + (step - 2)] = regs[Saved[step - 1]]]
         /\ Instruction /\ UNCHANGED <<regs, sp>>

\* csrr a0, mcause
ReadCause == /\ step = CAUSE /\ regs' = [regs EXCEPT !["a0"] = Cause(mcause)]
             /\ Instruction /\ UNCHANGED <<sp, stack>>

\* Mutant: mepc is read into the register that holds mcause.
Mut_ReadEpc == /\ step = EPC /\ regs' = [regs EXCEPT !["a0"] = Point(mepc)]
               /\ Instruction /\ UNCHANGED <<sp, stack>>
\* csrr a1, mepc
ReadEpc == /\ step = EPC /\ regs' = [regs EXCEPT !["a1"] = Point(mepc)]
           /\ Instruction /\ UNCHANGED <<sp, stack>>

\* The handler may use every caller-saved register and the stack below sp,
\* and returns with sp as it was.
Handler ==
  /\ step = CALL
  /\ regs' = [r \in Registers |-> Junk]
  /\ stack' = [a \in Words |-> IF a < sp THEN Junk ELSE stack[a]]
  /\ Instruction /\ UNCHANGED sp

\* Mutant: the last register is loaded from its neighbour's slot.
Mut_Load ==
  /\ step \in LOADS
  /\ LET k == IF step = 2 * N + 4 THEN N - 1 ELSE step - (N + 4) IN
     regs' = [regs EXCEPT ![Saved[step - (N + 4)]] = stack[sp + (k - 1)]]
  /\ Instruction /\ UNCHANGED <<sp, stack>>
\* lw r, 4*k(sp)
Load ==
  /\ step \in LOADS
  /\ regs' = [regs EXCEPT ![Saved[step - (N + 4)]] = stack[sp + (step - (N + 5))]]
  /\ Instruction /\ UNCHANGED <<sp, stack>>

\* addi sp, sp, 64
Release == /\ step = RELEASE /\ sp' = sp + N
           /\ Instruction /\ UNCHANGED <<regs, stack>>

\* mret
Mret == /\ step = MRET /\ step' = 0 /\ pc' = mepc
        /\ MIE' = MPIE
        /\ lines' \in SUBSET Causes /\ UNCHANGED <<regs, sp, stack, mepc, mcause, MPIE>>

Stub == Adjust \/ Store \/ ReadCause \/ ReadEpc \/ Handler \/ Load \/ Release \/ Mret
Next == Program \/ Trap \/ Stub
Spec == Init /\ [][Next]_vars

-----------------------------------------------------------------------------
TypeOK ==
  /\ step \in 0..MRET /\ pc \in Points /\ mepc \in Points /\ mcause \in Causes
  /\ DOMAIN regs = Registers /\ DOMAIN stack = Words
  /\ sp \in 0..Top /\ (step \in (2..RELEASE) => sp + N <= Top)
  /\ MIE \in BOOLEAN /\ MPIE \in BOOLEAN /\ lines \subseteq Causes

\* What trap_entry is for: the program finds every register, its stack
\* pointer's words and its place as it left them, whatever the handler did.
Transparent ==
  step = 0 => /\ \A r \in Registers : regs[r] = InReg(r, pc)
              /\ \A a \in Words : a >= sp => stack[a] = InWord(a, pc)

\* The handler gets the cause of this trap and the point it interrupted, as
\* tinymcu_trap.h promises, although a0 and a1 were the program's.
ArgumentsRight ==
  step = CALL => regs["a0"] = Cause(mcause) /\ regs["a1"] = Point(pc)
=============================================================================

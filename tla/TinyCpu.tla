------------------------------ MODULE TinyCpu ------------------------------
(***************************************************************************)
(* The three-stage pipeline of tinymcu_cpu with the units it instantiates: *)
(* fetch path, register file, multiplier, divider, CSR file, data bus,     *)
(* SRAM and boot ROM ports.  One step is one rising clock edge.  A         *)
(* combinational signal is an operator with the signal's name, a clocked   *)
(* process an operator that constrains the primed registers it drives.     *)
(*                                                                         *)
(* The peripherals are the abstract device of TinyMachine and the XIP      *)
(* fetch engine is reduced to its three states: how many SPI clocks a      *)
(* flash read takes is left open.                                          *)
(***************************************************************************)
EXTENDS Naturals, TinyMachine

CONSTANTS
  Bubble,     \* NOP_INSTR as a squash writes it; a NOP of the program is a
              \* word of class "alu" that changes no register
  MulCycles,  \* shift-add steps of the multiplier, 32 in the code
  DivCycles,  \* shift-subtract steps of the divider, 32 in the code
  Programs    \* initial contents of all memories the runs start from

ASSUME PipelineAssumption ==
  /\ Bubble \notin Word
  /\ MulCycles \in Nat \ {0} /\ DivCycles \in Nat \ {0}
  /\ Programs \subseteq [Cell -> Word]

VARIABLES
  pc_reg, pc_if, pc_ex, \* address being fetched, fetched and executed
  instr_ex,             \* instruction in EX, or Bubble
  redirect_d1, ex_stall_d1, dispatched,
  x,                    \* register file
  csr,                  \* CSR file
  mult, div,            \* the two multi-cycle units
  mem,                  \* ROM, RAM, RAM disk and flash
  fetch_dout,           \* registered fetch port of each memory
  data_dout, ack,       \* registered data port and acknowledge of each memory
  dev,                  \* peripherals
  xip,                  \* XIP fetch engine and its one-entry cache
  irq                   \* interrupt lines that are high in this cycle

pcs   == <<pc_reg, pc_if, pc_ex, instr_ex, redirect_d1>>
units == <<mult, div>>
ports == <<fetch_dout, data_dout, ack>>
vars  == <<pc_reg, pc_if, pc_ex, instr_ex, redirect_d1, ex_stall_d1,
           dispatched, x, csr, mult, div, mem, fetch_dout, data_dout, ack,
           dev, xip, irq>>

Unit(n) == [state : {"Idle", "Check", "Calc"}, start : BOOLEAN,
            valid : BOOLEAN, cycles : 0..(n - 1), result : Word]
UnitReset == [state |-> "Idle", start |-> FALSE, valid |-> FALSE,
              cycles |-> 0, result |-> Zero]
Xip == [state : {"Disabled", "Idle", "Busy"}, valid : BOOLEAN,
        last : Word, req : Word]
XipReset == [state |-> "Disabled", valid |-> FALSE, last |-> Zero, req |-> Zero]

-----------------------------------------------------------------------------
(***************************** combinational signals ***********************)

Real == instr_ex # Bubble
IsA(c) == Real /\ Class(instr_ex) = c

alu_result == IF Real THEN Alu(instr_ex, pc_ex, x) ELSE Zero

\* Data bus: the request EX drives and the target that sees the strobe.
stb == IsA("load") \/ IsA("store")
Strobed(t) == stb /\ DataTarget(alu_result) = t
cpu_ack == IF DataTarget(alu_result) \in Mems
           THEN ack[DataTarget(alu_result)] ELSE stb
cpu_rsp == CASE DataTarget(alu_result) = "rom" -> RomMask(alu_result, data_dout["rom"])
             [] DataTarget(alu_result) \in {"ram", "ramdisk"} -> data_dout[DataTarget(alu_result)]
             [] DataTarget(alu_result) = "periph" -> DevRead(dev, alu_result)
             [] OTHER -> Zero

\* A unit answers busy from the cycle its start pulse arrives.
Busy(unit, start) == unit.state # "Idle" \/ (start /\ ~unit.start)
mult_start == dispatched /\ IsA("mul")
div_start  == dispatched /\ IsA("div")
mult_busy  == Busy(mult, mult_start)
div_busy   == Busy(div, div_start)

ex_stall     == (stb /\ ~cpu_ack) \/ mult_busy \/ div_busy
resume_flush == ex_stall_d1 /\ ~ex_stall
\* Mutant: the cached word is taken for whatever address is fetched.
Mut_AnyAddress == XipOn(dev) /\ xip.valid
fetch_ready  == XipOn(dev) /\ xip.valid /\ xip.last = pc_if
fetch_stall  == FetchTarget(pc_if) = "xip" /\ ~fetch_ready
stall        == ex_stall \/ fetch_stall

\* The ROM's own select looks at pc_reg, the windows of the others at pc_if.
instr_if == CASE FetchTarget(pc_if) = "rom" -> RomMask(pc_reg, fetch_dout["rom"])
              [] FetchTarget(pc_if) = "xip" -> mem[CellOf("xip", xip.last)]
              [] OTHER -> fetch_dout[FetchTarget(pc_if)]

rd_data == CASE IsA("load") -> LoadData(instr_ex, alu_result, cpu_rsp)
             [] IsA("csr")  -> CsrRead(csr, irq, instr_ex)
             [] IsA("mul") /\ mult.valid -> mult.result
             [] IsA("div") /\ div.valid  -> div.result
             [] OTHER -> alu_result
reg_we == \E c \in {"alu", "mul", "div", "load", "jump", "csr"} : IsA(c)

pending  == Pending(csr, irq)
is_trap  == MIE(csr["mstatus"]) /\ pending # {} /\ ~stall
\* Mutant: a trap with a bubble in EX is recorded but redirects nothing.
Mut_redirect == \/ is_trap /\ Real
                \/ IsA("mret") \/ IsA("jump")
                \/ IsA("branch") /\ Taken(instr_ex, x)
redirect == \/ is_trap \/ IsA("mret") \/ IsA("jump")
            \/ IsA("branch") /\ Taken(instr_ex, x)
redirect_target == IF is_trap THEN Vector(csr["mtvec"], Priority(pending))
                   ELSE IF IsA("mret") THEN csr["mepc"]
                   ELSE Target(instr_ex, pc_ex, x)
next_pc == IF redirect THEN redirect_target ELSE Plus4(pc_reg)

-----------------------------------------------------------------------------
(***************************** clocked processes ***************************)

\* The four pipeline registers, by what the cycle does with them.
Hold == stall /\ UNCHANGED pcs

\* Mutant: the pipeline resumes without the rewind.
Mut_NoRewind == /\ ~stall /\ resume_flush
                /\ pc_reg' = Plus4(pc_reg) /\ pc_if' = pc_reg /\ pc_ex' = pc_if
                /\ instr_ex' = Bubble /\ redirect_d1' = TRUE

Resume == /\ ~stall /\ resume_flush
          /\ pc_reg' = pc_if /\ pc_ex' = pc_if
          /\ instr_ex' = Bubble /\ redirect_d1' = TRUE
          /\ UNCHANGED pc_if

\* A redirect, and the cycle behind a redirect or a rewind.
SquashTo(instr, again) ==
  /\ ~stall /\ ~resume_flush /\ (redirect \/ redirect_d1)
  /\ pc_reg' = next_pc /\ pc_if' = pc_reg /\ pc_ex' = pc_if
  /\ instr_ex' = instr /\ redirect_d1' = again
\* Mutants: one bubble instead of two; bubbles without end.
Mut_OneBubble == SquashTo(IF redirect THEN Bubble ELSE instr_if, redirect)
Mut_StickySquash == SquashTo(Bubble, redirect \/ redirect_d1)

Squash == SquashTo(Bubble, redirect)

Advance == /\ ~stall /\ ~resume_flush /\ ~redirect /\ ~redirect_d1
           /\ pc_reg' = Plus4(pc_reg) /\ pc_if' = pc_reg /\ pc_ex' = pc_if
           /\ instr_ex' = instr_if /\ redirect_d1' = FALSE

\* Mutant: a flash fetch that was late rewinds too.
Mut_RewindAfterFetch == ex_stall_d1' = stall /\ dispatched' = ~stall

\* A rewind follows a stall of EX, never one of the flash fetch alone;
\* dispatched marks the first cycle of an instruction in EX.
StallRegister == ex_stall_d1' = ex_stall /\ dispatched' = ~stall

RegFileProcess == x' = IF reg_we /\ ~stall THEN WriteRd(instr_ex, x, rd_data) ELSE x

\* Mutant: a CSR instruction wins over the trap.
Mut_CsrBeforeTrap == csr' = IF IsA("csr") THEN CsrWrite(csr, irq, instr_ex, x)
                            ELSE IF is_trap THEN CsrTrap(csr, irq, pc_ex)
                            ELSE IF IsA("mret") THEN CsrMret(csr)
                            ELSE csr

\* Trap, MRET and CSR instruction in this order; only the trap waits for
\* the stall to end.
CsrProcess == csr' = IF is_trap THEN CsrTrap(csr, irq, pc_ex)
                     ELSE IF IsA("mret") THEN CsrMret(csr)
                     ELSE IF IsA("csr") THEN CsrWrite(csr, irq, instr_ex, x)
                     ELSE csr

\* A multi-cycle unit: the edge that sees a fresh start loads the operands,
\* Calc runs the given number of steps and valid lasts one cycle, after
\* which nothing reads the result any more.
Begin(u, start, state, result) ==
  IF start /\ ~u.start
  THEN [state |-> state, start |-> TRUE, valid |-> FALSE, cycles |-> 0,
        result |-> result]
  ELSE [UnitReset EXCEPT !.start = start]
\* Mutant: one step too many.
Mut_Step(u, n) ==
  IF u.cycles = n THEN [u EXCEPT !.state = "Idle", !.valid = TRUE]
  ELSE [u EXCEPT !.cycles = @ + 1]
Step(u, n) ==
  IF u.cycles = n - 1 THEN [u EXCEPT !.state = "Idle", !.valid = TRUE]
  ELSE [u EXCEPT !.cycles = @ + 1]

MultProcess ==
  mult' = IF mult.state = "Idle"
          THEN Begin(mult, mult_start, "Calc", IF Real THEN MulResult(instr_ex, x) ELSE Zero)
          ELSE Step(mult, MulCycles)

DivProcess ==
  div' = CASE div.state = "Idle" ->
                Begin(div, div_start, "Check", IF Real THEN DivResult(instr_ex, x) ELSE Zero)
           [] div.state = "Check" ->
                IF DivAtOnce(instr_ex, x)
                THEN [div EXCEPT !.state = "Idle", !.valid = TRUE]
                ELSE [div EXCEPT !.state = "Calc"]
           [] OTHER -> Step(div, DivCycles)

\* The memories: a strobed store writes its lanes on every edge, the data
\* port and its acknowledge are registered, the fetch port follows pc_reg.
WrittenCell == CellOf(DataTarget(alu_result), alu_result)
MemProcess ==
  mem' = IF IsA("store") /\ DataTarget(alu_result) \in {"ram", "ramdisk"}
         THEN [mem EXCEPT ![WrittenCell] = Merge(instr_ex, alu_result, x, @)]
         ELSE mem
FetchPort == fetch_dout' = [t \in Mems |-> mem[CellOf(t, pc_reg)]]
\* Mutant: the data port is given the fetch address.
Mut_WrongPort == data_dout' = [t \in Mems |->
                   IF Strobed(t) THEN mem[CellOf(t, pc_reg)] ELSE data_dout[t]]

\* The word a data port shows is looked at behind a strobed read only; the
\* ROM's changes in other cycles too.
DataPort == data_dout' = [t \in Mems |->
              IF Strobed(t) THEN mem[CellOf(t, alu_result)] ELSE data_dout[t]]
AckPort == ack' = [t \in Mems |-> Strobed(t)]

\* A strobed peripheral acts on every edge its strobe is high.
Accessed == CASE Strobed("periph") /\ IsA("store") ->
                   DevAfterWrite(dev, instr_ex, alu_result, x)
              [] Strobed("periph") /\ IsA("load") -> DevAfterRead(dev, alu_result)
              [] OTHER -> dev
DevProcess == dev' \in DevMoves(Accessed)

\* Mutant: a cached word stops the engine from reading another one.
Mut_HitAny == xip.valid

\* The XIP fetch engine; a started read always runs to its end.
XipHit == xip.valid /\ xip.last = pc_if
XipProcess ==
  CASE xip.state = "Disabled" ->
         xip' = [xip EXCEPT !.state = IF XipOn(dev) THEN "Idle" ELSE "Disabled"]
    [] xip.state = "Idle" ->
         xip' = IF ~XipOn(dev) THEN [xip EXCEPT !.state = "Disabled"]
                ELSE IF XipHit THEN xip
                ELSE [xip EXCEPT !.state = "Busy", !.req = pc_if]
    [] OTHER ->
         \/ xip' = xip
         \/ xip' = [xip EXCEPT !.state = "Idle", !.valid = TRUE, !.last = xip.req]

-----------------------------------------------------------------------------
Tick == /\ Hold \/ Resume \/ Squash \/ Advance
        /\ RegFileProcess /\ CsrProcess /\ MultProcess /\ DivProcess
        /\ MemProcess /\ FetchPort /\ DataPort /\ AckPort
        /\ DevProcess /\ XipProcess
        /\ StallRegister
        /\ irq' \in SUBSET Lines

\* An edge with rst_i high.  The register file, the memories, the fetch
\* ports and the boot ROM's acknowledge have no reset.
Reset == /\ pc_reg' = Zero /\ pc_if' = Zero /\ pc_ex' = Zero
         /\ instr_ex' = Bubble /\ redirect_d1' = TRUE
         /\ ex_stall_d1' = FALSE /\ dispatched' = FALSE
         /\ csr' = CsrReset
         /\ mult' = UnitReset
         /\ div' = [UnitReset EXCEPT !.valid = div.valid]
         /\ RegFileProcess /\ MemProcess /\ FetchPort /\ DataPort
         /\ ack' = [t \in Mems |-> t = "rom" /\ Strobed("rom")]
         /\ dev' = DevReset(dev)
         /\ xip' = [xip EXCEPT !.state = "Disabled", !.valid = FALSE]
         /\ irq' \in SUBSET Lines

\* After the second edge of the power-on reset: the first one may leave the
\* fetch ports and the divider's valid flag undefined.
Init == /\ pc_reg = Zero /\ pc_if = Zero /\ pc_ex = Zero
        /\ instr_ex = Bubble /\ redirect_d1 = TRUE
        /\ ex_stall_d1 = FALSE /\ dispatched = FALSE
        /\ x = Regs0
        /\ csr = CsrReset
        /\ mult = UnitReset
        /\ div \in {[UnitReset EXCEPT !.valid = v] : v \in BOOLEAN}
        /\ mem \in Programs
        /\ fetch_dout = [t \in Mems |-> mem[CellOf(t, Zero)]]
        /\ data_dout = [t \in Mems |-> Zero]
        /\ ack = [t \in Mems |-> FALSE]
        /\ dev = Dev0
        /\ xip = XipReset
        /\ irq \in SUBSET Lines

Next == Tick \/ Reset

Spec == Init /\ [][Next]_vars
=============================================================================

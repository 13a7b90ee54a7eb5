---------------------------- MODULE TinyCpuProps ----------------------------
(***************************************************************************)
(* What is stated about the pipeline: the inductive invariant, the mapping *)
(* to the programmer's view, the fairness of its clock and flash, and the  *)
(* promises of the documentation.                                          *)
(***************************************************************************)
EXTENDS TinyCpu

\* Every register of the pipeline holds a value of its kind: program
\* counters are words, EX holds an instruction word or a bubble, the units
\* count no further than their operand width.
TypeOK ==
  /\ pc_reg \in Word /\ pc_if \in Word /\ pc_ex \in Word
  /\ instr_ex \in Word \cup {Bubble}
  /\ redirect_d1 \in BOOLEAN /\ ex_stall_d1 \in BOOLEAN /\ dispatched \in BOOLEAN
  /\ x \in RegFile
  /\ csr \in CsrFile
  /\ mult \in Unit(MulCycles) /\ div \in Unit(DivCycles)
  /\ mem \in [Cell -> Word]
  /\ fetch_dout \in [Mems -> Word] /\ data_dout \in [Mems -> Word]
  /\ ack \in [Mems -> BOOLEAN]
  /\ dev \in Dev
  /\ xip \in Xip
  /\ irq \in SUBSET Lines

-----------------------------------------------------------------------------
\* The word a program finds at an address.
Fetched(a) == MemRead(mem, FetchTarget(a), a)

\* A RAM store writes on its first edge in EX and is acknowledged after it.
StoreDone == /\ IsA("store") /\ ~dispatched
             /\ DataTarget(alu_result) \in {"ram", "ramdisk"}

\* Address of the instruction the program has reached.
ArchPC == CASE redirect_d1 -> pc_reg
            [] ~redirect_d1 /\ ~Real -> pc_if
            [] OTHER -> IF StoreDone THEN Plus4(pc_ex) ELSE pc_ex

ISA == INSTANCE TinyISAImprecise WITH pc <- ArchPC

\* Without interrupts the pipeline is the sequential machine: two bubbles
\* behind every jump and every stall hide fetch latency, bus wait states,
\* unit latency and code that stores have just rewritten.
ImplementsISA == ISA!Spec

\* With interrupts it is the sequential machine with imprecise traps.
ImplementsImpreciseISA == ISA!ImpreciseSpec

-----------------------------------------------------------------------------
\* The instruction in EX is the word that memory holds at pc_ex now, even
\* if the instruction right before it was a store to that very word.
ExecutesFetched == Real /\ ~StoreDone => instr_ex = Fetched(pc_ex)

\* No bus access, and no load in particular, completes in the cycle it
\* starts on an acknowledge a previous access has left behind.
NoStaleAck ==
  stb /\ DataTarget(alu_result) \in Mems /\ ~stall =>
    /\ ~dispatched
    /\ IsA("load") =>
         cpu_rsp = MemRead(mem, DataTarget(alu_result), alu_result)

-----------------------------------------------------------------------------
(* The inductive invariant. *)

\* The fetch address is a word of the flash the engine's cache does not hold.
FlashMiss == FetchTarget(pc_if) = "xip" /\ ~XipHit

\* Where the three program counters stand relative to each other.
PcShape ==
  /\ redirect_d1 => ~Real
  /\ ~redirect_d1 => pc_reg = Plus4(pc_if)
  /\ Real => pc_if = Plus4(pc_ex)

\* The fetch port shows the word at pc_if unless that is about to be
\* squashed or is one of the flash.
FetchShape ==
  ~redirect_d1 /\ ~ex_stall_d1 /\ FetchTarget(pc_if) # "xip" =>
    \A t \in Mems : fetch_dout[t] = mem[CellOf(t, pc_if)]

\* dispatched marks the first cycle of an instruction in EX, ex_stall_d1 the
\* cycle behind one it has waited in; any other is the flash's doing.
StallShape ==
  /\ ex_stall_d1 => Real /\ ~dispatched
  /\ Real /\ ~dispatched /\ ~ex_stall_d1 => FetchTarget(pc_if) = "xip"

\* An acknowledge belongs to the access in EX, or the fetch stall outlives it.
AckShape ==
  \A t \in Mems :
    /\ stb /\ ack[t] => (Strobed(t) /\ ~dispatched) \/ FlashMiss
    /\ Strobed(t) /\ ~dispatched =>
         ack[t] /\ (IsA("load") => data_dout[t] = mem[CellOf(t, alu_result)])

\* A RAM store that is acknowledged has reached its word.
StoreShape ==
  StoreDone => mem[WrittenCell] = Merge(instr_ex, alu_result, x, mem[WrittenCell])

\* A unit works for the instruction in EX and for nothing else; its result is
\* valid in the cycle behind the last one of the calculation.
UnitShape(u, c, result) ==
  /\ u.state # "Idle" \/ u.start => IsA(c) /\ ~dispatched
  /\ u.state # "Idle" => u.start /\ u.result = result
  /\ IsA(c) /\ ex_stall_d1 =>
       u.start /\ u.result = result /\ (u.state = "Idle" => u.valid)

UnitsShape ==
  /\ UnitShape(mult, "mul", MulResult(instr_ex, x))
  /\ UnitShape(div, "div", DivResult(instr_ex, x))
  /\ mult.state # "Check"

\* Only instructions that wait for a memory or a unit stall EX.
WaitShape ==
  ex_stall_d1 => IsA("mul") \/ IsA("div") \/ \E t \in Mems : Strobed(t)

\* While the engine reads a word of the flash, the fetch address stays.
XipShape ==
  xip.state = "Busy" =>
    /\ FetchTarget(xip.req) = "xip" => pc_if = xip.req
    /\ ~(xip.valid /\ xip.last = xip.req)

\* The last ROM word is never fetched as such: the ROM select has moved on.
RomSeam(m) == \A a \in Word :
  FetchTarget(a) = "rom" /\ RomHit(a) # RomHit(Plus4(a)) =>
    m[CellOf("rom", a)] = Zero

\* The last word of the flash accesses no data: behind it nothing holds the
\* pipeline while the acknowledge of the instruction before is still high.
FlashSeam(m) == \A a \in Word :
  FetchTarget(a) = "xip" /\ FetchTarget(Plus4(a)) # "xip" =>
    Class(m[CellOf("xip", a)]) \notin {"load", "store"}

\* Programs the invariant is about.
SeamsClear == \A p \in Programs : RomSeam(p) /\ FlashSeam(p)

PipeInv == /\ PcShape /\ FetchShape /\ StallShape /\ AckShape
           /\ StoreShape /\ UnitsShape /\ WaitShape /\ XipShape
           /\ ExecutesFetched /\ RomSeam(mem) /\ FlashSeam(mem)

\* What a late word of the flash alone makes wait in EX is repeated without
\* harm: no unit whose result passes, nothing that acts again in each cycle.
HarmlessHold ==
  fetch_stall /\ ~ex_stall =>
    ~IsA("mul") /\ ~IsA("div") /\ ~IsA("csr") /\ ~IsA("mret") /\ ~Strobed("periph")

-----------------------------------------------------------------------------
(* Liveness: the clock runs, and a flash read that is clocked ends. *)

FlashDone == xip.state = "Busy" /\ xip'.state = "Idle"
FairSpec == Spec /\ WF_vars(Tick) /\ WF_vars(Tick /\ FlashDone)

\* The same for a machine that is not reset again.
RunSpec == Init /\ [][Tick]_vars /\ WF_vars(Tick)

\* No instruction occupies EX for ever: bus, multiplier, divider and flash
\* all answer.
EveryStallEnds == stall ~> ~stall

\* The pipeline keeps executing instructions, whatever redirects it, once it
\* is reset no more.
KeepsExecuting == <>[][Tick]_vars => []<>(Real /\ ~stall)

\* The clock in which an interrupt is taken ends in the handler, or, when an
\* EX stall ends in it, behind the instruction: the rewind wins.
TrapEntered == is_trap /\ pc_reg' = Vector(csr["mtvec"], Priority(pending))
TrapLost    == is_trap /\ resume_flush

\* The handler is entered again and again while a line stays pending and the
\* program keeps enabling interrupts, whatever stalls and bubbles come in
\* between, unless the traps that the end of a stall loses never stop.
InterruptTaken ==
  <>[](pending # {}) /\ []<>MIE(csr["mstatus"]) /\ <>[][~TrapLost]_vars
    => []<><<TrapEntered>>_vars

-----------------------------------------------------------------------------
(* Promises of the documentation that the pipeline breaks, one run each. *)

\* README.md:228: "On a pending, enabled interrupt [...] the pipeline
\* redirects to mtvec".  In the cycle an EX stall ends, the rewind wins over
\* the redirect while the CSR file takes the trap.
TrapEntersHandler == [][Tick /\ is_trap => pc_reg' = redirect_target]_vars

\* tinymcu_trap.h:33: mepc is "the address execution was interrupted at (and
\* resumes at on mret)".  With a bubble in EX it is that of a squashed fetch.
MepcIsNextInstruction ==
  [][Tick /\ is_trap /\ ~Real => csr'["mepc"] = ArchPC]_vars

\* The same line: what mret resumes at has not been executed before.  With
\* an instruction in EX, mepc names it and it completes all the same.
MepcNotExecutedYet ==
  [][Tick /\ is_trap /\ Real /\ csr'["mepc"] = pc_ex => UNCHANGED <<x, mem>>]_vars

\* memory.html:239: the ROM is 0x0000_0000-0x0000_7FFF, 32 KB.  Its last
\* word executes as zero.
RomWordsExecute == [][Tick /\ instr_ex' # Bubble => instr_ex' = Fetched(pc_if)]_vars

\* README.md:167: multiply and divide stall "the pipeline for their
\* duration" and are "verified through the full pipeline".  A flash fetch
\* that outlasts them lets the one-cycle valid pass and rd gets alu_result.
MultiplyWritesProduct ==
  [][Tick /\ IsA("mul") /\ ~stall =>
       x' = WriteRd(instr_ex, x, MulResult(instr_ex, x))]_vars

\* tinymcu_pkg.vhd:153: CSRRW is "rd = csr; csr = rs1".  While a flash fetch
\* holds the pipeline the register is written again and again, rd only once
\* it is over: rd gets the new word.
CsrWritesWhenRdDoes == [][Tick /\ IsA("csr") /\ stall => UNCHANGED csr]_vars

\* bus.html:188: "a peripheral access costs nothing beyond the instruction's
\* own EX cycle".  While a flash fetch holds the pipeline it is repeated in
\* every cycle.
OneAccessPerInstruction ==
  [][Tick /\ Strobed("periph") /\ ~dispatched => Accessed = dev]_vars
=============================================================================

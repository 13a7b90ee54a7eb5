--------------------------- MODULE TinyCpuProofs ---------------------------
(***************************************************************************)
(* Type correctness, the inductive invariant and the refinement of the     *)
(* pipeline, for every word size, data path, memory map (with or without   *)
(* an XIP window) and set of interrupt lines.  A clock edge finds the      *)
(* pipeline in one of three situations: something holds it (HoldStep), an  *)
(* instruction has waited and is done (ResumeStep), or it flows            *)
(* (FlowStep), perhaps behind a late word of the flash.                    *)
(***************************************************************************)
EXTENDS TinyCpuProps, TLAPS

AllLines == {"MEI", "MSI", "MTI"}

-----------------------------------------------------------------------------
\* The helpers of TinyMachine stay within their types.
LEMMA PriorityType == ASSUME NEW P PROVE Priority(P) \in AllLines
  BY DEF Priority, AllLines

LEMMA CsrReadType ==
  ASSUME NEW f \in CsrFile, NEW l \in SUBSET Lines, NEW i \in Word
  PROVE  CsrRead(f, l, i) \in Word
  BY CsrAssumption DEF CsrRead, CsrFile, CsrNames

LEMMA CsrWriteType ==
  ASSUME NEW f \in CsrFile, NEW l \in SUBSET Lines, NEW i \in Word, NEW r \in RegFile
  PROVE  CsrWrite(f, l, i, r) \in CsrFile
  BY CsrReadType, CsrAssumption DEF CsrWrite, CsrFile

LEMMA CsrTrapType ==
  ASSUME NEW f \in CsrFile, NEW l, NEW a \in Word
  PROVE  CsrTrap(f, l, a) \in CsrFile
<1>1. CauseWord(Priority(Pending(f, l))) \in Word
  BY PriorityType, CsrAssumption DEF AllLines
<1>2. OnTrap(f["mstatus"]) \in Word
  BY CsrAssumption DEF CsrFile, CsrNames
<1>3. QED
  BY <1>1, <1>2 DEF CsrTrap, CsrFile, CsrNames

LEMMA CsrMretType ==
  ASSUME NEW f \in CsrFile
  PROVE  CsrMret(f) \in CsrFile
<1>1. OnMret(f["mstatus"]) \in Word
  BY CsrAssumption DEF CsrFile, CsrNames
<1>2. QED
  BY <1>1 DEF CsrMret, CsrFile, CsrNames

LEMMA CsrResetType == CsrReset \in CsrFile
  BY WordAssumption DEF CsrReset, CsrFile

LEMMA UnitResetType == ASSUME NEW n \in Nat \ {0} PROVE UnitReset \in Unit(n)
  BY WordAssumption DEF UnitReset, Unit

-----------------------------------------------------------------------------
\* The combinational signals stay within theirs.
LEMMA RealType == ASSUME TypeOK, Real PROVE instr_ex \in Word
  BY DEF TypeOK, Real

LEMMA AluType == ASSUME TypeOK PROVE alu_result \in Word
  BY RealType, WordAssumption, DataPathAssumption DEF alu_result, TypeOK

LEMMA RspType == ASSUME TypeOK PROVE cpu_rsp \in Word
<1>1. alu_result \in Word
  BY AluType
<1>2. data_dout["rom"] \in Word /\ data_dout["ram"] \in Word /\ data_dout["ramdisk"] \in Word
  BY DEF TypeOK, Mems
<1>3. DevRead(dev, alu_result) \in Word
  BY <1>1, DeviceAssumption DEF TypeOK
<1>4. QED
  BY <1>1, <1>2, <1>3, WordAssumption DEF cpu_rsp, RomMask

LEMMA FetchType == ASSUME TypeOK PROVE instr_if \in Word
<1>1. FetchTarget(pc_if) \in Mems \cup {"xip"}
  BY MapAssumption DEF TypeOK
<1>2. mem[CellOf("xip", xip.last)] \in Word
  BY MapAssumption DEF TypeOK, Xip
<1>3. \A t \in Mems : fetch_dout[t] \in Word
  BY DEF TypeOK
<1>4. QED
  BY <1>1, <1>2, <1>3, WordAssumption DEF instr_if, RomMask, Mems

LEMMA RdType == ASSUME TypeOK, Real PROVE rd_data \in Word
<1>1. instr_ex \in Word /\ alu_result \in Word /\ cpu_rsp \in Word
  BY RealType, AluType, RspType
<1>2. LoadData(instr_ex, alu_result, cpu_rsp) \in Word
  BY <1>1, DataPathAssumption
<1>3. CsrRead(csr, irq, instr_ex) \in Word
  BY <1>1, CsrReadType DEF TypeOK
<1>4. mult.result \in Word /\ div.result \in Word
  BY DEF TypeOK, Unit
<1>5. QED
  BY <1>1, <1>2, <1>3, <1>4 DEF rd_data

LEMMA TrapVectorType ==
  ASSUME TypeOK PROVE Vector(csr["mtvec"], Priority(pending)) \in Word
<1>1. csr["mtvec"] \in Word
  BY DEF TypeOK, CsrFile, CsrNames
<1>2. QED
  BY <1>1, PriorityType, CsrAssumption DEF AllLines

LEMMA NextPcType == ASSUME TypeOK PROVE next_pc \in Word
<1>1. Plus4(pc_reg) \in Word
  BY DataPathAssumption DEF TypeOK
<1>2. CASE ~redirect
  BY <1>1, <1>2 DEF next_pc
<1>3. CASE redirect
  <2>1. csr["mepc"] \in Word
    BY DEF TypeOK, CsrFile, CsrNames
  <2>2. CASE is_trap
    BY <1>3, <2>2, TrapVectorType DEF next_pc, redirect_target
  <2>3. CASE ~is_trap
    <3>1. Real
      BY <1>3, <2>3 DEF redirect, IsA
    <3>2. Target(instr_ex, pc_ex, x) \in Word
      BY <3>1, RealType, DataPathAssumption DEF TypeOK
    <3>3. QED
      BY <1>3, <2>1, <2>3, <3>2 DEF next_pc, redirect_target
  <2>4. QED
    BY <2>2, <2>3
<1>4. QED
  BY <1>2, <1>3

-----------------------------------------------------------------------------
\* The clocked processes preserve the types of what they drive.
LEMMA RegFileStep == ASSUME TypeOK, RegFileProcess PROVE x' \in RegFile
<1>1. CASE reg_we /\ ~stall
  <2>1. Real
    BY <1>1 DEF reg_we, IsA
  <2>2. QED
    BY <1>1, <2>1, RealType, RdType, DataPathAssumption
    DEF RegFileProcess, TypeOK
<1>2. CASE ~(reg_we /\ ~stall)
  BY <1>2 DEF RegFileProcess, TypeOK
<1>3. QED
  BY <1>1, <1>2

LEMMA CsrStep == ASSUME TypeOK, CsrProcess PROVE csr' \in CsrFile
<1>1. CASE is_trap
  BY <1>1, CsrTrapType DEF CsrProcess, TypeOK
<1>2. CASE ~is_trap /\ IsA("mret")
  BY <1>2, CsrMretType DEF CsrProcess, TypeOK
<1>3. CASE ~is_trap /\ ~IsA("mret") /\ IsA("csr")
  BY <1>3, RealType, CsrWriteType DEF CsrProcess, TypeOK, IsA
<1>4. CASE ~is_trap /\ ~IsA("mret") /\ ~IsA("csr")
  BY <1>4 DEF CsrProcess, TypeOK
<1>5. QED
  BY <1>1, <1>2, <1>3, <1>4

LEMMA BeginType ==
  ASSUME NEW n \in Nat \ {0}, NEW u \in Unit(n), NEW s \in BOOLEAN,
         NEW q \in {"Check", "Calc"}, NEW r \in Word
  PROVE  Begin(u, s, q, r) \in Unit(n)
<1>1. CASE s /\ ~u.start
  BY <1>1 DEF Begin, Unit
<1>2. CASE ~(s /\ ~u.start)
  <2>1. UnitReset \in Unit(n)
    BY UnitResetType
  <2>2. QED
    BY <1>2, <2>1 DEF Begin, Unit
<1>3. QED
  BY <1>1, <1>2

LEMMA StepType ==
  ASSUME NEW n \in Nat \ {0}, NEW u \in Unit(n)
  PROVE  Step(u, n) \in Unit(n)
<1>1. CASE u.cycles = n - 1
  BY <1>1 DEF Step, Unit
<1>2. CASE u.cycles # n - 1
  <2>1. u.cycles + 1 \in 0..(n - 1)
    BY <1>2 DEF Unit
  <2>2. QED
    BY <1>2, <2>1 DEF Step, Unit
<1>3. QED
  BY <1>1, <1>2

LEMMA MultStep == ASSUME TypeOK, MultProcess PROVE mult' \in Unit(MulCycles)
<1>1. mult_start \in BOOLEAN
  BY DEF mult_start, TypeOK, IsA, Real
<1>2. (IF Real THEN MulResult(instr_ex, x) ELSE Zero) \in Word
  BY RealType, WordAssumption, DataPathAssumption DEF TypeOK
<1>3. mult \in Unit(MulCycles) /\ MulCycles \in Nat \ {0}
  BY PipelineAssumption DEF TypeOK
<1>4. Begin(mult, mult_start, "Calc", IF Real THEN MulResult(instr_ex, x) ELSE Zero)
        \in Unit(MulCycles)
  BY <1>1, <1>2, <1>3, BeginType
<1>5. Step(mult, MulCycles) \in Unit(MulCycles)
  BY <1>3, StepType
<1>6. QED
  BY <1>4, <1>5 DEF MultProcess

LEMMA DivStep == ASSUME TypeOK, DivProcess PROVE div' \in Unit(DivCycles)
<1>1. div_start \in BOOLEAN
  BY DEF div_start, TypeOK, IsA, Real
<1>2. (IF Real THEN DivResult(instr_ex, x) ELSE Zero) \in Word
  BY RealType, WordAssumption, DataPathAssumption DEF TypeOK
<1>3. div \in Unit(DivCycles) /\ DivCycles \in Nat \ {0}
  BY PipelineAssumption DEF TypeOK
<1>4. Begin(div, div_start, "Check", IF Real THEN DivResult(instr_ex, x) ELSE Zero)
        \in Unit(DivCycles)
  BY <1>1, <1>2, <1>3, BeginType
<1>5. Step(div, DivCycles) \in Unit(DivCycles)
  BY <1>3, StepType
<1>6. /\ [div EXCEPT !.state = "Idle", !.valid = TRUE] \in Unit(DivCycles)
      /\ [div EXCEPT !.state = "Calc"] \in Unit(DivCycles)
  BY <1>3 DEF Unit
<1>7. QED
  BY <1>4, <1>5, <1>6 DEF DivProcess

LEMMA MemStep == ASSUME TypeOK, MemProcess PROVE mem' \in [Cell -> Word]
<1>1. CASE IsA("store") /\ DataTarget(alu_result) \in {"ram", "ramdisk"}
  <2>1. instr_ex \in Word /\ alu_result \in Word /\ x \in RegFile
    BY <1>1, RealType, AluType DEF IsA, TypeOK
  <2>2. WrittenCell \in Cell
    BY <1>1, <2>1, MapAssumption DEF WrittenCell, Mems
  <2>3. Merge(instr_ex, alu_result, x, mem[WrittenCell]) \in Word
    BY <2>1, <2>2, LaneAssumption DEF TypeOK
  <2>4. QED
    BY <1>1, <2>2, <2>3 DEF MemProcess, TypeOK
<1>2. CASE ~(IsA("store") /\ DataTarget(alu_result) \in {"ram", "ramdisk"})
  BY <1>2 DEF MemProcess, TypeOK
<1>3. QED
  BY <1>1, <1>2

LEMMA PortStep ==
  ASSUME TypeOK, FetchPort, DataPort
  PROVE  fetch_dout' \in [Mems -> Word] /\ data_dout' \in [Mems -> Word]
<1>1. ASSUME NEW t \in Mems
      PROVE  mem[CellOf(t, pc_reg)] \in Word /\ mem[CellOf(t, alu_result)] \in Word
  BY AluType, MapAssumption DEF TypeOK
<1>2. QED
  BY <1>1 DEF FetchPort, DataPort, TypeOK

LEMMA DevStep == ASSUME TypeOK, DevProcess PROVE dev' \in Dev
<1>1. Accessed \in Dev
  <2>1. CASE Strobed("periph") /\ IsA("store")
    BY <2>1, RealType, AluType, DeviceAssumption DEF Accessed, IsA, TypeOK
  <2>2. CASE ~(Strobed("periph") /\ IsA("store"))
    BY <2>2, AluType, DeviceAssumption DEF Accessed, TypeOK
  <2>3. QED
    BY <2>1, <2>2
<1>2. QED
  BY <1>1, DeviceAssumption DEF DevProcess

LEMMA XipStep == ASSUME TypeOK, XipProcess PROVE xip' \in Xip
<1>1. CASE xip.state = "Disabled"
  BY <1>1 DEF XipProcess, Xip, TypeOK
<1>2. CASE xip.state = "Idle"
  BY <1>2 DEF XipProcess, Xip, TypeOK
<1>3. CASE xip.state = "Busy"
  BY <1>3 DEF XipProcess, Xip, TypeOK
<1>4. QED
  BY <1>1, <1>2, <1>3 DEF TypeOK, Xip

-----------------------------------------------------------------------------
LEMMA TypeTick == ASSUME TypeOK, Tick PROVE TypeOK'
<1>1. /\ pc_reg' \in Word /\ pc_if' \in Word /\ pc_ex' \in Word
      /\ instr_ex' \in Word \cup {Bubble} /\ redirect_d1' \in BOOLEAN
  <2>1. redirect \in BOOLEAN
    BY DataPathAssumption, RealType DEF redirect, is_trap, IsA, TypeOK
  <2>2. CASE Hold
    BY <2>2 DEF Hold, pcs, TypeOK
  <2>3. CASE Resume
    BY <2>3 DEF Resume, TypeOK
  <2>4. CASE Squash
    BY <2>1, <2>4, NextPcType DEF Squash, SquashTo, TypeOK
  <2>5. CASE Advance
    BY <2>5, FetchType, DataPathAssumption DEF Advance, TypeOK
  <2>6. QED
    BY <2>2, <2>3, <2>4, <2>5 DEF Tick
<1>2. ex_stall_d1' \in BOOLEAN /\ dispatched' \in BOOLEAN
  <2>1. ack[DataTarget(alu_result)] \in BOOLEAN \/ DataTarget(alu_result) \notin Mems
    BY DEF TypeOK
  <2>2. QED
    BY <2>1 DEF Tick, StallRegister, stall, ex_stall, fetch_stall
<1>3. x' \in RegFile /\ csr' \in CsrFile
  BY RegFileStep, CsrStep DEF Tick
<1>4. mult' \in Unit(MulCycles) /\ div' \in Unit(DivCycles)
  BY MultStep, DivStep DEF Tick
<1>5. mem' \in [Cell -> Word] /\ fetch_dout' \in [Mems -> Word] /\ data_dout' \in [Mems -> Word]
  BY MemStep, PortStep DEF Tick
<1>6. ack' \in [Mems -> BOOLEAN]
  BY DEF Tick, AckPort, Strobed, stb
<1>7. dev' \in Dev /\ xip' \in Xip /\ irq' \in SUBSET Lines
  BY DevStep, XipStep DEF Tick
<1>8. QED
  BY <1>1, <1>2, <1>3, <1>4, <1>5, <1>6, <1>7 DEF TypeOK

LEMMA TypeReset == ASSUME TypeOK, Reset PROVE TypeOK'
<1>1. x' \in RegFile /\ mem' \in [Cell -> Word]
  BY RegFileStep, MemStep DEF Reset
<1>2. fetch_dout' \in [Mems -> Word] /\ data_dout' \in [Mems -> Word]
  BY PortStep DEF Reset
<1>3. ack' \in [Mems -> BOOLEAN]
  BY DEF Reset, Strobed, stb
<1>4. csr' \in CsrFile
  BY CsrResetType DEF Reset
<1>5. mult' \in Unit(MulCycles)
  BY UnitResetType, PipelineAssumption DEF Reset
<1>6. div' \in Unit(DivCycles)
  BY UnitResetType, PipelineAssumption DEF Reset, TypeOK, Unit, UnitReset
<1>7. dev' \in Dev /\ xip' \in Xip /\ irq' \in SUBSET Lines
  BY DeviceAssumption DEF Reset, TypeOK, Xip
<1>8. QED
  BY <1>1, <1>2, <1>3, <1>4, <1>5, <1>6, <1>7, WordAssumption DEF TypeOK, Reset

LEMMA TypeInit == Init => TypeOK
<1> SUFFICES ASSUME Init PROVE TypeOK
  OBVIOUS
<1>1. mem \in [Cell -> Word]
  BY PipelineAssumption DEF Init
<1>2. fetch_dout \in [Mems -> Word]
  BY <1>1, WordAssumption, MapAssumption DEF Init
<1>3. mult \in Unit(MulCycles)
  BY UnitResetType, PipelineAssumption DEF Init
<1>4. div \in Unit(DivCycles)
  BY UnitResetType, PipelineAssumption DEF Init, Unit, UnitReset
<1>5. xip \in Xip
  BY WordAssumption DEF Init, Xip, XipReset
<1>6. data_dout \in [Mems -> Word] /\ ack \in [Mems -> BOOLEAN]
  BY WordAssumption DEF Init
<1>7. QED
  BY <1>1, <1>2, <1>3, <1>4, <1>5, <1>6, WordAssumption, CsrResetType DEF Init, TypeOK

\* No register of the pipeline ever leaves its range: not the cycle counters
\* of the multi-cycle units at their last step, nor a CSR after a trap that
\* meets a CSR instruction, nor anything a reset leaves behind.
THEOREM TypeCorrect == Spec => []TypeOK
<1>1. TypeOK /\ [Next]_vars => TypeOK'
  <2> SUFFICES ASSUME TypeOK, [Next]_vars PROVE TypeOK'
    OBVIOUS
  <2>1. CASE Tick
    BY <2>1, TypeTick
  <2>2. CASE Reset
    BY <2>2, TypeReset
  <2>3. CASE UNCHANGED vars
    BY <2>3 DEF vars, TypeOK
  <2>4. QED
    BY <2>1, <2>2, <2>3 DEF Next
<1>2. QED
  BY <1>1, TypeInit, PTL DEF Spec

-----------------------------------------------------------------------------
(* The invariant. *)

Context == TypeOK /\ PipeInv

-----------------------------------------------------------------------------
\* Only a store to RAM or RAM disk changes memory, never a word of the ROM
\* or of the flash.
LEMMA SeamStep == ASSUME Context, MemProcess PROVE RomSeam(mem') /\ FlashSeam(mem')
<1>1. CASE IsA("store") /\ DataTarget(alu_result) \in {"ram", "ramdisk"}
  <2>1. ASSUME NEW t \in {"rom", "xip"}, NEW a \in Word PROVE CellOf(t, a) # WrittenCell
    BY <1>1, AluType, MapAssumption DEF Context, WrittenCell, Mems
  <2>2. mem' = [mem EXCEPT ![WrittenCell] = Merge(instr_ex, alu_result, x, @)]
    BY <1>1 DEF MemProcess
  <2>3. ASSUME NEW t \in {"rom", "xip"}, NEW a \in Word
        PROVE  mem'[CellOf(t, a)] = mem[CellOf(t, a)]
    <3>1. CellOf(t, a) \in Cell
      BY MapAssumption DEF Mems
    <3>2. QED
      BY <2>1, <2>2, <3>1 DEF Context, TypeOK
  <2>4. QED
    BY <2>3 DEF Context, PipeInv, RomSeam, FlashSeam
<1>2. CASE ~(IsA("store") /\ DataTarget(alu_result) \in {"ram", "ramdisk"})
  BY <1>2 DEF MemProcess, Context, PipeInv
<1>3. QED
  BY <1>1, <1>2

\* The store's second write leaves memory as the first one made it.
LEMMA StoreTwice ==
  ASSUME Context, MemProcess, IsA("store"),
         DataTarget(alu_result) \in {"ram", "ramdisk"}
  PROVE  /\ mem'[WrittenCell] = Merge(instr_ex, alu_result, x, mem'[WrittenCell])
         /\ StoreDone => mem' = mem
<1>1. /\ instr_ex \in Word /\ alu_result \in Word /\ x \in RegFile
      /\ WrittenCell \in Cell /\ mem \in [Cell -> Word]
  BY RealType, AluType, MapAssumption DEF Context, IsA, TypeOK, WrittenCell, Mems
<1>2. mem' = [mem EXCEPT ![WrittenCell] = Merge(instr_ex, alu_result, x, mem[WrittenCell])]
  BY DEF MemProcess
<1>3. mem'[WrittenCell] = Merge(instr_ex, alu_result, x, mem[WrittenCell])
  BY <1>1, <1>2
<1>4. mem'[WrittenCell] = Merge(instr_ex, alu_result, x, mem'[WrittenCell])
  BY <1>1, <1>3, LaneAssumption
<1>5. ASSUME StoreDone PROVE mem' = mem
  BY <1>1, <1>2, <1>5 DEF Context, PipeInv, StoreShape
<1>6. QED
  BY <1>4, <1>5

\* While the engine reads a word of the flash the pipeline holds for it.
LEMMA EngineStep == ASSUME Context, Tick PROVE XipShape'
<1>1. pc_if' # pc_if => ~stall
  BY DEF Tick, Hold, Resume, Squash, SquashTo, Advance, pcs
<1>2. FlashMiss => pc_if' = pc_if
  BY <1>1 DEF FlashMiss, XipHit, stall, fetch_stall, fetch_ready
<1>3. CASE xip'.state # "Busy"
  BY <1>3 DEF XipShape
<1>4. CASE xip'.state = "Busy" /\ xip.state = "Busy"
  <2>1. xip' = xip
    BY <1>4 DEF Tick, XipProcess, Context, TypeOK, Xip
  <2>2. FetchTarget(xip.req) = "xip" => pc_if' = pc_if
    BY <1>2, <1>4 DEF Context, PipeInv, XipShape, FlashMiss, XipHit
  <2>3. QED
    BY <1>4, <2>1, <2>2 DEF Context, PipeInv, XipShape
<1>5. CASE xip'.state = "Busy" /\ xip.state # "Busy"
  <2>1. ~XipHit /\ xip' = [xip EXCEPT !.state = "Busy", !.req = pc_if]
    BY <1>5 DEF Tick, XipProcess, Context, TypeOK, Xip
  <2>2. xip'.req = pc_if /\ xip'.valid = xip.valid /\ xip'.last = xip.last
    BY <2>1 DEF Context, TypeOK, Xip
  <2>3. QED
    BY <1>2, <2>1, <2>2 DEF XipShape, FlashMiss, XipHit
<1>6. QED
  BY <1>3, <1>4, <1>5

\* When the word the fetch address names has just been read, the next word
\* has not.
LEMMA NextIsMiss ==
  ASSUME Context, XipProcess, fetch_ready, FetchTarget(pc_if) = "xip",
         FetchTarget(Plus4(pc_if)) = "xip"
  PROVE  ~(xip'.valid /\ xip'.last = Plus4(pc_if))
<1>1. xip.valid /\ xip.last = pc_if /\ pc_if # Plus4(pc_if)
  BY DataPathAssumption DEF fetch_ready, Context, TypeOK
<1>2. CASE xip.state = "Busy"
  <2>1. FetchTarget(xip.req) # "xip"
    BY <1>1, <1>2 DEF Context, PipeInv, XipShape
  <2>2. xip'.last \in {xip.last, xip.req}
    BY <1>2 DEF XipProcess, Context, TypeOK, Xip
  <2>3. QED
    BY <1>1, <2>1, <2>2
<1>3. CASE xip.state # "Busy"
  <2>1. xip'.last = xip.last
    BY <1>3 DEF XipProcess, Context, TypeOK, Xip
  <2>2. QED
    BY <1>1, <2>1
<1>4. QED
  BY <1>2, <1>3

-----------------------------------------------------------------------------
\* The pipeline moves on: an access in EX has its own acknowledge, the units
\* have nothing to do and memory stays as it is.
LEMMA FlowFacts ==
  ASSUME Context, ~stall
  PROVE  /\ \A t \in Mems : Strobed(t) => ~dispatched /\ ack[t]
         /\ ~mult_start /\ mult.state = "Idle"
         /\ ~div_start /\ div.state = "Idle"
         /\ MemProcess => mem' = mem
<1>1. ASSUME NEW t \in Mems, Strobed(t) PROVE ~dispatched /\ ack[t]
  <2>1. ack[t] /\ stb
    BY <1>1 DEF Strobed, cpu_ack, stall, ex_stall
  <2>2. ~FlashMiss
    BY DEF FlashMiss, XipHit, stall, fetch_stall, fetch_ready
  <2>3. QED
    BY <2>1, <2>2 DEF Context, PipeInv, AckShape
<1>2. mult.state = "Idle" /\ div.state = "Idle"
  BY DEF stall, ex_stall, mult_busy, div_busy, Busy
<1>3. ~mult_start /\ ~div_start
  BY DEF stall, ex_stall, mult_busy, div_busy, Busy, mult_start, div_start,
         Context, PipeInv, UnitsShape, UnitShape
<1>4. MemProcess => mem' = mem
  <2>1. SUFFICES ASSUME MemProcess, IsA("store"),
                        DataTarget(alu_result) \in {"ram", "ramdisk"}
                 PROVE  mem' = mem
    BY DEF MemProcess
  <2>2. StoreDone
    BY <1>1, <2>1 DEF StoreDone, Strobed, stb, Mems
  <2>3. QED
    BY <2>1, <2>2, StoreTwice
<1>5. QED
  BY <1>1, <1>2, <1>3, <1>4

\* What the fetch path hands to EX is the word at pc_if.
LEMMA FetchFacts ==
  ASSUME Context, ~stall, ~redirect_d1, ~ex_stall_d1
  PROVE  instr_if = Fetched(pc_if)
<1>1. FetchTarget(pc_if) \in Mems \cup {"xip"} /\ pc_if \in Word
  BY MapAssumption DEF Context, TypeOK
<1>2. CASE FetchTarget(pc_if) = "xip"
  <2>1. xip.last = pc_if
    BY <1>2 DEF stall, fetch_stall, fetch_ready
  <2>2. QED
    BY <1>2, <2>1 DEF instr_if, Fetched, MemRead
<1>3. ASSUME FetchTarget(pc_if) # "xip"
      PROVE  fetch_dout[FetchTarget(pc_if)] = mem[CellOf(FetchTarget(pc_if), pc_if)]
  BY <1>1, <1>3 DEF Context, PipeInv, FetchShape
<1>4. CASE FetchTarget(pc_if) \in {"ram", "ramdisk"}
  BY <1>3, <1>4 DEF instr_if, Fetched, MemRead
<1>5. CASE FetchTarget(pc_if) = "rom"
  <2>1. pc_reg = Plus4(pc_if)
    BY DEF Context, PipeInv, PcShape
  <2>2. RomMask(pc_reg, mem[CellOf("rom", pc_if)]) = RomMask(pc_if, mem[CellOf("rom", pc_if)])
    BY <1>1, <1>5, <2>1 DEF RomMask, Context, PipeInv, RomSeam
  <2>3. QED
    BY <1>3, <1>5, <2>2 DEF instr_if, Fetched, MemRead
<1>6. QED
  BY <1>1, <1>2, <1>4, <1>5 DEF Mems

-----------------------------------------------------------------------------
LEMMA FlowStep ==
  ASSUME Context, Tick, ~stall, ~ex_stall_d1
  PROVE  PipeInv'
<1>1. /\ \A t \in Mems : Strobed(t) => ~dispatched /\ ack[t]
      /\ ~mult_start /\ mult.state = "Idle"
      /\ ~div_start /\ div.state = "Idle"
      /\ mem' = mem
  BY FlowFacts DEF Tick
<1>2. ~ex_stall_d1' /\ dispatched'
  BY DEF Tick, StallRegister, stall
<1>3. Squash \/ Advance
  BY DEF Tick, Hold, Resume, resume_flush
<1>4. PcShape'
  <2>1. CASE Squash
    BY <2>1 DEF Squash, SquashTo, PcShape, Real, next_pc
  <2>2. CASE Advance
    BY <2>2 DEF Advance, PcShape, Context, PipeInv
  <2>3. QED
    BY <1>3, <2>1, <2>2
<1>5. FetchShape'
  BY <1>1, <1>3 DEF FetchShape, Squash, SquashTo, Advance, Tick, FetchPort
<1>6. StallShape' /\ WaitShape'
  BY <1>2 DEF StallShape, WaitShape
<1>7. AckShape'
  <2>1. SUFFICES ASSUME NEW t \in Mems, stb', ack'[t] PROVE FlashMiss'
    BY <1>2 DEF AckShape
  <2>2. Strobed(t)
    BY <2>1 DEF Tick, AckPort
  <2>3. FetchTarget(pc_if) = "xip" /\ fetch_ready
    <3>1. Real
      BY <2>2 DEF Strobed, stb, IsA
    <3>2. QED
      BY <1>1, <2>2, <3>1 DEF Context, PipeInv, StallShape, stall, fetch_stall
  <2>4. CASE Squash
    BY <2>1, <2>4 DEF Squash, SquashTo, stb, IsA, Real
  <2>5. CASE Advance
    <3>1. pc_if' = Plus4(pc_if) /\ pc_if \in Word
      BY <2>5 DEF Advance, Context, TypeOK, PipeInv, PcShape
    <3>2. instr_ex' = mem[CellOf("xip", pc_if)]
      BY <2>3, <2>5 DEF Advance, instr_if, fetch_ready
    <3>3. Class(instr_ex') \in {"load", "store"}
      BY <2>1 DEF stb, IsA
    <3>4. FetchTarget(Plus4(pc_if)) = "xip"
      BY <2>3, <3>1, <3>2, <3>3 DEF Context, PipeInv, FlashSeam
    <3>5. ~(xip'.valid /\ xip'.last = Plus4(pc_if))
      BY <2>3, <3>4, NextIsMiss DEF Tick
    <3>6. QED
      BY <3>1, <3>4, <3>5 DEF FlashMiss, XipHit
  <2>6. QED
    BY <1>3, <2>4, <2>5
<1>8. StoreShape'
  BY <1>2 DEF StoreShape, StoreDone
<1>9. UnitsShape'
  <2>1. /\ mult'.state = "Idle" /\ ~mult'.start
        /\ div'.state = "Idle" /\ ~div'.start
    BY <1>1 DEF Tick, MultProcess, DivProcess, Begin, UnitReset
  <2>2. QED
    BY <1>2, <2>1 DEF UnitsShape, UnitShape
<1>10. ExecutesFetched'
  <2>1. CASE Squash
    BY <2>1 DEF Squash, SquashTo, ExecutesFetched, Real
  <2>2. CASE Advance
    <3>1. instr_ex' = Fetched(pc_if) /\ pc_ex' = pc_if
      BY <2>2, FetchFacts DEF Advance
    <3>2. QED
      BY <1>1, <3>1 DEF ExecutesFetched, Fetched
  <2>3. QED
    BY <1>3, <2>1, <2>2
<1>11. XipShape' /\ RomSeam(mem') /\ FlashSeam(mem')
  BY EngineStep, SeamStep DEF Tick
<1>12. QED
  BY <1>4, <1>5, <1>6, <1>7, <1>8, <1>9, <1>10, <1>11 DEF PipeInv

-----------------------------------------------------------------------------
\* An instruction that waits in EX is a load or store of a memory, a
\* multiplication or a division.
LEMMA WaitFacts ==
  ASSUME Context, ex_stall
  PROVE  /\ Real
         /\ IsA("mul") \/ IsA("div") \/ \E t \in Mems : Strobed(t)
<1>1. IsA("mul") \/ IsA("div") \/ \E t \in Mems : Strobed(t)
  <2>1. CASE stb /\ ~cpu_ack
    BY <2>1 DEF cpu_ack, Strobed
  <2>2. CASE mult_busy
    BY <2>2 DEF mult_busy, Busy, mult_start, Context, PipeInv, UnitsShape, UnitShape
  <2>3. CASE div_busy
    BY <2>3 DEF div_busy, Busy, div_start, Context, PipeInv, UnitsShape, UnitShape
  <2>4. QED
    BY <2>1, <2>2, <2>3 DEF ex_stall
<1>2. QED
  BY <1>1 DEF IsA, Strobed, stb

\* A multiplication or division that waits has started its unit or starts
\* it now.
LEMMA BusyFacts ==
  ASSUME Context, ex_stall
  PROVE  /\ IsA("mul") => mult.state # "Idle" \/ mult_start
         /\ IsA("div") => div.state # "Idle" \/ div_start
<1>1. ~stb \/ (~IsA("mul") /\ ~IsA("div"))
  BY DEF stb, IsA
<1>2. IsA("mul") => ~IsA("div") /\ ~div_busy
  BY DEF IsA, div_busy, Busy, div_start, Context, PipeInv, UnitsShape, UnitShape
<1>3. IsA("div") => ~IsA("mul") /\ ~mult_busy
  BY DEF IsA, mult_busy, Busy, mult_start, Context, PipeInv, UnitsShape, UnitShape
<1>4. QED
  BY <1>1, <1>2, <1>3 DEF ex_stall, mult_busy, div_busy, Busy

LEMMA HoldStep ==
  ASSUME Context, Tick, stall
  PROVE  PipeInv'
<1>1. UNCHANGED <<pc_reg, pc_if, pc_ex, instr_ex, redirect_d1>>
  BY DEF Tick, Hold, Resume, Squash, SquashTo, Advance, pcs
<1>2. x' = x /\ ex_stall_d1' = ex_stall /\ ~dispatched'
  BY DEF Tick, RegFileProcess, StallRegister
<1>3. /\ alu_result' = alu_result /\ (Real' <=> Real)
      /\ \A c : IsA(c)' <=> IsA(c)
      /\ stb' <=> stb
      /\ \A t : Strobed(t)' <=> Strobed(t)
  <2>1. alu_result' = alu_result /\ (Real' <=> Real)
    BY <1>1, <1>2 DEF alu_result, Real
  <2>2. \A c : IsA(c)' <=> IsA(c)
    BY <1>1 DEF IsA, Real
  <2>3. QED
    BY <2>1, <2>2 DEF Strobed, stb
<1>4. ASSUME ~(IsA("store") /\ DataTarget(alu_result) \in {"ram", "ramdisk"})
      PROVE  mem' = mem
  BY <1>4 DEF Tick, MemProcess
<1>5. ~ex_stall => FetchTarget(pc_if) = "xip"
  BY DEF stall, fetch_stall
<1>6. PcShape'
  BY <1>1, <1>3 DEF PcShape, Context, PipeInv
<1>7. FetchShape'
  BY <1>1, <1>2, <1>5 DEF FetchShape
<1>8. StallShape' /\ WaitShape'
  BY <1>1, <1>2, <1>3, <1>5, WaitFacts DEF StallShape, WaitShape
<1>9. AckShape'
  <2>1. ASSUME NEW t \in Mems
        PROVE  /\ ack'[t] <=> Strobed(t)
               /\ Strobed(t) /\ IsA("load") =>
                    data_dout'[t] = mem'[CellOf(t, alu_result)]
    <3>1. ack'[t] <=> Strobed(t)
      BY DEF Tick, AckPort
    <3>2. IsA("load") => ~IsA("store")
      BY DEF IsA
    <3>3. QED
      BY <1>4, <3>1, <3>2 DEF Tick, DataPort
  <2>2. QED
    BY <1>2, <1>3, <2>1 DEF AckShape
<1>10. StoreShape'
  <2>1. SUFFICES ASSUME StoreDone' PROVE
          mem'[WrittenCell'] = Merge(instr_ex, alu_result, x, mem'[WrittenCell'])
    BY <1>1, <1>2, <1>3 DEF StoreShape
  <2>2. IsA("store") /\ DataTarget(alu_result) \in {"ram", "ramdisk"}
    BY <1>3, <2>1 DEF StoreDone
  <2>3. WrittenCell' = WrittenCell
    BY <1>3 DEF WrittenCell
  <2>4. QED
    BY <2>2, <2>3, StoreTwice DEF Tick
<1>11. UnitsShape'
  <2>1. UnitShape(mult, "mul", MulResult(instr_ex, x))' /\ mult'.state # "Check"
    <3>1. CASE mult.state = "Idle" /\ mult_start
      <4>1. IsA("mul") /\ ~mult.start /\ Real
        BY <3>1 DEF mult_start, IsA, Context, PipeInv, UnitsShape, UnitShape
      <4>2. mult' = [state |-> "Calc", start |-> TRUE, valid |-> FALSE,
                     cycles |-> 0, result |-> MulResult(instr_ex, x)]
        BY <3>1, <4>1 DEF Tick, MultProcess, Begin
      <4>3. QED
        BY <1>1, <1>2, <1>3, <4>1, <4>2 DEF UnitShape
    <3>2. CASE mult.state = "Idle" /\ ~mult_start
      <4>1. ~(IsA("mul") /\ ex_stall)
        BY <3>2, BusyFacts
      <4>2. mult'.state = "Idle" /\ ~mult'.start
        BY <3>2 DEF Tick, MultProcess, Begin, UnitReset
      <4>3. QED
        BY <1>2, <1>3, <4>1, <4>2 DEF UnitShape
    <3>3. CASE mult.state # "Idle"
      <4>1. IsA("mul") /\ mult.start /\ mult.result = MulResult(instr_ex, x)
        BY <3>3 DEF Context, PipeInv, UnitsShape, UnitShape
      <4>2. /\ mult'.start /\ mult'.result = mult.result
            /\ mult'.state \in {"Idle", "Calc"}
            /\ mult'.state = "Idle" => mult'.valid
        BY <3>3, <4>1 DEF Tick, MultProcess, Step, Context, TypeOK, Unit, PipeInv, UnitsShape
      <4>3. QED
        BY <1>1, <1>2, <1>3, <4>1, <4>2 DEF UnitShape
    <3>4. QED
      BY <3>1, <3>2, <3>3
  <2>2. UnitShape(div, "div", DivResult(instr_ex, x))'
    <3>1. CASE div.state = "Idle" /\ div_start
      <4>1. IsA("div") /\ ~div.start /\ Real
        BY <3>1 DEF div_start, IsA, Context, PipeInv, UnitsShape, UnitShape
      <4>2. div' = [state |-> "Check", start |-> TRUE, valid |-> FALSE,
                    cycles |-> 0, result |-> DivResult(instr_ex, x)]
        BY <3>1, <4>1 DEF Tick, DivProcess, Begin
      <4>3. QED
        BY <1>1, <1>2, <1>3, <4>1, <4>2 DEF UnitShape
    <3>2. CASE div.state = "Idle" /\ ~div_start
      <4>1. ~(IsA("div") /\ ex_stall)
        BY <3>2, BusyFacts
      <4>2. div'.state = "Idle" /\ ~div'.start
        BY <3>2 DEF Tick, DivProcess, Begin, UnitReset
      <4>3. QED
        BY <1>2, <1>3, <4>1, <4>2 DEF UnitShape
    <3>3. CASE div.state # "Idle"
      <4>1. IsA("div") /\ div.start /\ div.result = DivResult(instr_ex, x)
        BY <3>3 DEF Context, PipeInv, UnitsShape, UnitShape
      <4>2. /\ div'.start /\ div'.result = div.result
            /\ div'.state = "Idle" => div'.valid
        <5>1. CASE div.state = "Check"
          BY <4>1, <5>1 DEF Tick, DivProcess, Context, TypeOK, Unit
        <5>2. CASE div.state = "Calc"
          BY <4>1, <5>2 DEF Tick, DivProcess, Step, Context, TypeOK, Unit
        <5>3. QED
          BY <3>3, <5>1, <5>2 DEF Context, TypeOK, Unit
      <4>3. QED
        BY <1>1, <1>2, <1>3, <4>1, <4>2 DEF UnitShape
    <3>4. QED
      BY <3>1, <3>2, <3>3
  <2>3. QED
    BY <2>1, <2>2 DEF UnitsShape
<1>12. ExecutesFetched'
  <2>1. SUFFICES ASSUME Real', ~StoreDone' PROVE instr_ex' = Fetched(pc_ex)'
    BY DEF ExecutesFetched
  <2>2. ~(IsA("store") /\ DataTarget(alu_result) \in {"ram", "ramdisk"})
    BY <1>2, <1>3, <2>1 DEF StoreDone
  <2>3. instr_ex = Fetched(pc_ex)
    BY <1>3, <2>1, <2>2 DEF Context, PipeInv, ExecutesFetched, StoreDone
  <2>4. QED
    BY <1>1, <1>4, <2>2, <2>3 DEF Fetched
<1>13. XipShape' /\ RomSeam(mem') /\ FlashSeam(mem')
  BY EngineStep, SeamStep DEF Tick
<1>14. QED
  BY <1>6, <1>7, <1>8, <1>9, <1>10, <1>11, <1>12, <1>13 DEF PipeInv

-----------------------------------------------------------------------------
\* What a rewind and a reset leave: a bubble whose successor is squashed.
Fresh == /\ ~Real /\ redirect_d1 /\ ~ex_stall_d1
         /\ mult.state = "Idle" /\ ~mult.start
         /\ div.state = "Idle" /\ ~div.start
         /\ XipShape /\ RomSeam(mem) /\ FlashSeam(mem)

LEMMA FreshState == Fresh => PipeInv
<1> SUFFICES ASSUME Fresh PROVE PipeInv
  OBVIOUS
<1>1. \A c : ~IsA(c)
  BY DEF IsA, Fresh
<1>2. UnitsShape /\ AckShape
  BY <1>1 DEF UnitsShape, UnitShape, AckShape, Strobed, stb, Fresh
<1>3. PcShape /\ FetchShape /\ StallShape /\ WaitShape /\ StoreShape /\ ExecutesFetched
  BY <1>1 DEF PcShape, FetchShape, StallShape, WaitShape, StoreShape,
              StoreDone, ExecutesFetched, Fresh
<1>4. QED
  BY <1>2, <1>3 DEF PipeInv, Fresh

LEMMA ResumeStep ==
  ASSUME Context, Tick, ~stall, ex_stall_d1
  PROVE  Fresh'
<1>1. ~mult_start /\ ~div_start /\ mult.state = "Idle" /\ div.state = "Idle"
  BY FlowFacts
<1>2. Resume
  BY DEF Tick, Hold, Squash, SquashTo, Advance, resume_flush, stall
<1>3. ~Real' /\ redirect_d1' /\ ~ex_stall_d1'
  BY <1>2 DEF Resume, Real, Tick, StallRegister, stall
<1>4. /\ mult'.state = "Idle" /\ ~mult'.start
      /\ div'.state = "Idle" /\ ~div'.start
  BY <1>1 DEF Tick, MultProcess, DivProcess, Begin, UnitReset
<1>5. XipShape' /\ RomSeam(mem') /\ FlashSeam(mem')
  BY EngineStep, SeamStep DEF Tick
<1>6. QED
  BY <1>3, <1>4, <1>5 DEF Fresh

LEMMA ResetStep == ASSUME Context, Reset PROVE Fresh'
<1>1. RomSeam(mem') /\ FlashSeam(mem')
  BY SeamStep DEF Reset
<1>2. xip'.state = "Disabled"
  BY DEF Reset, Context, TypeOK, Xip
<1>3. QED
  BY <1>1, <1>2 DEF Reset, Fresh, Real, UnitReset, XipShape

LEMMA InitFresh == ASSUME SeamsClear, Init PROVE Fresh
  BY DEF SeamsClear, Init, Fresh, Real, UnitReset, XipShape, XipReset

LEMMA PipeStep ==
  ASSUME Context, [Next]_vars
  PROVE  PipeInv' \/ Fresh'
<1>1. CASE Tick
  BY <1>1, FlowStep, HoldStep, ResumeStep DEF Context, TypeOK
<1>2. CASE Reset
  BY <1>2, ResetStep
<1>3. CASE UNCHANGED vars
  BY <1>3 DEF vars, Context, PipeInv, PcShape, FetchShape, StallShape, AckShape,
     StoreShape, UnitsShape, UnitShape, WaitShape, XipShape, ExecutesFetched,
     StoreDone, FlashMiss, XipHit, Strobed, stb, IsA, Real, alu_result,
     WrittenCell, Fetched
<1>4. QED
  BY <1>1, <1>2, <1>3 DEF Next

-----------------------------------------------------------------------------
\* With any programs, memory map, data path and interrupts, bubbles, rewinds
\* and the flash's stalls always line the fetch port up with the program
\* counter, every unit result belongs to the instruction in EX, and an
\* acknowledge that does not meets a pipeline that is held.
THEOREM PipelineInvariant ==
  ASSUME SeamsClear
  PROVE  Spec => []PipeInv
<1>1. Init => PipeInv
  BY InitFresh, FreshState
<1>2. TypeOK /\ PipeInv /\ [Next]_vars => PipeInv' \/ Fresh'
  BY PipeStep DEF Context
<1>3. QED
  BY <1>1, <1>2, FreshState, TypeCorrect, PTL DEF Spec

\* What is in EX is the word memory holds at pc_ex, whatever stalled the
\* fetch, redirected it, or rewrote the word meanwhile.
THEOREM FetchedExecutes ==
  ASSUME SeamsClear
  PROVE  Spec => []ExecutesFetched
<1>1. PipeInv => ExecutesFetched
  BY DEF PipeInv
<1>2. QED
  BY <1>1, PipelineInvariant, PTL

\* No access to a memory completes on an acknowledge another one has left
\* behind, and what a load gets is the word its address names.
THEOREM AcksBelong ==
  ASSUME SeamsClear
  PROVE  Spec => []NoStaleAck
<1>1. Context => NoStaleAck
  <2> SUFFICES ASSUME Context, stb, DataTarget(alu_result) \in Mems, ~stall
               PROVE  /\ ~dispatched
                      /\ IsA("load") => cpu_rsp = MemRead(mem, DataTarget(alu_result), alu_result)
    BY DEF NoStaleAck
  <2>1. Strobed(DataTarget(alu_result))
    BY DEF Strobed
  <2>2. ~dispatched
    BY <2>1, FlowFacts
  <2>3. ASSUME IsA("load")
        PROVE  data_dout[DataTarget(alu_result)]
                 = mem[CellOf(DataTarget(alu_result), alu_result)]
    BY <2>1, <2>2, <2>3 DEF Context, PipeInv, AckShape
  <2>4. QED
    BY <2>2, <2>3 DEF cpu_rsp, MemRead, Mems
<1>2. QED
  BY <1>1, PipelineInvariant, TypeCorrect, PTL DEF Context

-----------------------------------------------------------------------------
(* The pipeline implements the sequential machine.  Every clock edge is an *)
(* instruction of TinyISAImprecise, a trap, a reset or a wait: the step is *)
(* taken in the cycle the instruction leaves EX, except that of a store to *)
(* RAM, which is taken when the word is first written.                     *)

\* What a flash fetch has held without a stall of EX is harmless to hold.
HeldShape ==
  Real /\ ~dispatched /\ ~ex_stall_d1 =>
    ~IsA("mul") /\ ~IsA("div") /\ ~IsA("csr") /\ ~IsA("mret") /\ ~Strobed("periph")

Setting == Context /\ HeldShape

\* A store to RAM, which acts before it leaves EX.
RamStore == IsA("store") /\ DataTarget(alu_result) \in {"ram", "ramdisk"}

LEMMA HeldStep ==
  ASSUME HarmlessHold, [Next]_vars, HeldShape
  PROVE  HeldShape'
<1>1. CASE Tick /\ stall
  <2>1. UNCHANGED <<pc_ex, instr_ex, x>> /\ ex_stall_d1' = ex_stall
    BY <1>1 DEF Tick, Hold, Resume, Squash, SquashTo, Advance, pcs,
                RegFileProcess, StallRegister
  <2>2. QED
    BY <1>1, <2>1 DEF HeldShape, HarmlessHold, stall, IsA, Real, Strobed, stb, alu_result
<1>2. CASE Tick /\ ~stall
  BY <1>2 DEF Tick, StallRegister, HeldShape
<1>3. CASE Reset
  BY <1>3 DEF Reset, HeldShape, Real
<1>4. CASE UNCHANGED vars
  BY <1>4 DEF vars, HeldShape, IsA, Real, Strobed, stb, alu_result
<1>5. QED
  BY <1>1, <1>2, <1>3, <1>4 DEF Next

-----------------------------------------------------------------------------
(* What the sequential machine sees of the instruction in EX. *)

LEMMA AtInstruction ==
  ASSUME Context, Real, ~StoreDone
  PROVE  /\ ArchPC = pc_ex
         /\ ISA!w = instr_ex
         /\ ISA!Addr = alu_result
         /\ ~redirect_d1 /\ pc_if = Plus4(pc_ex) /\ pc_reg = Plus4(pc_if)
<1>1. ~redirect_d1 /\ pc_if = Plus4(pc_ex) /\ pc_reg = Plus4(pc_if)
  BY DEF Context, PipeInv, PcShape
<1>2. ArchPC = pc_ex
  BY <1>1 DEF ArchPC
<1>3. instr_ex = Fetched(pc_ex)
  BY DEF Context, PipeInv, ExecutesFetched
<1>4. ISA!w = instr_ex
  BY <1>2, <1>3 DEF ISA!w, ISA!Instruction, Fetched, ISA!MemRead, MemRead,
                    ISA!RomMask, RomMask
<1>5. QED
  BY <1>1, <1>2, <1>4 DEF ISA!Addr, alu_result

\* When the instruction leaves EX, rd_data is what it computes.
LEMMA ResultReady ==
  ASSUME Setting, ~stall, Real, ~StoreDone
  PROVE  reg_we => rd_data = ISA!RdValue
<1>1. ISA!w = instr_ex /\ ISA!Addr = alu_result
  BY AtInstruction DEF Setting
<1>2. CASE IsA("load")
  <2>1. alu_result \in Word
    BY AluType DEF Setting, Context
  <2>2. DataTarget(alu_result) \in Mems \cup {"periph", "none"}
    BY <2>1, MapAssumption
  <2>3. DataTarget(alu_result) \in Mems =>
          data_dout[DataTarget(alu_result)] = mem[CellOf(DataTarget(alu_result), alu_result)]
    BY <1>2, FlowFacts DEF Setting, Context, PipeInv, AckShape, Strobed, stb
  <2>4. cpu_rsp = ISA!BusWord
    <3>1. CASE DataTarget(alu_result) \in Mems
      BY <1>1, <2>3, <3>1 DEF cpu_rsp, ISA!BusWord, ISA!MemRead, ISA!Mems, Mems,
                              ISA!RomMask, RomMask
    <3>2. CASE DataTarget(alu_result) \in {"periph", "none"}
      BY <1>1, <3>2 DEF cpu_rsp, ISA!BusWord, ISA!Mems, Mems
    <3>3. QED
      BY <2>2, <3>1, <3>2
  <2>5. QED
    BY <1>1, <1>2, <2>4 DEF rd_data, ISA!RdValue, IsA
<1>3. CASE IsA("csr")
  BY <1>1, <1>3 DEF rd_data, ISA!RdValue, IsA, ISA!CsrRead, CsrRead, ISA!CsrNames, CsrNames
<1>4. CASE IsA("mul")
  <2>1. ~dispatched /\ mult.state = "Idle"
    BY <1>4, FlowFacts DEF Setting, mult_start
  <2>2. ex_stall_d1
    BY <1>4, <2>1 DEF Setting, HeldShape
  <2>3. mult.valid /\ mult.result = MulResult(instr_ex, x)
    BY <1>4, <2>1, <2>2 DEF Setting, Context, PipeInv, UnitsShape, UnitShape
  <2>4. QED
    BY <1>1, <1>4, <2>3 DEF rd_data, ISA!RdValue, IsA
<1>5. CASE IsA("div")
  <2>1. ~dispatched /\ div.state = "Idle"
    BY <1>5, FlowFacts DEF Setting, div_start
  <2>2. ex_stall_d1
    BY <1>5, <2>1 DEF Setting, HeldShape
  <2>3. div.valid /\ div.result = DivResult(instr_ex, x)
    BY <1>5, <2>1, <2>2 DEF Setting, Context, PipeInv, UnitsShape, UnitShape
  <2>4. QED
    BY <1>1, <1>5, <2>3 DEF rd_data, ISA!RdValue, IsA
<1>6. CASE IsA("alu") \/ IsA("jump")
  BY <1>1, <1>6 DEF rd_data, ISA!RdValue, IsA
<1>7. QED
  BY <1>2, <1>3, <1>4, <1>5, <1>6 DEF reg_we

\* What the edge on which the instruction leaves EX does to the registers
\* and the memories.
LEMMA Completed ==
  ASSUME Setting, ~stall, Real, ~StoreDone, RegFileProcess, MemProcess
  PROVE  x' = ISA!RegsAfter /\ mem' = ISA!MemAfter
<1>1. ISA!w = instr_ex /\ ISA!Addr = alu_result
  BY AtInstruction DEF Setting
<1>2. x' = ISA!RegsAfter
  <2>1. reg_we <=> Class(instr_ex) \in {"alu", "mul", "div", "load", "jump", "csr"}
    BY DEF reg_we, IsA
  <2>2. CASE reg_we
    <3>1. x' = WriteRd(instr_ex, x, rd_data)
      BY <2>2 DEF RegFileProcess
    <3>2. QED
      BY <1>1, <2>1, <2>2, <3>1, ResultReady DEF ISA!RegsAfter
  <2>3. CASE ~reg_we
    BY <1>1, <2>1, <2>3 DEF RegFileProcess, ISA!RegsAfter
  <2>4. QED
    BY <2>2, <2>3
<1>3. mem' = ISA!MemAfter
  BY <1>1 DEF MemProcess, ISA!MemAfter, IsA, WrittenCell
<1>4. QED
  BY <1>2, <1>3

\* What it does to the peripherals.
LEMMA DeviceStep ==
  ASSUME Context, Real, ~StoreDone
  PROVE  Accessed = ISA!DevAfter
<1>1. ISA!w = instr_ex /\ ISA!Addr = alu_result
  BY AtInstruction
<1>2. QED
  BY <1>1 DEF Accessed, ISA!DevAfter, Strobed, stb, IsA

-----------------------------------------------------------------------------
(* Each kind of edge is a step of the sequential machine. *)

\* Held: the first write of a store to RAM executes it, all else waits.
LEMMA HoldSimulates ==
  ASSUME Setting, HarmlessHold, Tick, stall
  PROVE  ISA!Execute \/ ISA!Wait
<1>1. UNCHANGED <<pc_reg, pc_if, pc_ex, instr_ex, redirect_d1>>
  BY DEF Tick, Hold, Resume, Squash, SquashTo, Advance, pcs
<1>2. x' = x /\ ~dispatched'
  BY DEF Tick, RegFileProcess, StallRegister
<1>3. (Real' <=> Real) /\ (StoreDone' <=> RamStore)
  BY <1>1, <1>2 DEF Real, StoreDone, RamStore, IsA, alu_result
<1>4. ~IsA("csr") /\ ~IsA("mret") /\ ~Strobed("periph")
  <2>1. CASE ex_stall
    BY <2>1, WaitFacts DEF Setting, IsA, Strobed, stb, Mems
  <2>2. CASE ~ex_stall
    BY <2>2 DEF HarmlessHold, stall
  <2>3. QED
    BY <2>1, <2>2
<1>5. csr' = csr
  BY <1>4 DEF Tick, CsrProcess, is_trap
<1>6. dev' \in DevMoves(dev)
  BY <1>4 DEF Tick, DevProcess, Accessed
<1>7. CASE RamStore /\ ~StoreDone
  <2>1. Real /\ Class(instr_ex) = "store" /\ IsA("store")
    BY <1>7 DEF RamStore, IsA
  <2>2. /\ ArchPC = pc_ex /\ ISA!w = instr_ex /\ ISA!Addr = alu_result
        /\ ~redirect_d1
    BY <1>7, <2>1, AtInstruction DEF Setting
  <2>3. ArchPC' = ISA!PcAfter
    BY <1>1, <1>3, <1>7, <2>1, <2>2 DEF ArchPC, ISA!PcAfter
  <2>4. x' = ISA!RegsAfter
    BY <1>2, <2>1, <2>2 DEF ISA!RegsAfter
  <2>5. mem' = ISA!MemAfter
    BY <1>7, <2>1, <2>2 DEF RamStore, Tick, MemProcess, ISA!MemAfter, WrittenCell
  <2>6. csr' = ISA!CsrAfter
    BY <1>5, <2>1, <2>2 DEF ISA!CsrAfter
  <2>7. ISA!DevAfter = dev
    BY <1>7, <2>2 DEF RamStore, ISA!DevAfter
  <2>8. QED
    BY <1>6, <2>3, <2>4, <2>5, <2>6, <2>7 DEF ISA!Execute
<1>8. CASE ~(RamStore /\ ~StoreDone)
  <2>1. StoreDone' <=> StoreDone
    BY <1>3, <1>8 DEF StoreDone, RamStore
  <2>2. ArchPC' = ArchPC
    BY <1>1, <1>3, <2>1 DEF ArchPC
  <2>3. mem' = mem
    BY <1>8, StoreTwice DEF Tick, MemProcess, RamStore, Setting
  <2>4. QED
    BY <1>2, <1>5, <1>6, <2>2, <2>3 DEF ISA!Wait
<1>9. QED
  BY <1>7, <1>8

\* A trap of the pipeline is one of the imprecise machine.
LEMMA TrapFacts ==
  ASSUME Context, Tick, is_trap
  PROVE  /\ ISA!Interrupted /\ pc_ex \in Word
         /\ csr' = ISA!CsrTrap(csr, irq, pc_ex)
         /\ redirect /\ redirect_target = ISA!Handler
<1>1. ISA!Interrupted
  BY DEF is_trap, pending, Pending, ISA!Interrupted, ISA!Pending
<1>2. csr' = ISA!CsrTrap(csr, irq, pc_ex)
  BY DEF Tick, CsrProcess, CsrTrap, ISA!CsrTrap, Pending, ISA!Pending, Priority, ISA!Priority
<1>3. redirect /\ redirect_target = ISA!Handler
  BY DEF redirect, redirect_target, pending, Pending, ISA!Pending, ISA!Handler,
         Priority, ISA!Priority
<1>4. QED
  BY <1>1, <1>2, <1>3 DEF Context, TypeOK

\* The wait is over: the instruction completes here, a store to RAM has
\* done so before; a trap in this cycle is not entered.
LEMMA ResumeSimulates ==
  ASSUME Setting, Tick, ~stall, ex_stall_d1
  PROVE  ISA!Execute \/ ISA!Wait \/ ISA!TrapLost
<1>1. Resume /\ Real /\ ~dispatched
  BY DEF Setting, Context, PipeInv, StallShape, Tick, Hold, Squash, SquashTo,
         Advance, resume_flush, stall
<1>2. ArchPC' = pc_if /\ pc_if = Plus4(pc_ex)
  BY <1>1 DEF Resume, ArchPC, Setting, Context, PipeInv, PcShape
<1>3. IsA("mul") \/ IsA("div") \/ \E t \in Mems : Strobed(t)
  BY DEF Setting, Context, PipeInv, WaitShape
<1>4. Class(instr_ex) \in {"mul", "div", "load", "store"} /\ ~Strobed("periph")
  BY <1>3 DEF IsA, Strobed, stb, Mems
<1>5. dev' \in DevMoves(dev)
  BY <1>4 DEF Tick, DevProcess, Accessed
<1>6. ~is_trap => csr' = csr
  BY <1>4 DEF Tick, CsrProcess, IsA
<1>7. is_trap => /\ ISA!Interrupted
                 /\ \E a \in Word : csr' = ISA!CsrTrap(csr, irq, a)
  BY TrapFacts DEF Setting
<1>8. CASE StoreDone
  <2>1. ArchPC = Plus4(pc_ex)
    BY <1>1, <1>8 DEF ArchPC, Setting, Context, PipeInv, PcShape
  <2>2. x' = x
    BY <1>8 DEF Tick, RegFileProcess, reg_we, StoreDone, IsA
  <2>3. mem' = mem
    BY FlowFacts DEF Tick, Setting
  <2>4. QED
    BY <1>2, <1>5, <1>6, <1>7, <2>1, <2>2, <2>3 DEF ISA!Wait, ISA!TrapLost
<1>9. CASE ~StoreDone
  <2>1. ArchPC = pc_ex /\ ISA!w = instr_ex
    BY <1>1, <1>9, AtInstruction DEF Setting
  <2>2. ArchPC' = ISA!PcAfter
    BY <1>2, <1>4, <2>1 DEF ISA!PcAfter
  <2>3. x' = ISA!RegsAfter /\ mem' = ISA!MemAfter
    BY <1>1, <1>9, Completed DEF Tick
  <2>4. dev' \in DevMoves(ISA!DevAfter)
    BY <1>1, <1>9, DeviceStep DEF Tick, DevProcess, Setting
  <2>5. csr = ISA!CsrAfter
    BY <1>4, <2>1 DEF ISA!CsrAfter
  <2>6. QED
    BY <1>6, <1>7, <2>2, <2>3, <2>4, <2>5 DEF ISA!Execute, ISA!TrapLost
<1>10. QED
  BY <1>8, <1>9

\* The program counter of the programmer after an edge that flows.
LEMMA FlowTarget ==
  ASSUME Setting, Tick, ~stall, ~ex_stall_d1
  PROVE  ArchPC' = IF redirect THEN redirect_target
                   ELSE IF redirect_d1 THEN pc_reg ELSE pc_if
<1>1. Squash \/ Advance
  BY DEF Tick, Hold, Resume, resume_flush
<1>2. dispatched'
  BY DEF Tick, StallRegister
<1>3. ~StoreDone'
  BY <1>2 DEF StoreDone
<1>4. CASE Squash
  <2>1. CASE redirect
    BY <1>4, <2>1 DEF Squash, SquashTo, next_pc, ArchPC
  <2>2. CASE ~redirect
    BY <1>4, <2>2 DEF Squash, SquashTo, ArchPC, Real
  <2>3. QED
    BY <2>1, <2>2
<1>5. CASE Advance
  <2>1. Real'
    BY <1>5, FetchType, PipelineAssumption DEF Advance, Real, Setting, Context
  <2>2. QED
    BY <1>3, <1>5, <2>1 DEF Advance, ArchPC
<1>6. QED
  BY <1>1, <1>4, <1>5

\* Nothing of an instruction happens on an edge with a bubble, or a store
\* that has already been taken, in EX; a trap then strays.
LEMMA IdleSimulates ==
  ASSUME Setting, Tick, ~stall, ~ex_stall_d1, ~Real \/ StoreDone
  PROVE  ISA!Wait \/ ISA!TrapStrays
<1>1. x' = x /\ dev' \in DevMoves(dev)
  BY DEF Tick, RegFileProcess, reg_we, StoreDone, IsA, DevProcess, Accessed, Strobed, stb
<1>2. mem' = mem
  BY FlowFacts DEF Tick, Setting
<1>3. CASE is_trap
  <2>1. ArchPC' = ISA!Handler
    BY <1>3, TrapFacts, FlowTarget DEF Setting
  <2>2. QED
    BY <1>1, <1>2, <1>3, <2>1, TrapFacts DEF Setting, ISA!TrapStrays
<1>4. CASE ~is_trap
  <2>1. ~redirect /\ csr' = csr
    BY <1>4 DEF redirect, Tick, CsrProcess, StoreDone, IsA
  <2>2. ArchPC' = ArchPC
    <3>1. ArchPC' = IF redirect_d1 THEN pc_reg ELSE pc_if
      BY <2>1, FlowTarget
    <3>2. StoreDone => Real /\ ~redirect_d1 /\ pc_if = Plus4(pc_ex)
      BY DEF StoreDone, IsA, Setting, Context, PipeInv, PcShape
    <3>3. QED
      BY <3>1, <3>2 DEF ArchPC
  <2>3. QED
    BY <1>1, <1>2, <2>1, <2>2 DEF ISA!Wait
<1>5. QED
  BY <1>3, <1>4

\* An instruction leaves EX; with a trap it does so although mepc names it.
LEMMA FlowSimulates ==
  ASSUME Setting, Tick, ~stall, ~ex_stall_d1, Real, ~StoreDone
  PROVE  ISA!Execute \/ ISA!TrapRepeats
<1>1. /\ ArchPC = pc_ex /\ ISA!w = instr_ex
      /\ ~redirect_d1 /\ pc_if = Plus4(pc_ex)
  BY AtInstruction DEF Setting
<1>2. x' = ISA!RegsAfter /\ mem' = ISA!MemAfter
  BY Completed DEF Tick
<1>3. dev' \in DevMoves(ISA!DevAfter)
  BY DeviceStep DEF Tick, DevProcess, Setting
<1>4. CASE is_trap
  <2>1. ArchPC' = ISA!Handler
    BY <1>4, TrapFacts, FlowTarget DEF Setting
  <2>2. QED
    BY <1>1, <1>2, <1>3, <1>4, <2>1, TrapFacts DEF Setting, ISA!TrapRepeats
<1>5. CASE ~is_trap
  <2>1. csr' = ISA!CsrAfter
    BY <1>1, <1>5 DEF Tick, CsrProcess, ISA!CsrAfter, IsA, CsrWrite, ISA!CsrWrite,
       CsrMret, ISA!CsrMret, CsrRead, ISA!CsrRead, CsrNames, ISA!CsrNames
  <2>2. ArchPC' = ISA!PcAfter
    <3>1. ArchPC' = IF redirect THEN redirect_target ELSE pc_if
      BY <1>1, FlowTarget
    <3>2. QED
      BY <1>1, <1>5, <3>1 DEF redirect, redirect_target, ISA!PcAfter, IsA
  <2>3. QED
    BY <1>2, <1>3, <2>1, <2>2 DEF ISA!Execute
<1>6. QED
  BY <1>4, <1>5

\* A reset lets the instruction in EX write its result or not.
LEMMA ResetSimulates ==
  ASSUME Setting, Reset
  PROVE  ISA!Reset
<1>1. /\ ArchPC' = Zero
      /\ csr' = ISA!CsrReset
      /\ dev' = DevReset(dev)
  BY DEF Reset, ArchPC, CsrReset, ISA!CsrReset, CsrNames, ISA!CsrNames
<1>2. \/ UNCHANGED <<x, mem>>
      \/ x' = ISA!RegsAfter /\ mem' = ISA!MemAfter
  <2>1. CASE reg_we /\ ~stall
    <3>1. Real /\ ~StoreDone
      BY <2>1 DEF reg_we, StoreDone, IsA
    <3>2. QED
      BY <2>1, <3>1, Completed DEF Reset
  <2>2. CASE ~(reg_we /\ ~stall) /\ RamStore /\ ~StoreDone
    <3>1. Real /\ Class(instr_ex) = "store"
      BY <2>2 DEF RamStore, IsA
    <3>2. ISA!w = instr_ex /\ ISA!Addr = alu_result
      BY <2>2, <3>1, AtInstruction DEF Setting
    <3>3. x' = ISA!RegsAfter
      BY <2>2, <3>1, <3>2 DEF Reset, RegFileProcess, ISA!RegsAfter
    <3>4. mem' = ISA!MemAfter
      BY <2>2, <3>1, <3>2 DEF RamStore, Reset, MemProcess, ISA!MemAfter, WrittenCell
    <3>5. QED
      BY <3>3, <3>4
  <2>3. CASE ~(reg_we /\ ~stall) /\ ~(RamStore /\ ~StoreDone)
    <3>1. x' = x
      BY <2>3 DEF Reset, RegFileProcess
    <3>2. mem' = mem
      BY <2>3, StoreTwice DEF Reset, MemProcess, RamStore, Setting
    <3>3. QED
      BY <3>1, <3>2
  <2>4. QED
    BY <2>1, <2>2, <2>3
<1>3. QED
  BY <1>1, <1>2 DEF ISA!Reset

LEMMA StepSimulates ==
  ASSUME Setting, HarmlessHold, [Next]_vars
  PROVE  [ISA!ImpreciseNext]_(ISA!vars)
<1>1. CASE Tick
  <2>1. irq' \in SUBSET Lines
    BY <1>1 DEF Tick
  <2>2. ISA!Execute \/ ISA!Wait \/ ISA!TrapLost \/ ISA!TrapStrays \/ ISA!TrapRepeats
    BY <1>1, HoldSimulates, ResumeSimulates, IdleSimulates, FlowSimulates
  <2>3. QED
    BY <2>1, <2>2 DEF ISA!ImpreciseNext
<1>2. CASE Reset
  BY <1>2, ResetSimulates DEF ISA!ImpreciseNext, Reset
<1>3. CASE UNCHANGED vars
  BY <1>3 DEF vars, ISA!vars, ArchPC, Real, StoreDone, IsA, alu_result
<1>4. QED
  BY <1>1, <1>2, <1>3 DEF Next

LEMMA InitSimulates == Init => ISA!Init
<1> SUFFICES ASSUME Init PROVE ISA!Init
  OBVIOUS
<1>1. ArchPC = Zero
  BY DEF Init, ArchPC
<1>2. mem \in [Cell -> Word]
  BY PipelineAssumption DEF Init
<1>3. csr = ISA!CsrReset
  BY DEF Init, CsrReset, ISA!CsrReset, CsrNames, ISA!CsrNames
<1>4. QED
  BY <1>1, <1>2, <1>3 DEF Init, ISA!Init

-----------------------------------------------------------------------------
\* Without lines the imprecise machine never takes a trap.
LEMMA NoLinesNoTrap ==
  ASSUME Lines = {}, Setting, [ISA!ImpreciseNext]_(ISA!vars)
  PROVE  [ISA!Next]_(ISA!vars)
<1>1. irq = {}
  BY DEF Setting, Context, TypeOK
<1>2. ~ISA!Interrupted
  BY <1>1 DEF ISA!Interrupted, ISA!Pending
<1>3. QED
  BY <1>2 DEF ISA!ImpreciseNext, ISA!Next, ISA!TrapRepeats, ISA!TrapStrays, ISA!TrapLost

LEMMA SettingHolds ==
  ASSUME SeamsClear
  PROVE  Spec /\ []HarmlessHold => []Setting
<1>1. Init => HeldShape
  BY DEF Init, HeldShape, Real
<1>2. HarmlessHold /\ [Next]_vars /\ HeldShape => HeldShape'
  BY HeldStep
<1>3. QED
  BY <1>1, <1>2, PipelineInvariant, TypeCorrect, PTL DEF Spec, Setting, Context

\* Whatever stalls, redirects, interrupts or resets the pipeline, it executes
\* the program of the sequential machine, with imprecise traps; from the
\* flash as long as no late word holds a multiplication, a division, a CSR
\* instruction, MRET or a peripheral access.
THEOREM RefinesImprecise ==
  ASSUME SeamsClear
  PROVE  Spec /\ []HarmlessHold => ImplementsImpreciseISA
<1>1. Setting /\ HarmlessHold /\ [Next]_vars => [ISA!ImpreciseNext]_(ISA!vars)
  BY StepSimulates
<1>2. QED
  BY <1>1, InitSimulates, SettingHolds, PTL
  DEF Spec, ImplementsImpreciseISA, ISA!ImpreciseSpec

\* Without interrupt lines it is the sequential machine itself.
THEOREM RefinesSequential ==
  ASSUME SeamsClear, Lines = {}
  PROVE  Spec /\ []HarmlessHold => ImplementsISA
<1>1. Setting /\ HarmlessHold /\ [Next]_vars => [ISA!Next]_(ISA!vars)
  BY StepSimulates, NoLinesNoTrap
<1>2. QED
  BY <1>1, InitSimulates, SettingHolds, PTL DEF Spec, ImplementsISA, ISA!Spec

\* Instances with the default XIP_ENABLE = false have no word of the flash
\* to wait for.
NoXip == \A a \in Word : FetchTarget(a) # "xip"

LEMMA NothingToHold == ASSUME NoXip PROVE Spec => []HarmlessHold
<1>1. TypeOK => HarmlessHold
  BY DEF TypeOK, NoXip, HarmlessHold, fetch_stall
<1>2. QED
  BY <1>1, TypeCorrect, PTL

\* Such an instance implements the machine without any condition on the run.
THEOREM RefinesWithoutFlash ==
  ASSUME SeamsClear, NoXip
  PROVE  /\ Spec => ImplementsImpreciseISA
         /\ Lines = {} => (Spec => ImplementsISA)
<1>1. Spec => ImplementsImpreciseISA
  BY NothingToHold, RefinesImprecise, PTL
<1>2. ASSUME Lines = {} PROVE Spec => ImplementsISA
  BY <1>2, NothingToHold, RefinesSequential, PTL
<1>3. QED
  BY <1>1, <1>2
=============================================================================

---------------------------- MODULE TinyMachine ----------------------------
(***************************************************************************)
(* What the pipeline (TinyCpu) and the programmer's view of it (TinyISA)   *)
(* share: the word, the decoder, the data path, the memory map and the     *)
(* bit fields of the control and status registers.                         *)
(*                                                                         *)
(* Data is uninterpreted.  A word is an address, an instruction or a       *)
(* register value; what the ALU, the multiplier, the divider, the load     *)
(* extension, the byte lanes and the CSR logic compute are operator        *)
(* parameters, so that everything proved about the pipeline holds whatever *)
(* they compute.  Control is interpreted: which class of instruction does  *)
(* what to which register, and when.                                       *)
(***************************************************************************)
CONSTANTS
  Word,             \* 32-bit words
  Zero,             \* the all-zero word, and the reset vector
  RegFile,          \* contents of the 32 integer registers
  Regs0,            \* their power-up contents
  Dev,              \* abstract state of the peripherals behind the bus
  Dev0,             \* ... as the program first sees it
  Cell,             \* memory words of ROM, RAM, RAM disk and SPI flash
  Lines,            \* interrupt lines that are connected
  \* --- decoder (tinymcu_cpu_control)
  Class(_),         \* instruction class of a word, see Classes
  \* --- data path (tinymcu_cpu, ALU, register file)
  Plus4(_),         \* address of the next word
  Alu(_, _, _),     \* alu_result of instruction w at pc with registers x
  MulResult(_, _),  \* product word an M instruction selects
  DivResult(_, _),  \* quotient or remainder an M instruction selects
  DivAtOnce(_, _),  \* division by zero or signed overflow
  LoadData(_, _, _),\* load_data: lane selection and extension
  Merge(_, _, _, _),\* memory word after the store's byte lanes are written
  WriteRd(_, _, _), \* registers after rd of instruction w is written
  Taken(_, _),      \* branch_taken
  Target(_, _, _),  \* jump or branch target
  \* --- memory map (tinymcu_addr_decoder, tinymcu_imem)
  DataTarget(_),    \* bus target of a data address
  FetchTarget(_),   \* memory whose window holds a fetch address
  RomHit(_),        \* address inside the boot ROM
  CellOf(_, _),     \* word of memory t that address a selects
  \* --- peripherals
  DevRead(_, _),    \* word a peripheral register returns
  DevAfterRead(_, _),     \* side effect of reading it
  DevAfterWrite(_, _, _, _), \* effect of store w to address a with registers x
  DevReset(_),      \* effect of reset; not every register has one
  DevMoves(_),      \* what a clock cycle may make of it: counters, pins
  XipOn(_),         \* CONFIG.ENABLE of the XIP controller
  \* --- control and status registers (tinymcu_cpu_csrfile)
  CsrOf(_),         \* register a CSR instruction addresses
  CsrWriteData(_, _, _),  \* csr_wdata
  MIE(_),           \* mstatus.MIE of an mstatus word
  OnTrap(_),        \* mstatus with MPIE <- MIE, MIE <- 0
  OnMret(_),        \* mstatus with MIE <- MPIE
  Enabled(_),       \* lines an mie word enables
  MipWord(_, _),    \* mip as read: the stored word under the given lines
  Identifier(_),    \* word a read-only or unknown register reads as
  CauseWord(_),     \* mcause for a line
  Vector(_, _)      \* handler address for an mtvec word and a line

\* The memories with registered read ports and a registered acknowledge.
Mems == {"rom", "ram", "ramdisk"}

\* Instruction classes the decoder distinguishes; "other" writes nothing
\* (fences, the all-zero word and every unknown opcode).
Classes == {"alu", "mul", "div", "load", "store", "branch", "jump",
            "csr", "mret", "other"}

\* Registers of the CSR file with storage of their own.
CsrNames == {"mstatus", "mie", "mtvec", "mscratch", "mepc", "mcause",
             "mtval", "mip"}

CsrFile == [CsrNames -> Word]
CsrReset == [r \in CsrNames |-> Zero]

-----------------------------------------------------------------------------
ASSUME WordAssumption ==
  /\ Zero \in Word
  /\ Regs0 \in RegFile
  /\ Dev0 \in Dev
  /\ \A w \in Word : Class(w) \in Classes

ASSUME DataPathAssumption ==
  /\ \A w \in Word : Plus4(w) \in Word /\ Plus4(w) # w
  /\ \A w, pc \in Word, x \in RegFile :
       Alu(w, pc, x) \in Word /\ Target(w, pc, x) \in Word
  /\ \A w \in Word, x \in RegFile :
       /\ MulResult(w, x) \in Word
       /\ DivResult(w, x) \in Word
       /\ DivAtOnce(w, x) \in BOOLEAN
       /\ Taken(w, x) \in BOOLEAN
  /\ \A w, a, v \in Word : LoadData(w, a, v) \in Word
  /\ \A w, v \in Word, x \in RegFile : WriteRd(w, x, v) \in RegFile

\* Writing the same lanes with the same bytes twice is writing them once.
ASSUME LaneAssumption ==
  \A w, a, old \in Word, x \in RegFile :
    /\ Merge(w, a, x, old) \in Word
    /\ Merge(w, a, x, Merge(w, a, x, old)) = Merge(w, a, x, old)

ASSUME MapAssumption ==
  \A a \in Word :
    /\ DataTarget(a) \in Mems \cup {"periph", "none"}
    /\ FetchTarget(a) \in Mems \cup {"xip"}
    /\ RomHit(a) \in BOOLEAN
    /\ \A t \in Mems \cup {"xip"} : CellOf(t, a) \in Cell
    /\ \A b \in Word, t, u \in Mems \cup {"xip"} :
         CellOf(t, a) = CellOf(u, b) => t = u

ASSUME DeviceAssumption ==
  /\ \A d \in Dev :
       /\ XipOn(d) \in BOOLEAN
       /\ DevReset(d) \in Dev
       /\ DevMoves(d) \subseteq Dev /\ DevMoves(d) # {}
  /\ \A d \in Dev, a \in Word :
       /\ DevRead(d, a) \in Word
       /\ DevAfterRead(d, a) \in Dev
       /\ \A w \in Word, x \in RegFile : DevAfterWrite(d, w, a, x) \in Dev

ASSUME CsrAssumption ==
  /\ Lines \subseteq {"MEI", "MSI", "MTI"}
  /\ \A w \in Word :
       /\ CsrOf(w) \in CsrNames \cup {"none"}
       /\ Identifier(w) \in Word
       /\ \A v \in Word, x \in RegFile : CsrWriteData(w, x, v) \in Word
       /\ MIE(w) \in BOOLEAN /\ OnTrap(w) \in Word /\ OnMret(w) \in Word
       /\ Enabled(w) \subseteq {"MEI", "MSI", "MTI"}
       /\ \A l \in {"MEI", "MSI", "MTI"} : Vector(w, l) \in Word
  /\ \A l \in {"MEI", "MSI", "MTI"} : CauseWord(l) \in Word
  /\ \A v \in Word, irq \in SUBSET Lines : MipWord(v, irq) \in Word

-----------------------------------------------------------------------------
\* csr_rdata while the given interrupt lines are high.
CsrRead(csr, irq, w) ==
  CASE CsrOf(w) \in CsrNames \ {"mip"} -> csr[CsrOf(w)]
    [] CsrOf(w) = "mip" -> MipWord(csr["mip"], irq)
    [] OTHER            -> Identifier(w)

\* The CSR file after a CSR instruction: identifiers and unknown registers
\* ignore the write.  What is written is worked out from the word read, so
\* that a read-modify-write of mip stores the lines.
CsrWrite(csr, irq, w, x) ==
  IF CsrOf(w) \in CsrNames
  THEN [csr EXCEPT ![CsrOf(w)] = CsrWriteData(w, x, CsrRead(csr, irq, w))]
  ELSE csr

\* Interrupts that are enabled and pending, and the one taken first.
Pending(csr, irq) == Enabled(csr["mie"]) \cap irq

Priority(lines) == IF "MEI" \in lines THEN "MEI"
                   ELSE IF "MSI" \in lines THEN "MSI" ELSE "MTI"

\* The CSR file after taking a trap whose trap_pc is pc.
CsrTrap(csr, irq, pc) ==
  [csr EXCEPT !["mepc"]    = pc,
              !["mcause"]  = CauseWord(Priority(Pending(csr, irq))),
              !["mstatus"] = OnTrap(@)]

CsrMret(csr) == [csr EXCEPT !["mstatus"] = OnMret(@)]

\* Word a data port of the boot ROM returns: the last index bits select the
\* word, an address outside the ROM reads as zero.
RomMask(a, v) == IF RomHit(a) THEN v ELSE Zero

\* Word memory t holds for address a.
MemRead(mem, t, a) ==
  IF t = "rom" THEN RomMask(a, mem[CellOf(t, a)]) ELSE mem[CellOf(t, a)]
=============================================================================

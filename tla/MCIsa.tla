------------------------------- MODULE MCIsa --------------------------------
(***************************************************************************)
(* A small machine for TLC.  Words are 0..17 and do triple duty as         *)
(* addresses, instructions and data, one word per address.  Every          *)
(* instruction class is there at least once, with its operands baked in,   *)
(* on a register file of a single register of two bits.                    *)
(***************************************************************************)
EXTENDS TinyCpuProps

CONSTANTS RomAddrs, RamAddrs, DiskAddrs, XipAddrs, \* fetch windows
          Free           \* words a run tries in the free slots of a program

MCWord == 0..17
MCRegFile == 0..3
MCDev  == [on : BOOLEAN, n : 0..2]
MCDev0 == [on |-> FALSE, n |-> 0]

Periph == 12                 \* a peripheral data register
XipConfig == 13              \* XIP controller CONFIG
ScratchRam == CHOOSE a \in RamAddrs : \A b \in RamAddrs : a >= b
CodeRam == CHOOSE a \in RamAddrs : \A b \in RamAddrs : a <= b
FirstXip == CHOOSE a \in XipAddrs \cup {17} : \A b \in XipAddrs : a <= b

\* The instruction set of the instance.
MCClass(w) ==
  CASE w = 0 -> "other"             \* the all-zero word
    [] w = 1 -> "alu"               \* x := x + 1
    [] w = 2 -> "mul"
    [] w = 3 -> "div"               \* at once when x = 0
    [] w = 4 -> "load"              \* from ScratchRam
    [] w = 5 -> "store"             \* to ScratchRam
    [] w = 6 -> "store"             \* to CodeRam: self-modifying code
    [] w = 7 -> "store"             \* to a peripheral
    [] w = 8 -> "load"              \* from a peripheral
    [] w = 9 -> "jump"              \* to CodeRam
    [] w = 10 -> "branch"           \* to 0 if x is odd
    [] w = 11 -> "csr"              \* swap x and mscratch
    [] w = 12 -> "csr"              \* mie := x
    [] w = 13 -> "csr"              \* mstatus := x
    [] w = 14 -> "mret"
    [] w = 15 -> "load"             \* word 1 of ROM
    [] w = 16 -> "jump"             \* into the flash window
    [] OTHER -> "store"             \* 17: to the XIP CONFIG register

\* The address space closes behind the last mapped word, at LastWord.
LastWord == 1 + CHOOSE a \in RomAddrs \cup RamAddrs \cup DiskAddrs \cup XipAddrs :
              \A b \in RomAddrs \cup RamAddrs \cup DiskAddrs \cup XipAddrs : a >= b
MCPlus4(a) == IF a = LastWord THEN 0 ELSE (a + 1) % 18
MCAlu(w, pc, v) ==
  CASE w \in {4, 5} -> ScratchRam
    [] w = 6        -> CodeRam
    [] w \in {7, 8} -> Periph
    [] w = 17       -> XipConfig
    [] w = 15       -> 1
    [] w \in {9, 16} -> MCPlus4(pc)
    [] OTHER        -> v + 1
MCMulResult(w, v) == v + 2
MCDivResult(w, v) == v + 3
MCDivAtOnce(w, v) == v = 0
MCLoadData(w, a, v) == v
MCMerge(w, a, v, old) == v
MCWriteRd(w, v, r) == IF w \in {12, 13, 9, 16} THEN v ELSE r % 4
MCTaken(w, v) == v % 2 = 1
MCTarget(w, pc, v) == CASE w = 9 -> CodeRam [] w = 16 -> FirstXip [] OTHER -> 0

MCDataTarget(a) ==
  CASE a \in RomAddrs  -> "rom"
    [] a \in RamAddrs  -> "ram"
    [] a \in DiskAddrs -> "ramdisk"
    [] a \in {Periph, XipConfig} -> "periph"
    [] OTHER -> "none"
MCFetchTarget(a) == CASE a \in RamAddrs  -> "ram"
                      [] a \in DiskAddrs -> "ramdisk"
                      [] a \in XipAddrs  -> "xip"
                      [] OTHER -> "rom"
MCRomHit(a) == a \in RomAddrs
\* A memory answers whatever address it is given: its windows own words and
\* an alias for every other address.  An absent memory is one word.
Window(t) == CASE t = "rom" -> RomAddrs [] t = "ram" -> RamAddrs
               [] t = "ramdisk" -> DiskAddrs [] OTHER -> XipAddrs
Alias(t) == CASE t = "rom"        -> CHOOSE a \in RomAddrs : \A b \in RomAddrs : a >= b
              [] t = "ram"        -> CodeRam
              [] Window(t) # {}   -> CHOOSE a \in Window(t) : \A b \in Window(t) : a <= b
              [] t = "ramdisk"    -> 20
              [] OTHER            -> 21
MCCellOf(t, a) == IF a \in Window(t) THEN a ELSE Alias(t)
MCCell == UNION {Window(t) \cup {Alias(t)} : t \in Mems \cup {"xip"}}

MCXipOn(d) == d.on
MCDevRead(d, a) == IF a = XipConfig THEN IF d.on THEN 1 ELSE 0 ELSE d.n
MCDevAfterRead(d, a) == [d EXCEPT !.n = 0]
MCDevAfterWrite(d, w, a, v) ==
  IF a = XipConfig THEN [d EXCEPT !.on = (v % 2 = 1)]
  ELSE [d EXCEPT !.n = (@ + 1) % 3]
\* CONFIG has a reset, the register of the other peripheral has none.
MCDevReset(d) == [d EXCEPT !.on = FALSE]
MCDevMoves(d) == {d}

MCCsrOf(w) == CASE w = 11 -> "mscratch" [] w = 12 -> "mie"
                [] w = 13 -> "mstatus" [] OTHER -> "none"
MCCsrWriteData(w, v, old) == v
\* mstatus: bit 0 is MIE, bit 1 is MPIE.
MCMIE(m) == m % 2 = 1
MCOnTrap(m) == 2 * (m % 2)
MCOnMret(m) == 2 * ((m \div 2) % 2) + ((m \div 2) % 2)
\* mie: bit 0 enables the external line, bit 1 the timer's.
MCEnabled(m) == {l \in {"MEI", "MTI"} :
                   IF l = "MEI" THEN m % 2 = 1 ELSE (m \div 2) % 2 = 1}
MCMipWord(v, lines) == 2 * (v \div 2) + IF "MEI" \in lines THEN 1 ELSE 0
MCIdentifier(w) == 3
MCCauseWord(l) == CASE l = "MEI" -> 11 [] l = "MTI" -> 7 [] OTHER -> 3
\* The handlers of the instance sit in ROM words 3 and 4.
MCVector(m, l) == IF l = "MEI" THEN 3 ELSE 4

\* Memory images: given words, free words, zeros everywhere else.
Images(given, free) ==
  {[c \in MCCell |-> CASE c \in DOMAIN given -> given[c]
                       [] c \in free -> p[c]
                       [] OTHER -> 0] : p \in [free -> Free]}

-----------------------------------------------------------------------------
(* Programs for the runs.  ROM holds the addresses from 0, its last word is *)
(* zero, RAM starts behind it.                                             *)

\* Three free words, then a store that rewrites the first RAM word, into
\* which the program runs.
SequentialPrograms == Images([c \in {3} |-> 6], {0, 1, 2})

\* Enable the lines x names and interrupts, two free words, of which the
\* second is one handler, and a return, which is the other.
InterruptPrograms ==
  Images([c \in {0, 1, 4} |-> CASE c = 0 -> 12 [] c = 1 -> 13 [] OTHER -> 14], {2, 3})

\* ROM loads a word with the ENABLE bit, stores it to CONFIG and jumps into
\* the flash, after a reset as at power-on; the words of the flash are free
\* but the last.
FlashPrograms ==
  Images([c \in {0, 1, 2} |-> CASE c = 0 -> 15 [] c = 1 -> 17 [] OTHER -> 16], {7, 8, 9})

\* A ROM filled to its last word.
FullRomPrograms == Images([c \in {4} |-> 1], {0, 1, 2, 3})
=============================================================================

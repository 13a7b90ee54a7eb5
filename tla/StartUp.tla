------------------------------ MODULE StartUp -------------------------------
(***************************************************************************)
(* From reset to main: crt0.s zeroes .bss and copies .data out of the ROM  *)
(* for any placement of the two sections, then main runs; the board may be *)
(* reset at any moment, with its RAM as it is.  basic_c is the program     *)
(* without statics; another calls driver functions and touches addresses   *)
(* of its own; a program with statics works on them and returns.  Loads    *)
(* and stores go over the bus of MemoryMap and ignore the low two bits of  *)
(* an address, as the processor does.                                      *)
(***************************************************************************)
EXTENDS MemoryMap

CONSTANTS
  Align,     \* alignment of the sections the linker is given
  RamBytes,  \* bound: bytes of RAM
  MaxStatics, \* bound: bytes of .data and .bss
  MaxResets  \* bound: resets of the running board

ASSUME StartUpAssumption ==
  /\ Align \in {1, 2, 4} /\ MaxResets \in Nat
  /\ RamBytes \in Nat /\ RamBytes % 4 = 0 /\ RamBytes >= 20
  /\ MaxStatics \in Nat /\ MaxStatics + 4 <= RamBytes

VARIABLES
  layout,      \* section bounds: data start, end, load address, bss start, end
  step,        \* where the processor is
  t0, t1, t2, t3,
  ram,         \* by bytes
  resets
cpu_vars == <<layout, step, t0, t1, t2, t3, ram, resets>>
vars == <<cpu_vars, bus_vars>>

RoundUp(n, m) == ((n + m - 1) \div m) * m

\* linker.ld: .data at the start of the RAM, .bss behind it, the image of
\* .data behind the constants in the ROM; nothing else aligns a section.
Layouts ==
  {[start |-> 0, end |-> de, lma |-> l, bss |-> RoundUp(de, Align), bssEnd |-> be] :
     de \in 0..MaxStatics, be \in 0..MaxStatics, l \in {n \in 0..7 : n % Align = 0}}
Linked == {l \in Layouts : l.bss <= l.bssEnd}
NoStatics == layout.end = 0 /\ layout.bssEnd = 0

\* What a byte holds: zero, something older, a byte of the ROM, or a byte of
\* main's result.
Zero     == <<"zero">>
Old      == <<"old">>
Rom(k)   == <<"rom", k>>
Sum(n)   == <<"sum", n>>
WordAt(a) == {b \in 0..(RamBytes - 1) : b \div 4 = a \div 4}
StoreWord(a, bytes) ==
  [b \in 0..(RamBytes - 1) |-> IF b \in WordAt(a) THEN bytes[b % 4] ELSE ram[b]]

-----------------------------------------------------------------------------
(********************************** crt0 ***********************************)
Init == /\ layout \in Linked /\ step = "_start" /\ t0 = 0 /\ t1 = 0 /\ t2 = 0 /\ t3 = 0
        /\ ram = [b \in 0..(RamBytes - 1) |-> Old] /\ resets = 0 /\ BusInit

Start == /\ step = "_start" /\ step' = "zero"
         /\ t0' = layout.bss /\ t1' = layout.bssEnd
         /\ NoAccess /\ UNCHANGED <<layout, t2, t3, ram, resets>>

ZeroWord == /\ step = "zero" /\ t0 < t1
            /\ ram' = StoreWord(t0, [b \in 0..3 |-> Zero]) /\ Store(RAM_BASE + t0)
            /\ t0' = t0 + 4 /\ UNCHANGED <<layout, step, t1, t2, t3, resets>>

ZeroDone == /\ step = "zero" /\ t0 >= t1 /\ step' = "copy"
            /\ t0' = layout.lma /\ t1' = layout.start /\ t2' = layout.end
            /\ NoAccess /\ UNCHANGED <<layout, t3, ram, resets>>

LoadWord == /\ step = "copy" /\ t1 < t2 /\ step' = "store"
            /\ t3' = t0 \div 4 /\ Load(ROM_BASE + t0)
            /\ UNCHANGED <<layout, t0, t1, t2, ram, resets>>

\* Mutant: the ROM pointer stays.
Mut_CopyWord == /\ step = "store" /\ step' = "copy"
                /\ ram' = StoreWord(t1, [b \in 0..3 |-> Rom(t3 * 4 + b)]) /\ Store(RAM_BASE + t1)
                /\ t1' = t1 + 4 /\ UNCHANGED <<layout, t0, t2, t3, resets>>
CopyWord == /\ step = "store" /\ step' = "copy"
            /\ ram' = StoreWord(t1, [b \in 0..3 |-> Rom(t3 * 4 + b)]) /\ Store(RAM_BASE + t1)
            /\ t0' = t0 + 4 /\ t1' = t1 + 4 /\ UNCHANGED <<layout, t2, t3, resets>>

CopyDone == /\ step = "copy" /\ t1 >= t2 /\ step' = "main"
            /\ NoAccess /\ UNCHANGED <<layout, t0, t1, t2, t3, ram, resets>>

-----------------------------------------------------------------------------
(*********************************** main **********************************)
a == 5
\* Mutant: the difference.
Mut_add(x, y) == y - x
add(x, y) == x + y
RESULT == 16

\* basic_c.
main == /\ step = "main" /\ NoStatics /\ Store(RAM_BASE + RESULT)
        /\ LET b == 10 IN ram' = StoreWord(RESULT, [k \in 0..3 |-> Sum(add(a, b))])
        /\ step' = "while" /\ UNCHANGED <<layout, t0, t1, t2, t3, resets>>

\* A program that drives a peripheral or touches an address of its own: the
\* bus keeps nothing between two accesses, so one access stands for all.
Drive == /\ step = "main" /\ NoStatics /\ step' = "halt"
         /\ DriverStep \/ StrayStep
         /\ UNCHANGED <<layout, t0, t1, t2, t3, ram, resets>>

\* A program with statics: it works on them, and halts if it returns.
Statics == (layout.start..(layout.end - 1)) \cup (layout.bss..(layout.bssEnd - 1))
OtherMain == /\ step = "main" /\ ~NoStatics
             /\ ram' = [b \in DOMAIN ram |-> IF b \in Statics THEN Old ELSE ram[b]]
             /\ step' = "halt" /\ NoAccess /\ UNCHANGED <<layout, t0, t1, t2, t3, resets>>

\* `while (1)` and `5: j 5b`.
Forever == step \in {"while", "halt"} /\ NoAccess /\ UNCHANGED cpu_vars

Reset == /\ resets < MaxResets /\ resets' = resets + 1 /\ step' = "_start"
         /\ NoAccess /\ UNCHANGED <<layout, t0, t1, t2, t3, ram>>

Run == Start \/ ZeroWord \/ ZeroDone \/ LoadWord \/ CopyWord \/ CopyDone
       \/ main \/ Drive \/ OtherMain
Next == Run \/ Forever \/ Reset
Spec == Init /\ [][Next]_vars
\* The oscillator runs.
FairSpec == Spec /\ WF_vars(Run)

-----------------------------------------------------------------------------
\* Main finds its statics as C promises, on power-on and after every reset:
\* .bss is zero and .data has its initial values, although the copy comes
\* last and stores whole words.
StaticsReady ==
  step = "main" =>
    /\ \A b \in layout.bss..(layout.bssEnd - 1) : ram[b] = Zero
    /\ \A b \in layout.start..(layout.end - 1) : ram[b] = Rom(layout.lma + (b - layout.start))

\* Every start reaches main, and basic_c leaves its result in the RAM.
Completes == step = "_start" ~>
  \/ step = "halt"
  \/ step = "while" /\ \A b \in WordAt(RESULT) : ram[b] = Sum(15)
=============================================================================

--------------------------- MODULE StartUpProofs ---------------------------
(***************************************************************************)
(* The startup code readies the statics for every size and placement of    *)
(* the sections, and every access the board ever makes is answered once,   *)
(* whatever its address.                                                   *)
(***************************************************************************)
EXTENDS StartUp, FiniteSetTheorems, TLAPS

-----------------------------------------------------------------------------
(* The bus. *)

\* Each field of a register block has a word of its own.
LEMMA NumberedInjective ==
  ASSUME NEW regs, NEW r \in DOMAIN Numbered(regs), NEW s \in DOMAIN Numbered(regs),
         DOMAIN regs \subseteq Nat, Numbered(regs)[r] = Numbered(regs)[s]
  PROVE  r = s
  BY DEF Numbered

\* The windows of the address decoder are disjoint.
LEMMA OnePort ==
  ASSUME NEW addr
  PROVE  Ports(addr) = {} \/ \E p \in {"ram", "imem", "periph", "ramdisk"} : Ports(addr) = {p}
  BY DEF Ports, TopByte, RAM_BASE, ROM_BASE, PERIPHERALS_BASE, RAMDISK_TOP_BYTE

\* So are those of the peripheral bus.
LEMMA OneSelected ==
  ASSUME NEW addr, NEW p \in Selected(addr), NEW q \in Selected(addr)
  PROVE  p = q
  BY DEF Selected, PERIPH_BASE

LEMMA OneAck == ASSUME NEW addr PROVE Cardinality(Acks(addr)) = 1
<1>1. \E p : Acks(addr) = {p}
  <2>1. CASE Ports(addr) = {}
    BY <2>1 DEF Acks
  <2>2. ASSUME NEW p, Ports(addr) = {p}, p # "periph" PROVE Acks(addr) = {p}
    BY <2>2 DEF Acks
  <2>3. CASE Ports(addr) = {"periph"} /\ Selected(addr) = {}
    BY <2>3 DEF Acks
  <2>4. ASSUME Ports(addr) = {"periph"}, NEW p \in Selected(addr)
        PROVE  Acks(addr) = {p}
    <3>1. Selected(addr) = {p}
      BY <2>4, OneSelected
    <3>2. QED
      BY <2>4, <3>1 DEF Acks
  <2>5. QED
    BY <2>1, <2>2, <2>3, <2>4, OnePort
<1>2. QED
  BY <1>1, FS_Singleton

LEMMA OneRegister ==
  ASSUME NEW addr, NEW we \in BOOLEAN
  PROVE  Cardinality(Reached(addr, we)) <= 1
<1>1. ASSUME NEW d \in Reached(addr, we), NEW e \in Reached(addr, we)
      PROVE  d = e
  <2>1. PICK p \in Selected(addr) : \E r \in Answering(p, addr, we) : d = <<p, r>>
    BY DEF Reached
  <2>2. PICK q \in Selected(addr) : \E s \in Answering(q, addr, we) : e = <<q, s>>
    BY DEF Reached
  <2>3. PICK r \in Answering(p, addr, we) : d = <<p, r>>
    BY <2>1
  <2>4. PICK s \in Answering(q, addr, we) : e = <<q, s>>
    BY <2>2
  <2>5. p = q /\ p \in {"gpio", "timer", "uart", "xip"}
    BY OneSelected DEF Selected, PERIPH_BASE
  <2>6. /\ r \in DOMAIN REG[p] /\ s \in DOMAIN REG[p]
        /\ REG[p][r] = REG[p][s]
    BY <2>5 DEF Answering, Readable, Writable, REG, XIP_REG, Numbered
  <2>7. r = s
    BY <2>5, <2>6, NumberedInjective DEF REG, GPIO_REG, TIMER_REG, UART_REG, XIP_REG
  <2>8. QED
    BY <2>3, <2>4, <2>5, <2>7
<1>2. CASE Reached(addr, we) = {}
  BY <1>2, FS_EmptySet
<1>3. ASSUME NEW e \in Reached(addr, we) PROVE Cardinality(Reached(addr, we)) = 1
  <2>1. Reached(addr, we) = {e}
    BY <1>1, <1>3
  <2>2. QED
    BY <2>1, FS_Singleton
<1>4. QED
  BY <1>2, <1>3

LEMMA PerformAnswered ==
  ASSUME NEW r, r.we \in BOOLEAN, Perform(r)
  PROVE  AnsweredOnce'
  BY OneAck, OneRegister DEF Perform, AnsweredOnce

LEMMA QuietAnswered == ASSUME NoAccess PROVE AnsweredOnce'
  BY DEF NoAccess, AnsweredOnce

LEMMA PlainAnswered ==
  ASSUME NEW addr, NEW w \in BOOLEAN, Perform(Plain(addr, w))
  PROVE  AnsweredOnce'
  BY PerformAnswered DEF Plain

LEMMA BusStep == ASSUME [Next]_vars, AnsweredOnce PROVE AnsweredOnce'
<1>1. CASE UNCHANGED vars
  BY <1>1 DEF vars, bus_vars, AnsweredOnce
<1>2. CASE Drive
  <2>1. CASE DriverStep
    <3>1. PICK r \in DriverAccesses : Perform(r)
      BY <2>1 DEF DriverStep
    <3>2. \A s, w : Access(s, w).we = w
      BY DEF Access
    <3>3. r.we \in BOOLEAN
      BY <3>2 DEF DriverAccesses
    <3>4. QED
      BY <3>1, <3>3, PerformAnswered
  <2>2. CASE StrayStep
    BY <2>2, PlainAnswered DEF StrayStep
  <2>3. QED
    BY <1>2, <2>1, <2>2 DEF Drive
<1>3. CASE ZeroWord \/ LoadWord \/ CopyWord \/ main
  BY <1>3, PlainAnswered DEF ZeroWord, LoadWord, CopyWord, main, Load, Store
<1>4. CASE Start \/ ZeroDone \/ CopyDone \/ OtherMain \/ Forever \/ Reset
  BY <1>4, QuietAnswered DEF Start, ZeroDone, CopyDone, OtherMain, Forever, Reset
<1>5. QED
  BY <1>1, <1>2, <1>3, <1>4 DEF Next, Run

\* Every access, of the startup code, a driver or a program to whatever
\* address, is acknowledged by exactly one party and reads or changes at
\* most one register, with any choice of the build's options.
THEOREM AccessesAnswered == Spec => []AnsweredOnce
<1>1. Init => AnsweredOnce
  BY DEF Init, BusInit, AnsweredOnce
<1>2. AnsweredOnce /\ [Next]_vars => AnsweredOnce'
  BY BusStep
<1>3. QED
  BY <1>1, <1>2, PTL DEF Spec

-----------------------------------------------------------------------------
(* The statics. *)

\* What the startup code has done to the statics by the time it is at a
\* step: .bss zeroed up to t0, then .data copied up to t1.
Places == {"_start", "zero", "copy", "store", "main", "while", "halt"}
Contents == {Zero, Old} \cup {Rom(k) : k \in Nat} \cup {Sum(n) : n \in Nat}

Zeroed(n) == \A b \in layout.bss..(layout.bssEnd - 1) : b < n => ram[b] = Zero
Copied(n) == \A b \in layout.start..(layout.end - 1) :
               b < n => ram[b] = Rom(layout.lma + (b - layout.start))

Zeroing == step = "zero" =>
  /\ t0 \in Nat /\ t0 % 4 = 0 /\ layout.bss <= t0 /\ t1 = layout.bssEnd
  /\ Zeroed(t0)

Copying == step \in {"copy", "store"} =>
  /\ t1 \in Nat /\ t1 % 4 = 0 /\ t0 = layout.lma + t1 /\ t2 = layout.end
  /\ Zeroed(layout.bssEnd) /\ Copied(t1)

Storing == step = "store" => t1 < t2 /\ t3 = t0 \div 4

StartInv ==
  /\ layout \in Linked /\ step \in Places /\ ram \in [0..(RamBytes - 1) -> Contents]
  /\ Zeroing /\ Copying /\ Storing
  /\ StaticsReady

LEMMA RoundUpFacts ==
  ASSUME NEW n \in Nat
  PROVE  /\ RoundUp(n, 4) \in Nat /\ RoundUp(n, 4) % 4 = 0
         /\ n <= RoundUp(n, 4) /\ RoundUp(n, 4) <= n + 3
  BY DEF RoundUp

\* Sections start on a word, and .bss on one behind those of .data.
LEMMA LinkedFacts ==
  ASSUME Align = 4, layout \in Linked
  PROVE  /\ layout.start = 0 /\ layout.end \in Nat /\ layout.lma \in Nat
         /\ layout.bss \in Nat /\ layout.bssEnd \in Nat
         /\ layout.lma % 4 = 0 /\ layout.bss % 4 = 0
         /\ layout.end <= layout.bss /\ layout.bss <= layout.bssEnd
         /\ layout.bssEnd < RamBytes /\ layout.end < RamBytes
<1>1. PICK de \in 0..MaxStatics, be \in 0..MaxStatics, l \in {n \in 0..7 : n % Align = 0} :
        layout = [start |-> 0, end |-> de, lma |-> l,
                  bss |-> RoundUp(de, Align), bssEnd |-> be]
  BY DEF Linked, Layouts
<1>2. QED
  BY <1>1, RoundUpFacts, StartUpAssumption DEF Linked

LEMMA WordIs ==
  ASSUME NEW t \in Nat, t % 4 = 0, NEW b \in 0..(RamBytes - 1)
  PROVE  b \in WordAt(t) <=> t <= b /\ b < t + 4
  BY StartUpAssumption DEF WordAt

LEMMA WithinWord ==
  ASSUME NEW t \in Nat, t % 4 = 0, NEW b \in Nat, t <= b, b < t + 4
  PROVE  b % 4 = b - t
  OBVIOUS

LEMMA ZeroStep == ASSUME Align = 4, StartInv, ZeroWord PROVE StartInv'
<1>1. /\ t0 \in Nat /\ t0 % 4 = 0 /\ layout.bss <= t0 /\ t1 = layout.bssEnd
      /\ Zeroed(t0) /\ t0' = t0 + 4 /\ step' = "zero" /\ step = "zero"
      /\ UNCHANGED <<layout, t1>>
  BY DEF StartInv, Zeroing, ZeroWord
<1>2. /\ layout.bss \in Nat /\ layout.bssEnd \in Nat /\ layout.bssEnd < RamBytes
      /\ RamBytes \in Nat
  BY LinkedFacts, StartUpAssumption DEF StartInv
<1>3. ram' = [b \in 0..(RamBytes - 1) |-> IF b \in WordAt(t0) THEN Zero ELSE ram[b]]
  <2>1. ASSUME NEW b \in 0..(RamBytes - 1) PROVE b % 4 \in 0..3
    BY <2>1, <1>2
  <2>2. QED
    BY <2>1 DEF ZeroWord, StoreWord
<1>4. ram' \in [0..(RamBytes - 1) -> Contents]
  BY <1>3 DEF StartInv, Contents
<1>5. Zeroing'
  <2>1. ASSUME NEW b \in layout.bss..(layout.bssEnd - 1), b < t0 + 4
        PROVE  ram'[b] = Zero
    <3>1. b \in 0..(RamBytes - 1)
      BY <1>2
    <3>2. CASE b < t0
      BY <1>1, <1>3, <3>1, <3>2 DEF Zeroed
    <3>3. CASE ~(b < t0)
      BY <1>1, <1>2, <1>3, <2>1, <3>1, <3>3, WordIs
    <3>4. QED
      BY <3>2, <3>3
  <2>2. (t0 + 4) % 4 = 0 /\ t0 + 4 \in Nat /\ layout.bss <= t0 + 4
    BY <1>1, <1>2
  <2>3. QED
    BY <1>1, <2>1, <2>2 DEF Zeroing, Zeroed
<1>6. QED
  BY <1>1, <1>4, <1>5 DEF StartInv, Copying, Storing, StaticsReady

LEMMA CopyStep == ASSUME Align = 4, StartInv, CopyWord PROVE StartInv'
<1>1. /\ t1 \in Nat /\ t1 % 4 = 0 /\ t0 = layout.lma + t1 /\ t2 = layout.end
      /\ Zeroed(layout.bssEnd) /\ Copied(t1) /\ t1 < t2 /\ t3 = t0 \div 4
      /\ t0' = t0 + 4 /\ t1' = t1 + 4 /\ step' = "copy"
      /\ UNCHANGED <<layout, t2>>
  BY DEF StartInv, Copying, Storing, CopyWord
<1>2. /\ layout.bss \in Nat /\ layout.bssEnd \in Nat /\ layout.bssEnd < RamBytes
      /\ RamBytes \in Nat /\ layout.start = 0 /\ layout.end \in Nat /\ layout.lma \in Nat
      /\ layout.lma % 4 = 0 /\ layout.bss % 4 = 0 /\ layout.end <= layout.bss
      /\ layout.end < RamBytes
  BY LinkedFacts, StartUpAssumption DEF StartInv
<1>3. t3 * 4 = t0
  BY <1>1, <1>2
<1>4. ram' = [b \in 0..(RamBytes - 1) |->
                IF b \in WordAt(t1) THEN Rom(t0 + (b % 4)) ELSE ram[b]]
  <2>1. ASSUME NEW b \in 0..(RamBytes - 1)
        PROVE  [k \in 0..3 |-> Rom(t3 * 4 + k)][b % 4] = Rom(t0 + (b % 4))
    <3>1. b % 4 \in 0..3
      BY <1>2
    <3>2. QED
      BY <1>3, <3>1
  <2>2. ram' = StoreWord(t1, [k \in 0..3 |-> Rom(t3 * 4 + k)])
    BY DEF CopyWord
  <2>3. QED
    BY <2>1, <2>2 DEF StoreWord
<1>5. ram' \in [0..(RamBytes - 1) -> Contents]
  <2>1. ASSUME NEW b \in 0..(RamBytes - 1) PROVE t0 + (b % 4) \in Nat
    BY <2>1, <1>1, <1>2
  <2>2. QED
    BY <1>4, <2>1 DEF StartInv, Contents
<1>6. Zeroed(layout.bssEnd)'
  <2>1. ASSUME NEW b \in layout.bss..(layout.bssEnd - 1)
        PROVE  ram'[b] = Zero
    <3>1. b \in 0..(RamBytes - 1)
      BY <1>2
    <3>2. t1 + 4 <= layout.bss
      BY <1>1, <1>2
    <3>3. b \notin WordAt(t1)
      BY <1>1, <1>2, <3>1, <3>2, WordIs
    <3>4. QED
      BY <1>1, <1>2, <1>4, <3>1, <3>3 DEF Zeroed
  <2>2. QED
    BY <1>1, <2>1 DEF Zeroed
<1>7. Copied(t1)'
  <2>1. ASSUME NEW b \in layout.start..(layout.end - 1), b < t1 + 4
        PROVE  ram'[b] = Rom(layout.lma + (b - layout.start))
    <3>1. b \in 0..(RamBytes - 1)
      BY <1>2
    <3>2. CASE b < t1
      <4>1. b \notin WordAt(t1)
        BY <1>1, <3>1, <3>2, WordIs
      <4>2. QED
        BY <1>1, <1>4, <3>1, <3>2, <4>1 DEF Copied
    <3>3. CASE ~(b < t1)
      <4>1. b \in WordAt(t1) /\ t1 <= b
        BY <1>1, <1>2, <2>1, <3>1, <3>3, WordIs
      <4>2. b % 4 = b - t1
        BY <1>1, <2>1, <3>1, <4>1, WithinWord
      <4>3. t0 + (b % 4) = layout.lma + (b - layout.start)
        BY <1>1, <1>2, <3>1, <4>2
      <4>4. QED
        BY <1>4, <3>1, <4>1, <4>3
    <3>4. QED
      BY <3>2, <3>3
  <2>2. QED
    BY <1>1, <2>1 DEF Copied
<1>8. Copying'
  <2>1. (t1 + 4) % 4 = 0 /\ t1 + 4 \in Nat /\ t0 + 4 = layout.lma + (t1 + 4)
    BY <1>1, <1>2
  <2>2. QED
    BY <1>1, <1>6, <1>7, <2>1 DEF Copying
<1>9. QED
  BY <1>1, <1>5, <1>8 DEF StartInv, Zeroing, Storing, StaticsReady, Places

LEMMA OtherStep ==
  ASSUME Align = 4, StartInv, Next, ~ZeroWord, ~CopyWord
  PROVE  StartInv'
<1>1. /\ layout.bss \in Nat /\ layout.bssEnd \in Nat /\ layout.start = 0
      /\ layout.end \in Nat /\ layout.lma \in Nat
      /\ layout.lma % 4 = 0 /\ layout.bss % 4 = 0 /\ layout.bss <= layout.bssEnd
  BY LinkedFacts DEF StartInv
<1>2. CASE Start
  <2>1. step' = "zero" /\ t0' = layout.bss /\ t1' = layout.bssEnd /\ UNCHANGED <<layout, ram>>
    BY <1>2 DEF Start
  <2>2. Zeroing'
    BY <1>1, <2>1 DEF Zeroing, Zeroed
  <2>3. QED
    BY <2>1, <2>2 DEF StartInv, Copying, Storing, StaticsReady, Places
<1>3. CASE ZeroDone
  <2>1. /\ step = "zero" /\ t0 >= t1 /\ step' = "copy" /\ UNCHANGED <<layout, ram>>
        /\ t0' = layout.lma /\ t1' = layout.start /\ t2' = layout.end
    BY <1>3 DEF ZeroDone
  <2>2. Zeroed(layout.bssEnd)
    BY <1>1, <2>1 DEF StartInv, Zeroing, Zeroed
  <2>3. Zeroed(layout.bssEnd)'
    BY <2>1, <2>2 DEF Zeroed
  <2>4. Copied(t1)'
    <3>1. t1' = 0 /\ layout'.start = 0 /\ layout'.end \in Nat
      BY <1>1, <2>1
    <3>2. QED
      BY <3>1 DEF Copied
  <2>5. t1' \in Nat /\ t1' % 4 = 0 /\ t0' = layout'.lma + t1' /\ t2' = layout'.end
    BY <1>1, <2>1
  <2>6. Copying'
    BY <2>3, <2>4, <2>5 DEF Copying
  <2>7. QED
    BY <2>1, <2>6 DEF StartInv, Zeroing, Storing, StaticsReady, Places
<1>4. CASE LoadWord
  BY <1>4 DEF LoadWord, StartInv, Zeroing, Copying, Copied, Zeroed, Storing,
              StaticsReady, Places
<1>5. CASE CopyDone
  <2>1. Zeroed(layout.bssEnd) /\ Copied(layout.end)
    BY <1>1, <1>5 DEF CopyDone, StartInv, Copying, Copied
  <2>2. StaticsReady'
    BY <1>1, <1>5, <2>1 DEF CopyDone, StaticsReady, Zeroed, Copied
  <2>3. QED
    BY <1>5, <2>2 DEF CopyDone, StartInv, Zeroing, Copying, Storing, Places
<1>6. CASE main
  <2>1. ram' \in [0..(RamBytes - 1) -> Contents]
    <3>1. ASSUME NEW b \in 0..(RamBytes - 1) PROVE b % 4 \in 0..3
      BY <3>1, StartUpAssumption
    <3>2. Sum(add(a, 10)) \in Contents
      BY DEF Contents, add, a
    <3>3. QED
      BY <1>6, <3>1, <3>2 DEF main, StoreWord, StartInv
  <2>2. QED
    BY <1>6, <2>1 DEF main, StartInv, Zeroing, Copying, Storing, StaticsReady, Places
<1>7. CASE OtherMain
  <2>1. ram' \in [0..(RamBytes - 1) -> Contents]
    BY <1>7 DEF OtherMain, StartInv, Contents
  <2>2. QED
    BY <1>7, <2>1 DEF OtherMain, StartInv, Zeroing, Copying, Storing, StaticsReady, Places
<1>8. CASE Drive \/ Reset
  BY <1>8 DEF Drive, Reset, StartInv, Zeroing, Copying, Storing, StaticsReady, Places
<1>9. CASE Forever
  BY <1>9 DEF Forever, cpu_vars, StartInv, Zeroing, Zeroed, Copying, Copied, Storing, StaticsReady
<1>10. QED
  BY <1>2, <1>3, <1>4, <1>5, <1>6, <1>7, <1>8, <1>9 DEF Next, Run

\* With sections aligned to words, of whatever size and wherever the image
\* of .data ends up in the ROM, main finds .bss zero and .data initialised:
\* on power-on, and after a reset in the middle of the startup or of main.
THEOREM StaticsAreReady ==
  ASSUME Align = 4
  PROVE  Spec => []StaticsReady
<1>1. Init => StartInv
  BY DEF Init, StartInv, Zeroing, Copying, Storing, StaticsReady, Places, Contents
<1>2. StartInv /\ [Next]_vars => StartInv'
  <2> SUFFICES ASSUME StartInv, [Next]_vars PROVE StartInv'
    OBVIOUS
  <2>1. CASE UNCHANGED vars
    BY <2>1 DEF vars, cpu_vars, StartInv, Zeroing, Zeroed, Copying, Copied, Storing, StaticsReady
  <2>2. QED
    BY <2>1, ZeroStep, CopyStep, OtherStep DEF Next, Run
<1>3. StartInv => StaticsReady
  BY DEF StartInv
<1>4. QED
  BY <1>1, <1>2, <1>3, PTL DEF Spec
=============================================================================

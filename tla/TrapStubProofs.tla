--------------------------- MODULE TrapStubProofs ---------------------------
(***************************************************************************)
(* trap_entry is transparent for every set of saved registers, every stack *)
(* and every program.  Inv says at each instruction of the stub which      *)
(* registers are safe in the frame and which are back.                     *)
(***************************************************************************)
EXTENDS TrapStub, TLAPS

RegIntact(r)    == regs[r] = InReg(r, pc)
WordIntact(a)   == stack[a] = InWord(a, pc)
InFrame(i)      == stack[sp + (i - 1)] = InReg(Saved[i], pc)

\* At the stub's ends nothing of the program is touched.
AtEnds == step \in {0, ADJUST, MRET} =>
  /\ sp \in N..Top
  /\ \A r \in Registers : RegIntact(r)
  /\ \A a \in Words : a >= sp => WordIntact(a)

\* With the frame open the program's words lie above it, and it holds the
\* registers stored so far.
Frame == step \in 2..RELEASE =>
  /\ sp \in 0..(Top - N)
  /\ \A a \in Words : a >= sp + N => WordIntact(a)
  /\ \A i \in 1..N : i <= step - 2 => InFrame(i)

\* The registers are the program's until mcause is read, and again when
\* they have been loaded.
Storing == step \in 2..CAUSE => \A r \in Registers : RegIntact(r)
Loading == step \in (N + 5)..RELEASE =>
  \A i \in 1..N : i <= step - (N + 5) => RegIntact(Saved[i])

\* What the handler is called with.
Arguments == /\ step \in {EPC, CALL} => regs["a0"] = Cause(mcause)
             /\ step = CALL => regs["a1"] = Point(mepc)

Place == step # 0 => mepc = pc

Inv == TypeOK /\ AtEnds /\ Frame /\ Storing /\ Loading /\ Arguments /\ Place

-----------------------------------------------------------------------------
\* The sizes and names the arithmetic of every step rests on.
LEMMA Sizes ==
  /\ N \in Nat /\ N >= 2 /\ Top \in Nat /\ N <= Top
  /\ \A i \in 1..N : Saved[i] \in Registers
  /\ "a0" \in Registers /\ "a1" \in Registers
<1>1. N \in Nat
  BY StubAssumption DEF N
<1>2. N >= 2 /\ Top \in Nat /\ N <= Top
  BY StubAssumption, <1>1
<1>3. \A i \in 1..N : Saved[i] \in Registers
  BY DEF Registers
<1>4. "a0" \in Registers /\ "a1" \in Registers
  BY StubAssumption DEF Registers
<1> QED
  BY <1>1, <1>2, <1>3, <1>4

\* Two different registers do not share a slot of the frame.
LEMMA Slots == \A i, j \in 1..N : Saved[i] = Saved[j] => i = j
  BY StubAssumption

\* The stub's instructions in order.
LEMMA Steps ==
  ASSUME step \in 0..MRET
  PROVE  step \in Int /\ MRET = 2 * N + 6 /\ RELEASE = 2 * N + 5 /\ MRET \in Nat
  BY Sizes DEF MRET, RELEASE

LEMMA InitInv == Init => Inv
<1> SUFFICES ASSUME Init PROVE Inv
  OBVIOUS
<1> USE Sizes
<1>1. TypeOK
  BY DEF Init, TypeOK, MRET, RELEASE
<1>2. AtEnds
  BY DEF Init, AtEnds, RegIntact, WordIntact
<1>3. Frame /\ Storing /\ Loading /\ Arguments /\ Place
  BY DEF Init, Frame, Storing, Loading, Arguments, Place, CAUSE, EPC, CALL, RELEASE
<1> QED
  BY <1>1, <1>2, <1>3 DEF Inv

-----------------------------------------------------------------------------
\* What an instruction of the stub leaves alone.
LEMMA Elsewhere ==
  ASSUME Inv, Instruction, step \in 1..RELEASE,
         DOMAIN regs' = Registers, DOMAIN stack' = Words,
         sp' \in 0..Top, step' \in 2..RELEASE => sp' + N <= Top
  PROVE  TypeOK' /\ Place'
<1> USE Sizes
<1>1. step' = step + 1 /\ step' \in 0..MRET
  BY DEF Instruction, RELEASE, MRET
<1>2. /\ pc' = pc /\ mepc' = mepc /\ mcause' = mcause /\ MIE' = MIE /\ MPIE' = MPIE
      /\ lines' \subseteq Causes
  BY DEF Instruction
<1>3. TypeOK'
  BY <1>1, <1>2 DEF Inv, TypeOK
<1>4. Place'
  BY <1>1, <1>2 DEF Inv, Place, RELEASE
<1> QED
  BY <1>3, <1>4

LEMMA ProgramInv == Inv /\ Program => Inv'
<1> SUFFICES ASSUME Inv, Program PROVE Inv'
  OBVIOUS
<1> USE Sizes
<1>1. TypeOK'
  BY DEF Inv, TypeOK, Program, MRET, RELEASE
<1>2. AtEnds'
  BY DEF Program, AtEnds, RegIntact, WordIntact
<1>3. Frame' /\ Storing' /\ Loading' /\ Arguments' /\ Place'
  BY DEF Program, Frame, Storing, Loading, Arguments, Place, CAUSE, EPC, CALL, RELEASE
<1> QED
  BY <1>1, <1>2, <1>3 DEF Inv

LEMMA TrapInv == Inv /\ Trap => Inv'
<1> SUFFICES ASSUME Inv, Trap PROVE Inv'
  OBVIOUS
<1> USE Sizes
<1>1. TypeOK'
  <2>1. step' \in 0..MRET /\ ~(step' \in 2..RELEASE)
    BY DEF Trap, MRET, RELEASE, ADJUST
  <2>2. /\ pc' = pc /\ regs' = regs /\ sp' = sp /\ stack' = stack
        /\ mepc' = pc /\ MPIE' = MIE /\ MIE' = FALSE
    BY DEF Trap
  <2>3. mcause' \in Causes /\ lines' \subseteq Causes
    BY DEF Inv, TypeOK, Trap
  <2> QED
    BY <2>1, <2>2, <2>3 DEF Inv, TypeOK
<1>2. AtEnds'
  BY DEF Inv, Trap, AtEnds, RegIntact, WordIntact, ADJUST
<1>3. Frame' /\ Storing' /\ Loading' /\ Arguments' /\ Place'
  BY DEF Trap, Frame, Storing, Loading, Arguments, Place, CAUSE, EPC, CALL, RELEASE, ADJUST
<1> QED
  BY <1>1, <1>2, <1>3 DEF Inv

LEMMA AdjustInv == Inv /\ Adjust => Inv'
<1> SUFFICES ASSUME Inv, Adjust PROVE Inv'
  OBVIOUS
<1> USE Sizes
<1>1. /\ step = 1 /\ step' = 2 /\ sp \in N..Top /\ sp' = sp - N
      /\ pc' = pc /\ regs' = regs /\ stack' = stack
  BY DEF Inv, AtEnds, Adjust, Instruction, ADJUST
<1>2. TypeOK' /\ Place'
  BY <1>1, Elsewhere DEF Adjust, Inv, TypeOK, RELEASE
<1>3. Frame'
  BY <1>1 DEF Inv, AtEnds, Frame, WordIntact, ADJUST
<1>4. Storing'
  BY <1>1 DEF Inv, AtEnds, Storing, RegIntact, ADJUST
<1>5. AtEnds' /\ Loading' /\ Arguments'
  BY <1>1 DEF AtEnds, Loading, Arguments, ADJUST, MRET, EPC, CALL
<1> QED
  BY <1>2, <1>3, <1>4, <1>5 DEF Inv

LEMMA StoreInv == Inv /\ Store => Inv'
<1> SUFFICES ASSUME Inv, Store PROVE Inv'
  OBVIOUS
<1> USE Sizes
<1> DEFINE k == step - 1
<1>1. /\ step \in 2..(N + 1) /\ step' = step + 1 /\ k \in 1..N
      /\ sp' = sp /\ pc' = pc /\ regs' = regs
      /\ stack' = [stack EXCEPT ![sp + (k - 1)] = regs[Saved[k]]]
      /\ DOMAIN stack = Words /\ sp \in 0..(Top - N)
  BY DEF Inv, TypeOK, Frame, Store, Instruction, STORES, RELEASE
<1>2. TypeOK' /\ Place'
  BY <1>1, Elsewhere DEF Inv, TypeOK, Store, RELEASE
<1>3. Storing'
  BY <1>1 DEF Inv, Storing, RegIntact, CAUSE
<1>4. regs[Saved[k]] = InReg(Saved[k], pc)
  BY <1>1 DEF Inv, Storing, RegIntact, CAUSE
<1>5. \A a \in Words : a >= sp' + N => WordIntact(a)'
  BY <1>1 DEF Inv, Frame, WordIntact, RELEASE, Words
<1>6. ASSUME NEW i \in 1..N, i <= step' - 2 PROVE InFrame(i)'
  <2>1. sp + (i - 1) \in Words
    BY <1>1 DEF Words
  <2>2. CASE i = k
    BY <1>1, <1>4, <2>1, <2>2 DEF InFrame
  <2>3. CASE i # k
    <3>1. i <= step - 2 /\ sp + (i - 1) # sp + (k - 1)
      BY <1>1, <1>6, <2>3
    <3>2. InFrame(i)
      BY <1>1, <3>1 DEF Inv, Frame, RELEASE
    <3> QED
      BY <1>1, <2>1, <3>1, <3>2 DEF InFrame
  <2> QED
    BY <2>2, <2>3
<1>7. Frame'
  BY <1>1, <1>5, <1>6 DEF Frame
<1>8. AtEnds' /\ Loading' /\ Arguments'
  BY <1>1 DEF AtEnds, Loading, Arguments, ADJUST, MRET, EPC, CALL
<1> QED
  BY <1>2, <1>3, <1>7, <1>8 DEF Inv
LEMMA ReadCauseInv == Inv /\ ReadCause => Inv'
<1> SUFFICES ASSUME Inv, ReadCause PROVE Inv'
  OBVIOUS
<1> USE Sizes
<1>1. /\ step = CAUSE /\ step' = N + 3 /\ sp' = sp /\ pc' = pc /\ stack' = stack
      /\ mcause' = mcause /\ regs' = [regs EXCEPT !["a0"] = Cause(mcause)]
      /\ DOMAIN regs = Registers
  BY DEF Inv, TypeOK, ReadCause, Instruction, CAUSE
<1>2. TypeOK' /\ Place'
  BY <1>1, Elsewhere DEF Inv, TypeOK, ReadCause, RELEASE, CAUSE
<1>3. Frame'
  BY <1>1 DEF Inv, Frame, WordIntact, InFrame, RELEASE, CAUSE
<1>4. Arguments'
  BY <1>1 DEF Arguments, EPC, CALL
<1>5. AtEnds' /\ Storing' /\ Loading'
  BY <1>1 DEF AtEnds, Storing, Loading, ADJUST, MRET, CAUSE
<1> QED
  BY <1>2, <1>3, <1>4, <1>5 DEF Inv

LEMMA ReadEpcInv == Inv /\ ReadEpc => Inv'
<1> SUFFICES ASSUME Inv, ReadEpc PROVE Inv'
  OBVIOUS
<1> USE Sizes
<1>1. /\ step = EPC /\ step' = N + 4 /\ sp' = sp /\ pc' = pc /\ stack' = stack
      /\ mcause' = mcause /\ mepc' = mepc /\ regs' = [regs EXCEPT !["a1"] = Point(mepc)]
      /\ DOMAIN regs = Registers
  BY DEF Inv, TypeOK, ReadEpc, Instruction, EPC
<1>2. TypeOK' /\ Place'
  BY <1>1, Elsewhere DEF Inv, TypeOK, ReadEpc, RELEASE, EPC
<1>3. Frame'
  BY <1>1 DEF Inv, Frame, WordIntact, InFrame, RELEASE, EPC
<1>4. Arguments'
  <2>1. regs["a0"] = Cause(mcause)
    BY <1>1 DEF Inv, Arguments
  <2>2. "a0" # "a1"
    OBVIOUS
  <2> QED
    BY <1>1, <2>1, <2>2 DEF Arguments, EPC, CALL
<1>5. AtEnds' /\ Storing' /\ Loading'
  BY <1>1 DEF AtEnds, Storing, Loading, ADJUST, MRET, CAUSE, EPC
<1> QED
  BY <1>2, <1>3, <1>4, <1>5 DEF Inv

LEMMA HandlerInv == Inv /\ Handler => Inv'
<1> SUFFICES ASSUME Inv, Handler PROVE Inv'
  OBVIOUS
<1> USE Sizes
<1>1. /\ step = CALL /\ step' = N + 5 /\ sp' = sp /\ pc' = pc
      /\ DOMAIN regs' = Registers /\ DOMAIN stack = Words
      /\ stack' = [a \in Words |-> IF a < sp THEN Junk ELSE stack[a]]
      /\ sp \in 0..(Top - N)
  BY DEF Inv, TypeOK, Frame, Handler, Instruction, CALL, RELEASE
<1>2. TypeOK' /\ Place'
  BY <1>1, Elsewhere DEF Inv, TypeOK, Handler, RELEASE, CALL
<1>3. \A a \in Words : a >= sp' + N => WordIntact(a)'
  BY <1>1 DEF Inv, Frame, WordIntact, Words, RELEASE, CALL
<1>4. ASSUME NEW i \in 1..N PROVE InFrame(i)'
  <2>1. sp + (i - 1) \in Words /\ ~(sp + (i - 1) < sp)
    BY <1>1 DEF Words
  <2>2. InFrame(i)
    BY <1>1 DEF Inv, Frame, RELEASE, CALL
  <2> QED
    BY <1>1, <2>1, <2>2 DEF InFrame
<1>5. Frame'
  BY <1>1, <1>3, <1>4 DEF Frame
<1>6. AtEnds' /\ Storing' /\ Loading' /\ Arguments'
  BY <1>1 DEF AtEnds, Storing, Loading, Arguments, ADJUST, MRET, CAUSE, EPC, CALL
<1> QED
  BY <1>2, <1>5, <1>6 DEF Inv

LEMMA LoadInv == Inv /\ Load => Inv'
<1> SUFFICES ASSUME Inv, Load PROVE Inv'
  OBVIOUS
<1> USE Sizes
<1> DEFINE k == step - (N + 4)
<1>1. /\ step \in (N + 5)..(2 * N + 4) /\ step' = step + 1 /\ k \in 1..N
      /\ sp' = sp /\ pc' = pc /\ stack' = stack /\ DOMAIN regs = Registers
      /\ regs' = [regs EXCEPT ![Saved[k]] = stack[sp + (k - 1)]]
  BY DEF Inv, TypeOK, Load, Instruction, LOADS
<1>2. TypeOK' /\ Place'
  BY <1>1, Elsewhere DEF Inv, TypeOK, Load, RELEASE
<1>3. Frame'
  BY <1>1 DEF Inv, Frame, WordIntact, InFrame, RELEASE
<1>4. stack[sp + (k - 1)] = InReg(Saved[k], pc)
  BY <1>1 DEF Inv, Frame, InFrame, RELEASE
<1>5. ASSUME NEW i \in 1..N, i <= step' - (N + 5) PROVE RegIntact(Saved[i])'
  <2>1. Saved[i] \in Registers
    OBVIOUS
  <2>2. CASE i = k
    BY <1>1, <1>4, <2>1, <2>2 DEF RegIntact
  <2>3. CASE i # k
    <3>1. i <= step - (N + 5) /\ Saved[i] # Saved[k]
      BY <1>1, <1>5, <2>3, Slots
    <3>2. RegIntact(Saved[i])
      BY <1>1, <3>1 DEF Inv, Loading, RELEASE
    <3> QED
      BY <1>1, <2>1, <3>1, <3>2 DEF RegIntact
  <2> QED
    BY <2>2, <2>3
<1>6. Loading'
  BY <1>1, <1>5 DEF Loading
<1>7. AtEnds' /\ Storing' /\ Arguments'
  BY <1>1 DEF AtEnds, Storing, Arguments, ADJUST, MRET, CAUSE, EPC, CALL
<1> QED
  BY <1>2, <1>3, <1>6, <1>7 DEF Inv

LEMMA ReleaseInv == Inv /\ Release => Inv'
<1> SUFFICES ASSUME Inv, Release PROVE Inv'
  OBVIOUS
<1> USE Sizes
<1>1. /\ step = RELEASE /\ step' = MRET /\ sp' = sp + N /\ sp \in 0..(Top - N)
      /\ pc' = pc /\ regs' = regs /\ stack' = stack
  BY DEF Inv, Frame, Release, Instruction, RELEASE, MRET
<1>2. TypeOK' /\ Place'
  BY <1>1, Elsewhere DEF Inv, TypeOK, Release, RELEASE, MRET
<1>3. ASSUME NEW r \in Registers PROVE RegIntact(r)'
  <2>1. PICK i \in 1..N : r = Saved[i]
    BY DEF Registers
  <2>2. RegIntact(Saved[i])
    BY <1>1 DEF Inv, Loading, RELEASE
  <2> QED
    BY <1>1, <2>1, <2>2 DEF RegIntact
<1>4. \A a \in Words : a >= sp' => WordIntact(a)'
  BY <1>1 DEF Inv, Frame, WordIntact, RELEASE
<1>5. AtEnds'
  BY <1>1, <1>3, <1>4 DEF AtEnds
<1>6. Frame' /\ Storing' /\ Loading' /\ Arguments'
  BY <1>1 DEF Frame, Storing, Loading, Arguments, MRET, RELEASE, CAUSE, EPC, CALL
<1> QED
  BY <1>2, <1>5, <1>6 DEF Inv

LEMMA MretInv == Inv /\ Mret => Inv'
<1> SUFFICES ASSUME Inv, Mret PROVE Inv'
  OBVIOUS
<1> USE Sizes
<1>1. /\ step = MRET /\ step' = 0 /\ pc' = pc /\ mepc' = mepc /\ mcause' = mcause
      /\ regs' = regs /\ sp' = sp /\ stack' = stack
      /\ MIE' = MPIE /\ MPIE' = MPIE /\ lines' \subseteq Causes
  BY DEF Inv, Place, Mret, MRET
<1>2. step' \in 0..MRET /\ ~(step' \in 2..RELEASE)
  BY <1>1 DEF MRET, RELEASE
<1>3. TypeOK'
  BY <1>1, <1>2 DEF Inv, TypeOK
<1>4. AtEnds'
  BY <1>1 DEF Inv, AtEnds, RegIntact, WordIntact
<1>5. Frame' /\ Storing' /\ Loading' /\ Arguments' /\ Place'
  BY <1>1 DEF Frame, Storing, Loading, Arguments, Place, RELEASE, CAUSE, EPC, CALL
<1> QED
  BY <1>3, <1>4, <1>5 DEF Inv

-----------------------------------------------------------------------------
LEMMA StepInv == Inv /\ [Next]_vars => Inv'
<1> SUFFICES ASSUME Inv, [Next]_vars PROVE Inv'
  OBVIOUS
<1>1. CASE Program BY <1>1, ProgramInv
<1>2. CASE Trap BY <1>2, TrapInv
<1>3. CASE Adjust BY <1>3, AdjustInv
<1>4. CASE Store BY <1>4, StoreInv
<1>5. CASE ReadCause BY <1>5, ReadCauseInv
<1>6. CASE ReadEpc BY <1>6, ReadEpcInv
<1>7. CASE Handler BY <1>7, HandlerInv
<1>8. CASE Load BY <1>8, LoadInv
<1>9. CASE Release BY <1>9, ReleaseInv
<1>10. CASE Mret BY <1>10, MretInv
<1>11. CASE UNCHANGED vars
  BY <1>11 DEF vars, Inv, TypeOK, AtEnds, Frame, Storing, Loading, Arguments, Place,
               RegIntact, WordIntact, InFrame
<1> QED
  BY <1>1, <1>2, <1>3, <1>4, <1>5, <1>6, <1>7, <1>8, <1>9, <1>10, <1>11 DEF Next, Stub

\* The invariant holds in every state.
LEMMA Invariance == Spec => []Inv
  BY InitInv, StepInv, PTL DEF Spec

\* Whatever set of registers the stub saves and whatever the handler does to
\* them, the interrupted program never sees that it was interrupted.
THEOREM StubTransparent == Spec => []Transparent
<1>1. Inv => Transparent
  BY DEF Inv, AtEnds, RegIntact, WordIntact, Transparent
<1> QED
  BY Invariance, <1>1, PTL

\* The handler is always called with the cause and the place of its trap.
THEOREM StubArguments == Spec => []ArgumentsRight
<1>1. Inv => ArgumentsRight
  BY Sizes DEF Inv, Arguments, Place, ArgumentsRight, EPC, CALL
<1> QED
  BY Invariance, <1>1, PTL
=============================================================================
